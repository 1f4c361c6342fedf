-------------------------- MODULE SchedulerProofs --------------------------
(***************************************************************************)
(* Proofs about Scheduler, for any number of pages.                        *)
(*                                                                         *)
(* The inductive invariant, IInv, says that some sequence of pages is the  *)
(* ring: following next from the first task runs through the live tasks    *)
(* in that order, previous runs back.  What adding, yielding and exiting   *)
(* do to the links is then what Append and Tail do to the sequence, and    *)
(* the refinement of RoundRobin is read off the same lemmas.               *)
(***************************************************************************)
EXTENDS Scheduler, OrderLemmas, FiniteSetTheorems, TLAPS

\* Where a task that is being added or cleaned up stands, and which stack
\* the processor is on.
Control ==
  /\ free \intersect owned = {}
  /\ halted <=> pc = "panic"
  /\ IF pc = "add" THEN task \in owned ELSE task = NULL
  /\ IF pc \in {"cleanup", "dealloc"} THEN current \in owned ELSE current = NULL
  /\ pc \in {"caller", "run", "dealloc", "resumed"} => esp = KernelStack
  /\ pc = "task" => esp = next_task
  /\ pc = "cleanup" => esp = current
  /\ pc \in {"add", "panic"} => esp \in {KernelStack, next_task}

Members(q) == {q[i] : i \in DOMAIN q}

\* The task scheduler_run has just run, or the one before it, is last.
Behind(q) ==
  pc \in {"cleanup", "dealloc", "resumed"} /\ next_task # NULL =>
    q # <<>> /\ q[Len(q)] = next_task

\* The live tasks in running order.
TheRing(q) ==
  /\ Distinct(q)
  /\ IsRing(q, FirstTask)
  /\ Members(q) = Live
  /\ Behind(q)

\* The inductive invariant.
IInv ==
  /\ TypeOK
  /\ Control
  /\ \E q \in Seq(Pages) : TheRing(q)

-----------------------------------------------------------------------------
\* How many numbers there are from 1 to n.
LEMMA IntervalSize ==
  ASSUME NEW n \in Nat
  PROVE  Cardinality(1 .. n) = n
<1>1. 1 \in Int /\ n \in Int
  OBVIOUS
<1>2. Cardinality(1 .. n) = IF 1 > n THEN 0 ELSE n - 1 + 1
  BY <1>1, FS_Interval
<1> QED
  BY <1>2

\* A sequence of different pages is no longer than there are pages.
LEMMA OrdersAre ==
  ASSUME NEW q \in Seq(Pages), Distinct(q)
  PROVE  q \in TaskOrders
<1>1. q \in [1 .. Len(q) -> Pages] /\ Len(q) \in Nat
  OBVIOUS
<1>2. q \in Injection(1 .. Len(q), Pages)
  BY <1>1 DEF Distinct, Injection, IsInjective
<1>3. Cardinality(1 .. Len(q)) <= Cardinality(Pages)
  BY <1>2, FS_Injection, PagesAssumption
<1>4. Cardinality(1 .. Len(q)) = Len(q)
  BY <1>1, IntervalSize
<1>5. Cardinality(Pages) \in Nat
  BY FS_CardinalityType, PagesAssumption
<1>6. Len(q) \in 0 .. Cardinality(Pages)
  BY <1>1, <1>3, <1>4, <1>5
<1> QED
  BY <1>1, <1>6 DEF TaskOrders

\* A ring is read off in one way only.
LEMMA OneRing ==
  ASSUME NEW q \in TaskOrders, NEW r \in TaskOrders, NEW first,
         IsRing(q, first), IsRing(r, first)
  PROVE  q = r
<1>1. /\ q \in Seq(Pages) /\ Distinct(q)
      /\ r \in Seq(Pages) /\ Distinct(r)
  BY DEF TaskOrders
<1>2. CASE first = NULL
  BY <1>2 DEF IsRing
<1>3. CASE first # NULL
  <2> DEFINE D == {i \in DOMAIN q \intersect DOMAIN r : q[i] # r[i]}
  <2>1. D = {}
    <3> SUFFICES ASSUME D # {}
                 PROVE  FALSE
      OBVIOUS
    <3>1. D \subseteq Nat
      BY <1>1
    <3>2. PICK i \in D : \A j \in D : i <= j
      BY <3>1, LeastElement
    <3>3. i # 1
      BY <3>2, <1>3 DEF IsRing
    <3>4. /\ i - 1 \in DOMAIN q /\ i - 1 \in DOMAIN r
          /\ i - 1 # Len(q) /\ i - 1 # Len(r)
      BY <1>1, <3>2, <3>3
    <3>5. q[i - 1] = r[i - 1]
      BY <3>1, <3>2, <3>4
    <3>6. next[q[i - 1]] = q[i] /\ next[r[i - 1]] = r[i]
      BY <1>1, <1>3, <3>2, <3>4 DEF IsRing
    <3> QED
      BY <3>2, <3>5, <3>6
  <2>2. ASSUME NEW s \in Seq(Pages), NEW t \in Seq(Pages), Distinct(t),
               IsRing(s, first), IsRing(t, first),
               \A i \in DOMAIN s \intersect DOMAIN t : s[i] = t[i]
        PROVE  ~ (Len(s) < Len(t))
    <3> SUFFICES ASSUME Len(s) < Len(t)
                 PROVE  FALSE
      OBVIOUS
    <3>1. /\ Len(s) \in DOMAIN s /\ Len(s) \in DOMAIN t
          /\ Len(s) # Len(t) /\ Len(s) + 1 \in DOMAIN t /\ 1 \in DOMAIN t
      BY <1>3, <2>2 DEF IsRing
    <3>2. next[s[Len(s)]] = s[1] /\ next[t[Len(s)]] = t[Len(s) + 1]
      BY <1>3, <2>2, <3>1 DEF IsRing
    <3>3. s[1] = first /\ t[1] = first
      BY <1>3, <2>2 DEF IsRing
    <3>4. t[1] = t[Len(s) + 1]
      BY <2>2, <3>1, <3>2, <3>3
    <3>5. 1 # Len(s) + 1
      BY <3>1
    <3> QED
      BY <2>2, <3>1, <3>4, <3>5 DEF Distinct
  <2>3. Len(q) = Len(r)
    BY <1>1, <2>1, <2>2
  <2> QED
    BY <1>1, <2>1, <2>3
<1> QED
  BY <1>2, <1>3

-----------------------------------------------------------------------------
\* IsRing of the next state, for a fixed sequence.
LEMMA RingAfter ==
  ASSUME NEW q, NEW first, first = FirstTask', first # NULL,
         q # <<>>, q[1] = first,
         \A i \in DOMAIN q :
           LET j == IF i = Len(q) THEN 1 ELSE i + 1
           IN  next'[q[i]] = q[j] /\ previous'[q[j]] = q[i]
  PROVE  IsRing(q, FirstTask)'
  BY DEF IsRing

\* The links of a ring of n tasks, one by one.
LEMMA RingLinks ==
  ASSUME NEW q \in Seq(Pages), NEW n \in Nat, n = Len(q),
         NEW first, first # NULL, IsRing(q, first)
  PROVE  /\ n >= 1 /\ q[1] = first
         /\ \A i \in 1 .. n : q[i] \in Pages
         /\ \A i \in 1 .. n :
              i # n => next[q[i]] = q[i + 1] /\ previous[q[i + 1]] = q[i]
         /\ next[q[n]] = q[1] /\ previous[q[1]] = q[n]
<1>1. /\ n >= 1 /\ q[1] = first /\ DOMAIN q = 1 .. n
      /\ \A i \in 1 .. n : q[i] \in Pages
  BY DEF IsRing
<1>2. ASSUME NEW i \in DOMAIN q
      PROVE  LET j == IF i = n THEN 1 ELSE i + 1
             IN  next[q[i]] = q[j] /\ previous[q[j]] = q[i]
  BY DEF IsRing
<1>3. n \in DOMAIN q
  BY <1>1
<1> QED
  BY <1>1, <1>2, <1>3

\* scheduler_add_process: the new task goes to the end.
LEMMA LinkTask ==
  ASSUME TypeOK, NEW q \in Seq(Pages), Distinct(q), IsRing(q, next_task),
         NEW t \in Pages, t = task, t \notin Members(q),
         AddLink
  PROVE  /\ Append(q, t) \in Seq(Pages)
         /\ Distinct(Append(q, t))
         /\ IsRing(Append(q, t), FirstTask)'
         /\ Members(Append(q, t)) = Members(q) \union {t}
<1>s. Append(q, t) \in Seq(Pages)
  OBVIOUS
<1>r. PICK r \in Seq(Pages) : r = Append(q, t)
  BY <1>s
<1>n. PICK n \in Nat : n = Len(q)
  OBVIOUS
<1>1. /\ r \in Seq(Pages) /\ Len(r) = n + 1
      /\ Len(q) = n
      /\ r[n + 1] = t
      /\ \A i \in 1 .. n : r[i] = q[i]
      /\ DOMAIN r = 1 .. n + 1 /\ DOMAIN q = 1 .. n
  BY <1>r, <1>n
<1>2. \A i \in 1 .. n : q[i] \in Pages /\ q[i] # t
  BY <1>1 DEF Members
<1>3. Distinct(r)
  <2> SUFFICES ASSUME NEW i \in 1 .. n + 1, NEW j \in 1 .. n + 1, r[i] = r[j]
               PROVE  i = j
    BY <1>1 DEF Distinct
  <2>1. CASE i \in 1 .. n /\ j \in 1 .. n
    BY <1>1, <2>1 DEF Distinct
  <2>2. CASE i = n + 1 /\ j = n + 1
    BY <2>2
  <2>3. CASE i \in 1 .. n /\ j = n + 1
    BY <1>1, <1>2, <2>3
  <2>4. CASE i = n + 1 /\ j \in 1 .. n
    BY <1>1, <1>2, <2>4
  <2> QED
    BY <1>1, <2>1, <2>2, <2>3, <2>4
<1>4. Members(r) = Members(q) \union {t}
  <2>1. ASSUME NEW x \in Members(r)
        PROVE  x \in Members(q) \union {t}
    <3>1. PICK i \in 1 .. n + 1 : x = r[i]
      BY <1>1, <2>1 DEF Members
    <3>2. CASE i = n + 1
      BY <1>1, <3>1, <3>2
    <3>3. CASE i \in 1 .. n
      BY <1>1, <3>1, <3>3 DEF Members
    <3> QED
      BY <1>1, <3>2, <3>3
  <2>2. ASSUME NEW x \in Members(q)
        PROVE  x \in Members(r)
    <3>1. PICK i \in 1 .. n : x = q[i]
      BY <1>1, <2>2 DEF Members
    <3>2. i \in 1 .. n + 1
      BY <1>1
    <3> QED
      BY <1>1, <3>1, <3>2 DEF Members
  <2>3. t \in Members(r)
    <3>1. n + 1 \in 1 .. n + 1
      BY <1>1
    <3> QED
      BY <1>1, <3>1 DEF Members
  <2> QED
    BY <2>1, <2>2, <2>3
<1>f. FirstTask' = next_task'
  BY DEF AddLink, ReturnFromAdd, FirstTask
<1>5. CASE next_task = NULL
  <2>1. n = 0
    BY <1>1, <1>5 DEF IsRing
  <2>2. /\ next' = [next EXCEPT ![t] = t]
        /\ previous' = [previous EXCEPT ![t] = t]
        /\ next_task' = t
    BY <1>5 DEF AddLink
  <2>3. next'[t] = t /\ previous'[t] = t
    BY <2>2 DEF TypeOK
  <2>4. t # NULL
    BY PagesAssumption
  <2>5. IsRing(r, FirstTask)'
    <3>1. r # <<>> /\ r[1] = t /\ Len(r) = 1 /\ DOMAIN r = 1 .. 1
      <4>1. n + 1 = 1
        BY <2>1
      <4> QED
        BY <1>1, <4>1
    <3>2. ASSUME NEW i \in DOMAIN r
          PROVE  LET j == IF i = Len(r) THEN 1 ELSE i + 1
                 IN  next'[r[i]] = r[j] /\ previous'[r[j]] = r[i]
      BY <2>3, <3>1
    <3> QED
      BY <2>2, <2>4, <3>1, <3>2, <1>f, RingAfter
  <2> QED
    BY <1>1, <1>3, <1>4, <2>5, <1>r
<1>6. CASE next_task # NULL
  <2>1. n >= 1 /\ q[1] = next_task
    BY <1>n, <1>6, RingLinks
  <2>2. /\ \A i \in 1 .. n : i # n => next[q[i]] = q[i + 1] /\ previous[q[i + 1]] = q[i]
        /\ next[q[n]] = q[1] /\ previous[q[1]] = q[n]
    BY <1>n, <1>6, RingLinks
  <2>3. /\ next' = [next EXCEPT ![q[n]] = t, ![t] = q[1]]
        /\ previous' = [previous EXCEPT ![t] = q[n], ![q[1]] = t]
        /\ next_task' = next_task
    BY <1>6, <2>1, <2>2 DEF AddLink
  <2>4. \A i, j \in 1 .. n : i # j => q[i] # q[j]
    BY <1>1 DEF Distinct
  <2>5. q[1] \in Pages /\ q[n] \in Pages /\ q[1] # t /\ q[n] # t
    BY <1>1, <1>2, <2>1
  <2>6. /\ next \in [Pages -> Pages \union {NULL}]
        /\ previous \in [Pages -> Pages \union {NULL}]
    BY DEF TypeOK
  <2>7. /\ next'[t] = q[1] /\ next'[q[n]] = t
        /\ \A p \in Pages \ {t, q[n]} : next'[p] = next[p]
    BY <2>3, <2>5, <2>6
  <2>8. /\ previous'[t] = q[n] /\ previous'[q[1]] = t
        /\ \A p \in Pages \ {t, q[1]} : previous'[p] = previous[p]
    BY <2>3, <2>5, <2>6
  <2>9. ASSUME NEW i \in 1 .. n + 1
        PROVE  LET j == IF i = n + 1 THEN 1 ELSE i + 1
               IN  next'[r[i]] = r[j] /\ previous'[r[j]] = r[i]
    <3>1. CASE i = n + 1
      BY <1>1, <2>1, <2>7, <2>8, <3>1
    <3>2. CASE i = n
      <4>1. i # n + 1 /\ n \in 1 .. n
        BY <2>1, <3>2
      <4>2. r[i] = q[n] /\ r[i + 1] = t
        BY <1>1, <3>2, <4>1
      <4> QED
        BY <2>7, <2>8, <4>1, <4>2
    <3>3. CASE i \in 1 .. n - 1
      <4>1. /\ i \in 1 .. n /\ i + 1 \in 1 .. n /\ i # n /\ i + 1 # 1
            /\ n \in 1 .. n /\ 1 \in 1 .. n /\ i # n + 1
        BY <3>3
      <4>2. r[i] = q[i] /\ r[i + 1] = q[i + 1]
        BY <1>1, <4>1
      <4>3. q[i] \in Pages \ {t, q[n]} /\ q[i + 1] \in Pages \ {t, q[1]}
        BY <1>2, <2>4, <4>1
      <4>4. next'[q[i]] = q[i + 1] /\ previous'[q[i + 1]] = q[i]
        BY <2>2, <2>7, <2>8, <4>1, <4>3
      <4> QED
        BY <4>1, <4>2, <4>4
    <3> QED
      BY <3>1, <3>2, <3>3
  <2>10. r[1] = next_task /\ r # <<>>
    BY <1>1, <2>1
  <2>11. IsRing(r, FirstTask)'
    <3>1. ASSUME NEW i \in DOMAIN r
          PROVE  LET j == IF i = Len(r) THEN 1 ELSE i + 1
                 IN  next'[r[i]] = r[j] /\ previous'[r[j]] = r[i]
      BY <1>1, <2>9
    <3>2. q[1] = next_task' /\ q[1] # NULL /\ r[1] = q[1]
      BY <1>6, <2>1, <2>3, <2>10
    <3> QED
      BY <2>10, <3>1, <3>2, <1>f, RingAfter
  <2> QED
    BY <1>1, <1>3, <1>4, <2>11, <1>r
<1> QED
  BY <1>5, <1>6

\* scheduler_yield: the task that yields goes to the end.
LEMMA RotateRing ==
  ASSUME NEW q \in Seq(Pages), Distinct(q), IsRing(q, next_task), next_task # NULL,
         UNCHANGED links, pc' = "resumed"
  PROVE  \E r \in Seq(Pages) :
           /\ r = Append(Tail(q), q[1])
           /\ Distinct(r)
           /\ IsRing(r, FirstTask)'
           /\ Members(r) = Members(q)
           /\ r # <<>> /\ r[Len(r)] = next_task
<1>n. PICK n \in Nat : n = Len(q)
  OBVIOUS
<1>1. /\ n >= 1 /\ q[1] = next_task
      /\ \A i \in 1 .. n : q[i] \in Pages
      /\ next[q[n]] = q[1] /\ previous[q[1]] = q[n]
  BY <1>n, RingLinks
<1>2. \A i \in 1 .. n : i # n => next[q[i]] = q[i + 1] /\ previous[q[i + 1]] = q[i]
  BY <1>n, RingLinks
<1>s. Append(Tail(q), q[1]) \in Seq(Pages)
  BY <1>n, <1>1
<1>r. PICK r \in Seq(Pages) : r = Append(Tail(q), q[1])
  BY <1>s
<1>3. /\ Len(r) = n /\ DOMAIN r = 1 .. n /\ DOMAIN q = 1 .. n
      /\ r[n] = q[1]
      /\ \A i \in 1 .. n - 1 : r[i] = q[i + 1]
  BY <1>n, <1>1, <1>r
<1>4. \A i, j \in 1 .. n : q[i] = q[j] => i = j
  BY <1>3 DEF Distinct
<1>5. Distinct(r)
  <2> SUFFICES ASSUME NEW i \in 1 .. n, NEW j \in 1 .. n, r[i] = r[j]
               PROVE  i = j
    BY <1>3 DEF Distinct
  <2>1. CASE i = n /\ j = n
    BY <2>1
  <2>2. CASE i = n /\ j # n
    <3>1. 1 \in 1 .. n /\ j + 1 \in 1 .. n /\ j \in 1 .. n - 1 /\ 1 # j + 1
      BY <1>1, <2>2
    <3> QED
      BY <1>3, <1>4, <2>2, <3>1
  <2>3. CASE i # n /\ j = n
    <3>1. 1 \in 1 .. n /\ i + 1 \in 1 .. n /\ i \in 1 .. n - 1 /\ 1 # i + 1
      BY <1>1, <2>3
    <3> QED
      BY <1>3, <1>4, <2>3, <3>1
  <2>4. CASE i # n /\ j # n
    <3>1. i + 1 \in 1 .. n /\ j + 1 \in 1 .. n /\ i \in 1 .. n - 1 /\ j \in 1 .. n - 1
      BY <2>4
    <3>2. i + 1 = j + 1
      BY <1>3, <1>4, <3>1
    <3> QED
      BY <3>2
  <2> QED
    BY <2>1, <2>2, <2>3, <2>4
<1>6. Members(r) = Members(q)
  <2>1. ASSUME NEW i \in 1 .. n
        PROVE  \E j \in 1 .. n : r[i] = q[j]
    <3>1. CASE i = n
      BY <1>1, <1>3, <3>1
    <3>2. CASE i # n
      <4>1. i \in 1 .. n - 1 /\ i + 1 \in 1 .. n
        BY <3>2
      <4> QED
        BY <1>3, <4>1
    <3> QED
      BY <3>1, <3>2
  <2>2. ASSUME NEW j \in 1 .. n
        PROVE  \E i \in 1 .. n : r[i] = q[j]
    <3>1. CASE j = 1
      BY <1>1, <1>3, <3>1
    <3>2. CASE j # 1
      <4>1. j - 1 \in 1 .. n - 1 /\ j - 1 \in 1 .. n /\ j - 1 + 1 = j
        BY <3>2
      <4> QED
        BY <1>3, <4>1
    <3> QED
      BY <3>1, <3>2
  <2> QED
    <3>1. Members(r) = {r[i] : i \in 1 .. n} /\ Members(q) = {q[i] : i \in 1 .. n}
      BY <1>3 DEF Members
    <3>2. ASSUME NEW x \in Members(r)
          PROVE  x \in Members(q)
      <4>1. PICK i \in 1 .. n : x = r[i]
        BY <3>1
      <4> QED
        BY <2>1, <3>1, <4>1
    <3>3. ASSUME NEW x \in Members(q)
          PROVE  x \in Members(r)
      <4>1. PICK j \in 1 .. n : x = q[j]
        BY <3>1
      <4> QED
        BY <2>2, <3>1, <4>1
    <3> QED
      BY <3>2, <3>3
<1>7. r[1] = next[next_task]
  <2>1. CASE n = 1
    BY <1>1, <1>3, <2>1
  <2>2. CASE n # 1
    <3>1. 1 \in 1 .. n /\ 1 \in 1 .. n - 1
      BY <1>1, <2>2
    <3> QED
      BY <1>1, <1>2, <1>3, <2>2, <3>1
  <2> QED
    BY <2>1, <2>2
<1>8. FirstTask' = r[1]
  BY <1>7 DEF FirstTask, links
<1>9. ASSUME NEW i \in 1 .. n
      PROVE  LET j == IF i = n THEN 1 ELSE i + 1
             IN  next[r[i]] = r[j] /\ previous[r[j]] = r[i]
  <2>1. CASE n = 1
    BY <1>1, <1>3, <2>1
  <2>2. CASE n # 1 /\ i = n
    <3>1. 1 \in 1 .. n /\ 1 \in 1 .. n - 1 /\ 1 # n
      BY <1>1, <2>2
    <3> QED
      BY <1>2, <1>3, <2>2, <3>1
  <2>3. CASE n # 1 /\ i = n - 1
    <3>1. i \in 1 .. n - 1 /\ i # n /\ i + 1 = n
      BY <2>3
    <3> QED
      BY <1>1, <1>3, <3>1
  <2>4. CASE i # n /\ i # n - 1
    <3>1. /\ i \in 1 .. n - 1 /\ i + 1 \in 1 .. n - 1 /\ i + 1 \in 1 .. n
          /\ i + 1 # n /\ i # n
      BY <2>4
    <3> QED
      BY <1>2, <1>3, <3>1
  <2> QED
    BY <1>1, <2>1, <2>2, <2>3, <2>4
<1>10. IsRing(r, FirstTask)'
  <2>1. r # <<>> /\ r[1] # NULL
    <3>1. r # <<>> /\ r[1] \in Pages
      BY <1>1, <1>3
    <3> QED
      BY <3>1, PagesAssumption
  <2>2. ASSUME NEW i \in DOMAIN r
        PROVE  LET j == IF i = Len(r) THEN 1 ELSE i + 1
               IN  next'[r[i]] = r[j] /\ previous'[r[j]] = r[i]
    BY <1>3, <1>9 DEF links
  <2> QED
    BY <1>8, <2>1, <2>2, RingAfter
<1>11. r # <<>>
  BY <1>1, <1>3
<1> QED
  BY <1>1, <1>3, <1>5, <1>6, <1>10, <1>11, <1>r

\* _cleanup_task: the task that exits leaves, the others keep their order.
LEMMA UnlinkRing ==
  ASSUME TypeOK, NEW q \in Seq(Pages), Distinct(q), IsRing(q, next_task),
         next_task # NULL, esp = next_task, Unlink, pc' = "cleanup"
  PROVE  \E r \in Seq(Pages) :
           /\ r = Tail(q)
           /\ Distinct(r)
           /\ IsRing(r, FirstTask)'
           /\ Members(r) = Members(q) \ {next_task}
           /\ next_task' # NULL => r # <<>> /\ r[Len(r)] = next_task'
<1>n. PICK n \in Nat : n = Len(q)
  OBVIOUS
<1>1. /\ n >= 1 /\ q[1] = next_task
      /\ \A i \in 1 .. n : q[i] \in Pages
      /\ next[q[n]] = q[1] /\ previous[q[1]] = q[n]
  BY <1>n, RingLinks
<1>2. \A i \in 1 .. n : i # n => next[q[i]] = q[i + 1] /\ previous[q[i + 1]] = q[i]
  BY <1>n, RingLinks
<1>s. Tail(q) \in Seq(Pages)
  BY <1>n, <1>1
<1>r. PICK r \in Seq(Pages) : r = Tail(q)
  BY <1>s
<1>3. /\ Len(r) = n - 1 /\ DOMAIN r = 1 .. n - 1 /\ DOMAIN q = 1 .. n
      /\ \A i \in 1 .. n - 1 : r[i] = q[i + 1]
  BY <1>n, <1>1, <1>r
<1>4. \A i, j \in 1 .. n : q[i] = q[j] => i = j
  BY <1>3 DEF Distinct
<1>5. Distinct(r)
  <2> SUFFICES ASSUME NEW i \in 1 .. n - 1, NEW j \in 1 .. n - 1, r[i] = r[j]
               PROVE  i = j
    BY <1>3 DEF Distinct
  <2>1. i + 1 \in 1 .. n /\ j + 1 \in 1 .. n
    OBVIOUS
  <2>2. i + 1 = j + 1
    BY <1>3, <1>4, <2>1
  <2> QED
    BY <2>2
<1>6. Members(r) = Members(q) \ {next_task}
  <2>1. ASSUME NEW i \in 1 .. n - 1
        PROVE  r[i] # q[1] /\ \E j \in 1 .. n : r[i] = q[j]
    <3>1. i + 1 \in 1 .. n /\ 1 \in 1 .. n /\ i + 1 # 1
      BY <1>1
    <3> QED
      BY <1>3, <1>4, <3>1
  <2>2. ASSUME NEW j \in 1 .. n, q[j] # q[1]
        PROVE  \E i \in 1 .. n - 1 : r[i] = q[j]
    <3>1. j - 1 \in 1 .. n - 1 /\ j - 1 + 1 = j
      BY <2>2
    <3> QED
      BY <1>3, <3>1
  <2>3. Members(r) = {r[i] : i \in 1 .. n - 1} /\ Members(q) = {q[i] : i \in 1 .. n}
    BY <1>3 DEF Members
  <2>4. ASSUME NEW x \in Members(r)
        PROVE  x \in Members(q) \ {q[1]}
    <3>1. PICK i \in 1 .. n - 1 : x = r[i]
      BY <2>3
    <3> QED
      BY <2>1, <2>3, <3>1
  <2>5. ASSUME NEW x \in Members(q) \ {q[1]}
        PROVE  x \in Members(r)
    <3>1. PICK j \in 1 .. n : x = q[j]
      BY <2>3
    <3> QED
      BY <2>2, <2>3, <2>5, <3>1
  <2> QED
    BY <1>1, <2>4, <2>5
<1>7. CASE n = 1
  <2>1. next[esp] = esp
    BY <1>1, <1>7
  <2>2. next_task' = NULL
    BY <2>1 DEF Unlink
  <2>3. FirstTask' = NULL
    BY <2>2 DEF FirstTask
  <2>4. r = <<>>
    BY <1>3, <1>7
  <2>5. IsRing(r, FirstTask)'
    BY <2>3, <2>4 DEF IsRing
  <2> QED
    BY <1>5, <1>6, <1>r, <2>2, <2>5
<1>8. CASE n # 1
  <2>1. /\ 1 \in 1 .. n /\ 2 \in 1 .. n /\ n \in 1 .. n
        /\ n - 1 \in 1 .. n - 1 /\ 1 \in 1 .. n - 1
    BY <1>1, <1>8
  <2>2. next[q[1]] = q[2] /\ q[2] # q[1] /\ q[n] # q[1]
    BY <1>2, <1>4, <1>8, <2>1
  <2>3. /\ next' = [next EXCEPT ![q[n]] = q[2]]
        /\ previous' = [previous EXCEPT ![q[2]] = q[n]]
        /\ next_task' = q[n]
    BY <1>1, <2>2 DEF Unlink
  <2>4. /\ next \in [Pages -> Pages \union {NULL}]
        /\ previous \in [Pages -> Pages \union {NULL}]
    BY DEF TypeOK
  <2>5. q[n] \in Pages /\ q[2] \in Pages
    BY <1>1, <2>1
  <2>6. /\ next'[q[n]] = q[2] /\ previous'[q[2]] = q[n]
        /\ \A p \in Pages \ {q[n]} : next'[p] = next[p]
        /\ \A p \in Pages \ {q[2]} : previous'[p] = previous[p]
    BY <2>3, <2>4, <2>5
  <2>7. r[1] = q[2] /\ r[n - 1] = q[n]
    BY <1>3, <2>1
  <2>8. FirstTask' = r[1] /\ r[1] # NULL /\ q[n] # NULL
    BY <2>3, <2>5, <2>6, <2>7, PagesAssumption DEF FirstTask
  <2>9. ASSUME NEW i \in 1 .. n - 1
        PROVE  LET j == IF i = n - 1 THEN 1 ELSE i + 1
               IN  next'[r[i]] = r[j] /\ previous'[r[j]] = r[i]
    <3>1. CASE i = n - 1
      BY <2>6, <2>7, <3>1
    <3>2. CASE i # n - 1
      <4>1. /\ i + 1 \in 1 .. n - 1 /\ i + 1 \in 1 .. n /\ i + 1 + 1 \in 1 .. n
            /\ i + 1 # n /\ i + 1 + 1 # 2
        BY <3>2
      <4>2. r[i] = q[i + 1] /\ r[i + 1] = q[i + 1 + 1]
        BY <1>3, <4>1
      <4>3. next[q[i + 1]] = q[i + 1 + 1] /\ previous[q[i + 1 + 1]] = q[i + 1]
        BY <1>2, <4>1
      <4>4. q[i + 1] \in Pages \ {q[n]} /\ q[i + 1 + 1] \in Pages \ {q[2]}
        BY <1>1, <1>4, <2>1, <4>1
      <4> QED
        BY <2>6, <3>2, <4>2, <4>3, <4>4
    <3> QED
      BY <3>1, <3>2
  <2>10. IsRing(r, FirstTask)'
    <3>1. r # <<>>
      BY <1>3, <2>1
    <3>2. ASSUME NEW i \in DOMAIN r
          PROVE  LET j == IF i = Len(r) THEN 1 ELSE i + 1
                 IN  next'[r[i]] = r[j] /\ previous'[r[j]] = r[i]
      BY <1>3, <2>9
    <3> QED
      BY <2>8, <3>1, <3>2, RingAfter
  <2>11. r # <<>> /\ r[Len(r)] = next_task'
    BY <2>1, <1>3, <2>3, <2>7
  <2> QED
    BY <1>5, <1>6, <1>r, <2>10, <2>11
<1> QED
  BY <1>7, <1>8

-----------------------------------------------------------------------------
\* What a step may do to the queue of tasks, in RoundRobin's terms.
QueueStep(q, r) ==
  \/ r = q /\ Running' = Running
  \/ \E t \in Pages \ Members(q) : r = Append(q, t) /\ Running' = Running
  \/ Running = NULL /\ q # <<>> /\ r = q /\ Running' = q[1]
  \/ Running # NULL /\ r = Append(Tail(q), Running) /\ Running' = NULL
  \/ Running # NULL /\ r = Tail(q) /\ Running' = NULL

\* A page that is not on the ring may change.
LEMMA RingUntouched ==
  ASSUME NEW q \in Seq(Pages), IsRing(q, FirstTask),
         FirstTask' = FirstTask,
         \A p \in Members(q) : next'[p] = next[p] /\ previous'[p] = previous[p]
  PROVE  IsRing(q, FirstTask)'
<1>1. CASE FirstTask = NULL
  BY <1>1 DEF IsRing
<1>2. CASE FirstTask # NULL
  <2>1. PICK n \in Nat : n = Len(q) /\ DOMAIN q = 1 .. n
    OBVIOUS
  <2>2. PICK first : first = FirstTask
    OBVIOUS
  <2>3. /\ n >= 1 /\ q[1] = first
        /\ \A i \in 1 .. n :
             i # n => next[q[i]] = q[i + 1] /\ previous[q[i + 1]] = q[i]
        /\ next[q[n]] = q[1] /\ previous[q[1]] = q[n]
    BY <1>2, <2>1, <2>2, RingLinks
  <2>4. ASSUME NEW i \in DOMAIN q
        PROVE  LET j == IF i = Len(q) THEN 1 ELSE i + 1
               IN  next'[q[i]] = q[j] /\ previous'[q[j]] = q[i]
    <3>1. CASE i = n
      <4>1. 1 \in DOMAIN q
        BY <2>1, <2>3
      <4>2. q[i] \in Members(q) /\ q[1] \in Members(q)
        BY <4>1 DEF Members
      <4> QED
        BY <2>1, <2>3, <3>1, <4>2
    <3>2. CASE i # n
      <4>1. i + 1 \in DOMAIN q
        BY <2>1, <3>2
      <4>2. q[i] \in Members(q) /\ q[i + 1] \in Members(q)
        BY <4>1 DEF Members
      <4> QED
        BY <2>1, <2>3, <3>2, <4>2
    <3> QED
      BY <3>1, <3>2
  <2>5. q # <<>>
    BY <2>1, <2>3
  <2> QED
    BY <1>2, <2>2, <2>3, <2>4, <2>5, RingAfter
<1> QED
  BY <1>1, <1>2

\* The first task of a ring is one of its members, and so is the last.
LEMMA EndsAreMembers ==
  ASSUME NEW q \in Seq(Pages), NEW first, first # NULL, IsRing(q, first)
  PROVE  first \in Members(q) /\ q[Len(q)] \in Members(q) /\ q[1] = first
<1>1. q # <<>> /\ q[1] = first
  BY DEF IsRing
<1>2. 1 \in DOMAIN q /\ Len(q) \in DOMAIN q
  BY <1>1
<1> QED
  BY <1>1, <1>2 DEF Members

\* A task that runs is on the ring and in its own page.
LEMMA RunningTask ==
  ASSUME TypeOK, Control, pc = "task"
  PROVE  /\ esp = next_task /\ esp \in Pages /\ next_task # NULL
         /\ FirstTask = next_task /\ Running = next_task
  BY PagesAssumption DEF TypeOK, Control, FirstTask, Running

-----------------------------------------------------------------------------
\* TypeOK and Control hold initially ...
LEMMA ControlInit == Init => TypeOK /\ Control
  BY DEF Init, TypeOK, Control, Pool!PoolTypeOK

\* ... and every step preserves them.
LEMMA ControlStep ==
  ASSUME TypeOK, Control, [Next]_vars, pc = "task" => esp \in owned
  PROVE  TypeOK' /\ Control'
<1> USE PagesAssumption DEF TypeOK, Control, Pool!PoolTypeOK
<1>1. ASSUME NEW p \in Pages, AddAllocate(p)
      PROVE  TypeOK' /\ Control'
  BY <1>1 DEF AddAllocate, Pool!AllocatePage
<1>2. CASE AddOutOfMemory
  BY <1>2 DEF AddOutOfMemory, Pool!OutOfMemory, links
<1>3. CASE Run
  BY <1>3 DEF Run, poolVars, links
<1>4. CASE Yield
  BY <1>4 DEF Yield, poolVars, links
<1>5. CASE Exit
  <2>1. esp \in Pages /\ esp \in owned
    BY <1>5, RunningTask DEF Exit
  <2>2. /\ next_task' \in Pages \union {NULL}
        /\ next' \in [Pages -> Pages \union {NULL}]
        /\ previous' \in [Pages -> Pages \union {NULL}]
    BY <1>5, <2>1 DEF Exit, Unlink
  <2>3. UNCHANGED <<free, owned, halted, esp, task>> /\ current' = esp /\ pc' = "cleanup"
    BY <1>5 DEF Exit, poolVars
  <2> QED
    BY <1>5, <2>1, <2>2, <2>3 DEF Exit
<1>6. CASE AddLink
  BY <1>6 DEF AddLink, ReturnFromAdd, poolVars
<1>7. CASE RunReturns
  BY <1>7 DEF RunReturns, poolVars, links
<1>8. CASE Resume
  BY <1>8 DEF Resume, poolVars, links
<1>9. CASE Advance
  BY <1>9 DEF Advance, poolVars
<1>10. CASE LeaveStack
  BY <1>10 DEF LeaveStack, poolVars, links
<1>11. CASE Deallocate
  BY <1>11 DEF Deallocate, Pool!FreePage
<1>12. CASE UNCHANGED vars
  BY <1>12 DEF vars, poolVars, links
<1> QED
  BY <1>1, <1>2, <1>3, <1>4, <1>5, <1>6, <1>7, <1>8, <1>9, <1>10, <1>11, <1>12
  DEF Next, SchedulerAddProcess, KernelStep

-----------------------------------------------------------------------------
\* At first the ring is empty.
LEMMA RingInit ==
  ASSUME Init
  PROVE  TheRing(<<>>)
  BY DEF Init, TheRing, Distinct, IsRing, FirstTask, Members, Live, Behind

\* Each step keeps the ring a ring, and does to it what RoundRobin allows.
LEMMA RingStep ==
  ASSUME TypeOK, Control, TypeOK', Control', [Next]_vars,
         NEW q \in Seq(Pages), TheRing(q)
  PROVE  \E r \in Seq(Pages) : TheRing(r)' /\ QueueStep(q, r)
<1>1. /\ Distinct(q) /\ IsRing(q, FirstTask)
      /\ Members(q) = Live /\ Behind(q)
  BY DEF TheRing
<1>2. Distinct(q)' /\ Members(q)' = Members(q)
  BY <1>1 DEF Distinct, Members
<1>3. NULL \notin Pages
  BY PagesAssumption
\* The ring stays as it is.
<1>4. ASSUME FirstTask' = FirstTask, Live' = Live, Behind(q)',
             \A p \in Members(q) : next'[p] = next[p] /\ previous'[p] = previous[p]
      PROVE  TheRing(q)'
  BY <1>1, <1>2, <1>4, RingUntouched DEF TheRing
<1>5. ASSUME UNCHANGED <<links, owned, task, current>>, FirstTask' = FirstTask,
             pc' \in {"cleanup", "dealloc", "resumed"} =>
               pc \in {"cleanup", "dealloc", "resumed"}
      PROVE  TheRing(q)'
  <2>1. Behind(q)'
    BY <1>1, <1>5 DEF Behind, links
  <2> QED
    BY <1>4, <1>5, <2>1 DEF Live, links
<1>6. ASSUME NEW p \in Pages, AddAllocate(p)
      PROVE  TheRing(q)' /\ QueueStep(q, q)
  <2>1. p \notin owned /\ task = NULL /\ task' = p /\ owned' = owned \union {p}
    BY <1>6 DEF AddAllocate, Pool!AllocatePage, Control
  <2>2. Live' = Live
    BY <1>3, <1>6, <2>1 DEF Live, AddAllocate, TypeOK, Control
  <2>3. p \notin Members(q)
    BY <1>1, <2>1 DEF Live
  <2>4. FirstTask' = FirstTask
    BY <1>6 DEF AddAllocate, FirstTask
  <2>5. \A x \in Members(q) : next'[x] = next[x] /\ previous'[x] = previous[x]
    BY <1>6, <2>3 DEF AddAllocate, TypeOK, Members
  <2>6. Behind(q)'
    BY <1>6 DEF AddAllocate, Behind
  <2>7. Running' = Running
    BY <1>6 DEF AddAllocate, Running
  <2> QED
    BY <1>4, <2>2, <2>4, <2>5, <2>6, <2>7 DEF QueueStep
<1>7. CASE AddOutOfMemory
  <2>1. TheRing(q)'
    BY <1>5, <1>7 DEF AddOutOfMemory, Pool!OutOfMemory, FirstTask, links
  <2>2. Running' = Running
    BY <1>7 DEF AddOutOfMemory, Running
  <2> QED
    BY <2>1, <2>2 DEF QueueStep
<1>8. CASE Run \/ RunReturns
  <2>1. TheRing(q)'
    BY <1>5, <1>8 DEF Run, RunReturns, poolVars, FirstTask, links
  <2>2. Running' = Running
    BY <1>8 DEF Run, RunReturns, Running
  <2> QED
    BY <2>1, <2>2 DEF QueueStep
<1>9. CASE Resume
  <2>1. TheRing(q)'
    BY <1>5, <1>9 DEF Resume, poolVars, FirstTask, links
  <2>2. FirstTask = next_task /\ next_task # NULL
    BY <1>9 DEF Resume, FirstTask
  <2>3. q # <<>> /\ q[1] = next_task
    BY <1>1, <2>2 DEF IsRing
  <2>4. Running = NULL
    BY <1>9 DEF Resume, Running, Control
  <2>5. Running' = next_task
    BY <1>9, <2>2, PagesAssumption DEF Resume, Running, TypeOK
  <2> QED
    BY <2>1, <2>3, <2>4, <2>5 DEF QueueStep
<1>10. CASE Advance
  <2>1. FirstTask' = FirstTask
    BY <1>10 DEF Advance, FirstTask
  <2>2. TheRing(q)'
    BY <1>4, <1>10, <2>1 DEF Advance, poolVars, Live, Behind
  <2>3. Running' = Running
    BY <1>10 DEF Advance, Running
  <2> QED
    BY <2>2, <2>3 DEF QueueStep
<1>11. CASE LeaveStack
  <2>1. TheRing(q)'
    BY <1>5, <1>11 DEF LeaveStack, poolVars, FirstTask, links
  <2>2. Running' = Running
    BY <1>11 DEF LeaveStack, Running
  <2> QED
    BY <2>1, <2>2 DEF QueueStep
<1>12. CASE Deallocate
  <2>1. /\ current \in owned /\ owned' = owned \ {current} /\ current' = NULL
        /\ task = NULL /\ task' = NULL
    BY <1>12 DEF Deallocate, Pool!FreePage, Control
  <2>2. Live' = Live
    BY <1>3, <2>1 DEF Live, TypeOK, Pool!PoolTypeOK
  <2>3. current \notin Members(q)
    BY <1>1 DEF Live
  <2>4. /\ \A x \in Pages \ {current} : next'[x] = next[x]
        /\ previous' = previous /\ next_task' = next_task
    BY <1>12 DEF Deallocate, TypeOK
  <2>5. \A x \in Members(q) : x \in Pages
    BY DEF Members
  <2>6. next_task # NULL => next_task \in Members(q)
    <3> SUFFICES ASSUME next_task # NULL
                 PROVE  next_task \in Members(q)
      OBVIOUS
    <3>1. q # <<>> /\ q[Len(q)] = next_task
      BY <1>1, <1>12 DEF Deallocate, Behind
    <3>2. Len(q) \in DOMAIN q
      BY <3>1
    <3> QED
      BY <3>1, <3>2 DEF Members
  <2>7. FirstTask' = FirstTask
    BY <1>12, <2>3, <2>4, <2>5, <2>6 DEF Deallocate, FirstTask
  <2>8. Behind(q)'
    BY <1>1, <1>12, <2>4 DEF Deallocate, Behind
  <2>9. Running' = Running
    BY <1>12 DEF Deallocate, Running
  <2> QED
    BY <1>4, <2>2, <2>3, <2>4, <2>5, <2>7, <2>8, <2>9 DEF QueueStep
<1>13. CASE AddLink
  <2>1. PICK t : t = task
    OBVIOUS
  <2>2. t \in owned /\ t \in Pages /\ current = NULL /\ task' = NULL
    BY <1>13, <2>1 DEF AddLink, Control, TypeOK, Pool!PoolTypeOK
  <2>3. t \notin Members(q)
    BY <1>1, <2>1 DEF Live
  <2>4. FirstTask = next_task
    BY <1>13 DEF AddLink, FirstTask
  <2>5. PICK r : r = Append(q, t)
    OBVIOUS
  <2>6. /\ r \in Seq(Pages) /\ Distinct(r) /\ IsRing(r, FirstTask)'
        /\ Members(r) = Members(q) \union {t}
    BY <1>1, <1>13, <2>1, <2>2, <2>3, <2>4, <2>5, LinkTask
  <2>7. Live' = Live \union {t}
    BY <1>3, <1>13, <2>1, <2>2 DEF Live, AddLink, poolVars, TypeOK, Pool!PoolTypeOK
  <2>8. Behind(r)'
    BY <1>13 DEF AddLink, ReturnFromAdd, Behind
  <2>9. Running' = Running
    BY <1>13 DEF AddLink, ReturnFromAdd, Running
  <2>10. TheRing(r)'
    BY <1>1, <2>6, <2>7, <2>8 DEF TheRing, Distinct, Members
  <2> QED
    BY <2>2, <2>3, <2>5, <2>6, <2>9, <2>10 DEF QueueStep
<1>14. CASE Yield
  <2>1. esp = next_task /\ next_task # NULL /\ FirstTask = next_task /\ Running = next_task
    BY <1>14, RunningTask DEF Yield
  <2>2. UNCHANGED <<links, owned, task, current>> /\ pc' = "resumed"
    BY <1>14 DEF Yield, poolVars
  <2>3. q[1] = next_task
    BY <1>1, <2>1, EndsAreMembers
  <2>4. PICK r \in Seq(Pages) :
          /\ r = Append(Tail(q), q[1]) /\ Distinct(r) /\ IsRing(r, FirstTask)'
          /\ Members(r) = Members(q) /\ r # <<>> /\ r[Len(r)] = next_task
    BY <1>1, <2>1, <2>2, RotateRing
  <2>5. Behind(r)'
    BY <2>2, <2>4 DEF Behind, links
  <2>6. Live' = Live
    BY <2>2 DEF Live
  <2>7. TheRing(r)'
    BY <1>1, <2>4, <2>5, <2>6 DEF TheRing, Distinct, Members
  <2>8. Running' = NULL
    BY <1>14 DEF Yield, Running
  <2> QED
    BY <2>1, <2>3, <2>4, <2>7, <2>8 DEF QueueStep
<1>15. CASE Exit
  <2>1. esp = next_task /\ next_task # NULL /\ FirstTask = next_task /\ Running = next_task
    BY <1>15, RunningTask DEF Exit
  <2>2. Unlink /\ pc' = "cleanup" /\ UNCHANGED <<owned, task, esp>> /\ current' = esp
    BY <1>15 DEF Exit, poolVars
  <2>3. PICK r \in Seq(Pages) :
          /\ r = Tail(q) /\ Distinct(r) /\ IsRing(r, FirstTask)'
          /\ Members(r) = Members(q) \ {next_task}
          /\ next_task' # NULL => r # <<>> /\ r[Len(r)] = next_task'
    BY <1>1, <2>1, <2>2, UnlinkRing
  <2>4. Behind(r)'
    BY <2>3 DEF Behind
  <2>5. current = NULL
    BY <1>15 DEF Exit, Control
  <2>6. Live' = Live \ {next_task}
    BY <1>3, <2>1, <2>2, <2>5 DEF Live, TypeOK, Pool!PoolTypeOK
  <2>7. TheRing(r)'
    BY <1>1, <2>3, <2>4, <2>6 DEF TheRing, Distinct, Members
  <2>8. Running' = NULL
    BY <2>2 DEF Running
  <2> QED
    BY <2>1, <2>3, <2>7, <2>8 DEF QueueStep
<1>16. CASE UNCHANGED vars
  <2>1. TheRing(q)'
    BY <1>5, <1>16 DEF vars, poolVars, FirstTask, links
  <2>2. Running' = Running
    BY <1>16 DEF vars, Running
  <2> QED
    BY <2>1, <2>2 DEF QueueStep
<1> QED
  BY <1>6, <1>7, <1>8, <1>9, <1>10, <1>11, <1>12, <1>13, <1>14, <1>15, <1>16
  DEF Next, SchedulerAddProcess, KernelStep

-----------------------------------------------------------------------------
\* The inductive step.
LEMMA InvariantStep ==
  ASSUME IInv, [Next]_vars, NEW q \in Seq(Pages), TheRing(q)
  PROVE  /\ TypeOK' /\ Control'
         /\ \E r \in Seq(Pages) : TheRing(r)' /\ QueueStep(q, r)
<1>1. pc = "task" => esp \in owned
  <2> SUFFICES ASSUME pc = "task"
               PROVE  esp \in owned
    OBVIOUS
  <2>1. esp = next_task /\ next_task # NULL /\ FirstTask = next_task
    BY RunningTask DEF IInv
  <2>2. next_task \in Members(q)
    BY <2>1, EndsAreMembers DEF TheRing
  <2> QED
    BY <2>1, <2>2 DEF TheRing, Live
<1>2. TypeOK' /\ Control'
  BY <1>1, ControlStep DEF IInv
<1> QED
  BY <1>2, RingStep DEF IInv

\* IInv is an invariant: what the theorems below rest on.
THEOREM Invariance == Spec => []IInv
<1>1. Init => IInv
  <2> SUFFICES ASSUME Init
               PROVE  IInv
    OBVIOUS
  <2>1. <<>> \in Seq(Pages)
    OBVIOUS
  <2> QED
    BY <2>1, ControlInit, RingInit DEF IInv
<1>2. IInv /\ [Next]_vars => IInv'
  <2> SUFFICES ASSUME IInv, [Next]_vars
               PROVE  IInv'
    OBVIOUS
  <2>1. PICK q \in Seq(Pages) : TheRing(q)
    BY DEF IInv
  <2> QED
    BY <2>1, InvariantStep DEF IInv
<1> QED
  BY <1>1, <1>2, PTL DEF Spec

\* The scheduler's state has its types.
THEOREM SchedulerTypeCorrect == Spec => []TypeOK
<1>1. IInv => TypeOK
  BY DEF IInv
<1> QED
  BY <1>1, Invariance, PTL

\* For any number of tasks: next and previous form one ring of exactly the
\* live tasks, whatever is added, yields or exits.
THEOREM RingIsIntact == Spec => []RingHoldsLiveTasks
<1>1. IInv => RingHoldsLiveTasks
  <2> SUFFICES ASSUME IInv
               PROVE  RingHoldsLiveTasks
    OBVIOUS
  <2>1. PICK q \in Seq(Pages) : TheRing(q)
    BY DEF IInv
  <2>2. q \in TaskOrders
    BY <2>1, OrdersAre DEF TheRing
  <2> QED
    BY <2>1, <2>2 DEF RingHoldsLiveTasks, TheRing, Members
<1> QED
  BY <1>1, Invariance, PTL

\* The processor is never on the stack of a page that has been or is being
\* freed, and the assertion of _push_to_task_stack never fires.
THEOREM StacksAreOwned == Spec => []NoUseAfterFree
<1>1. IInv => NoUseAfterFree
  <2> SUFFICES ASSUME IInv
               PROVE  NoUseAfterFree
    OBVIOUS
  <2>1. PICK q \in Seq(Pages) : TheRing(q)
    BY DEF IInv
  <2>2. pc \in {"task", "add", "panic"} /\ next_task # NULL => next_task \in Live
    <3> SUFFICES ASSUME pc \in {"task", "add", "panic"}, next_task # NULL
                 PROVE  next_task \in Live
      OBVIOUS
    <3>1. FirstTask = next_task
      BY DEF FirstTask
    <3> QED
      BY <2>1, <3>1, EndsAreMembers DEF TheRing
  <2>3. Live \subseteq owned /\ task \notin Live
    BY DEF Live
  <2>4. esp # KernelStack => esp \in owned
    <3>1. esp = NULL => FALSE
      BY PagesAssumption DEF IInv, TypeOK
    <3> QED
      BY <2>2, <2>3, <3>1 DEF IInv, TypeOK, Control
  <2>5. pc = "dealloc" => esp # current
    BY PagesAssumption DEF IInv, TypeOK, Control
  <2>6. pc = "add" => task # esp
    <3> SUFFICES ASSUME pc = "add", task = esp
                 PROVE  FALSE
      OBVIOUS
    <3>1. esp \in Pages /\ esp = next_task /\ esp # NULL
      BY PagesAssumption DEF IInv, TypeOK, Control, Pool!PoolTypeOK
    <3> QED
      BY <2>2, <2>3, <3>1
  <2>7. pc = "task" => esp = next_task
    BY DEF IInv, Control
  <2> QED
    BY <2>4, <2>5, <2>6, <2>7 DEF NoUseAfterFree
<1> QED
  BY <1>1, Invariance, PTL

-----------------------------------------------------------------------------
\* TaskQueue, which chooses among all orders, is the ring.
LEMMA TaskQueueIs ==
  ASSUME NEW q \in Seq(Pages), TheRing(q)
  PROVE  TaskQueue = q
<1>1. q \in TaskOrders /\ IsRing(q, FirstTask)
  BY OrdersAre DEF TheRing
<1>2. TaskQueue \in TaskOrders /\ IsRing(TaskQueue, FirstTask)
  BY <1>1 DEF TaskQueue
<1>3. PICK first : first = FirstTask
  OBVIOUS
<1> QED
  BY <1>1, <1>2, <1>3, OneRing

RingView == \A q \in Seq(Pages) : TheRing(q) => TaskQueue = q

\* ... in every state, so that PTL can carry it along a behaviour.
LEMMA RingViewHolds == RingView
  BY TaskQueueIs DEF RingView

\* For any number of tasks the scheduler is a first-in, first-out queue: a
\* step of it is a step of RoundRobin or leaves the queue and the running
\* task alone.
THEOREM SchedulerImplementsRoundRobin == Spec => ImplementsRoundRobin
<1>1. Init => Queue!QueueInit
  <2> SUFFICES ASSUME Init
               PROVE  Queue!QueueInit
    OBVIOUS
  <2>1. <<>> \in Seq(Pages) /\ TheRing(<<>>)
    BY RingInit
  <2>2. TaskQueue = <<>>
    BY <2>1, TaskQueueIs
  <2>3. Running = NULL
    BY DEF Init, Running
  <2> QED
    BY <2>2, <2>3 DEF Queue!QueueInit
<1>2. IInv /\ RingView' /\ [Next]_vars => [Queue!QueueNext]_(Queue!roundRobinVars)
  <2> SUFFICES ASSUME IInv, RingView', [Next]_vars
               PROVE  [Queue!QueueNext]_(Queue!roundRobinVars)
    OBVIOUS
  <2>1. PICK q \in Seq(Pages) : TheRing(q)
    BY DEF IInv
  <2>2. PICK r \in Seq(Pages) : TheRing(r)' /\ QueueStep(q, r)
    BY <2>1, InvariantStep
  <2>3. TaskQueue = q
    BY <2>1, TaskQueueIs
  <2>4. TaskQueue' = r
    BY <2>2 DEF RingView
  <2>5. CASE r = q /\ Running' = Running
    BY <2>3, <2>4, <2>5 DEF Queue!roundRobinVars
  <2>6. ASSUME NEW t \in Pages \ Members(q), r = Append(q, t), Running' = Running
        PROVE  Queue!QueueNext
    <3>1. t \in Pages \ Queue!Queued
      BY <2>3, <2>6 DEF Queue!Queued, Members
    <3> QED
      BY <2>3, <2>4, <2>6, <3>1 DEF Queue!QueueNext, Queue!Add
  <2>7. CASE Running = NULL /\ q # <<>> /\ r = q /\ Running' = q[1]
    BY <2>3, <2>4, <2>7 DEF Queue!QueueNext, Queue!Dispatch
  <2>8. CASE Running # NULL /\ r = Append(Tail(q), Running) /\ Running' = NULL
    BY <2>3, <2>4, <2>8 DEF Queue!QueueNext, Queue!YieldProcessor
  <2>9. CASE Running # NULL /\ r = Tail(q) /\ Running' = NULL
    BY <2>3, <2>4, <2>9 DEF Queue!QueueNext, Queue!Finish
  <2> QED
    BY <2>2, <2>5, <2>6, <2>7, <2>8, <2>9 DEF QueueStep
<1> QED
  BY <1>1, <1>2, RingViewHolds, Invariance, PTL DEF Spec, ImplementsRoundRobin, Queue!QueueSpec
=============================================================================
