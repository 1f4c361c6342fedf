------------------------- MODULE ContextSwitchProofs -------------------------
(***************************************************************************)
(* What module ContextSwitch claims of src/scheduler-helper.s, proved for  *)
(* pages of any size and any number of tasks.                              *)
(***************************************************************************)
EXTENDS ContextSwitch, SequenceTheorems, FiniteSetTheorems, TLAPS

Words    == Int \union Labels
Contexts == TaskPages \union {Kernel}
Top(p)   == p + PageWords - 1
Machines == [reg : [Registers -> Words], mem : [Addresses -> Words]]
Links    == TaskPages \union {0}

-----------------------------------------------------------------------------
(***************************************************************************)
(* The inductive invariant                                                 *)
(***************************************************************************)
SwitchTypes ==
  /\ free \in SUBSET TaskPages /\ owned \in SUBSET TaskPages
  /\ free \intersect owned = {}
  /\ reg \in [Registers -> Words]
  /\ mem \in [Addresses -> Words]
  /\ task \in Links /\ current \in Links
  /\ locals \in [TaskPages -> Seq(Int)]
  /\ \A p \in TaskPages : Len(locals[p]) <= Locals
  /\ called \in [Contexts -> [Registers -> Words] \union {<<>>}]

\* The tasks that are linked: nothing else is resumed.
Live == owned \ {task, current}

RingIsLive ==
  /\ next_task \in Live \union {0}
  /\ \A p \in TaskPages : mem[p + NextField] \in Links /\ mem[p + PreviousField] \in Links
  /\ \A p \in Live :
       /\ mem[p + NextField] \in Live /\ mem[mem[p + NextField] + PreviousField] = p
       /\ mem[p + PreviousField] \in Live /\ mem[mem[p + PreviousField] + NextField] = p

\* A task's own code runs, or scheduler_add_process called by it.
TaskRuns ==
  /\ next_task \in Live
  /\ reg["ESP"] = Top(next_task) - Len(locals[next_task])

\* Where the stack pointer is, and what the word above it will be taken for.
Control ==
  /\ pc \in {"caller", "run", "task", "add", "cleanup", "dealloc", "resumed", "panic"}
  /\ pc \in {"caller", "run"} => reg["ESP"] = Top(Kernel)
  /\ pc = "task" => TaskRuns
  /\ IF pc = "add" THEN task \in owned /\ (reg["ESP"] = Top(Kernel) \/ TaskRuns)
                   ELSE task = 0
  /\ IF pc \in {"cleanup", "dealloc"} THEN current \in owned ELSE current = 0
  /\ pc = "cleanup" =>
       /\ reg["ESP"] = Top(current) - 2
       /\ mem[Top(current) - 1] = current /\ mem[Top(current)] = Kernel
  /\ pc = "dealloc" =>
       /\ reg["ESP"] = Top(Kernel) - 7
       /\ mem[Top(Kernel) - 6] = current
       /\ \A r \in CalleeSaved \ {"ESP"} : reg[r] = called[Kernel][r]
  /\ pc = "resumed" => reg["ESP"] = Top(Kernel) - 2

\* Context p's struct task holds the registers it called a switch with, but
\* for the stack pointer, which has moved on since.
Saved(p, sp) ==
  /\ called[p] \in [Registers -> Words]
  /\ mem[p + RegisterField["ESP"]] = sp
  /\ \A r \in Registers \ {"ESP"} : mem[p + RegisterField[r]] = called[p][r]

InTaskCode  == pc \in {"task", "add"} /\ reg["ESP"] # Top(Kernel)

KernelWaits ==
  pc \in {"cleanup", "dealloc"} \/ InTaskCode =>
    /\ Saved(Kernel, Top(Kernel) - 4)
    /\ called[Kernel]["ESP"] = Top(Kernel) - 2
    /\ mem[Top(Kernel) - 3] = InRun

\* A task that waits has been added and never resumed, or it has yielded.
Fresh(p) ==
  /\ locals[p] = <<>>
  /\ mem[p + RegisterField["ESP"]] = Top(p) - 2
  /\ mem[Top(p) - 1] = Code

Yielded(p) ==
  LET sp == Top(p) - Len(locals[p])
  IN  /\ Saved(p, sp - 7)
      /\ called[p]["ESP"] = sp
      /\ mem[sp - 6] = InYield
      /\ mem[sp - 1] = InTask

Waits(p) == IF called[p] = <<>> THEN Fresh(p) ELSE Yielded(p)

TasksWait ==
  pc # "panic" =>
    \A p \in owned \ {current} : ~(InTaskCode /\ p = next_task) => Waits(p)

SwitchInv ==
  /\ SwitchTypes
  /\ RingIsLive
  /\ Control
  /\ StacksKept
  /\ KernelWaits
  /\ TasksWait

-----------------------------------------------------------------------------
(***************************************************************************)
(* Where things are in memory                                              *)
(***************************************************************************)

\* The registers and their fields in struct task
LEMMA RegistersAre ==
  /\ Registers = {"EDI", "ESI", "EBP", "ESP", "EBX", "EDX", "ECX", "EAX"}
  /\ RegisterField["EDI"] = 3 /\ RegisterField["ESI"] = 4 /\ RegisterField["EBP"] = 5
  /\ RegisterField["ESP"] = 6 /\ RegisterField["EBX"] = 7 /\ RegisterField["EDX"] = 8
  /\ RegisterField["ECX"] = 9 /\ RegisterField["EAX"] = 10
  BY DEF Registers, RegisterField

\* All of them lie behind the links and before next_task.
LEMMA FieldsAre ==
  \A r \in Registers : RegisterField[r] \in 3 .. 10
  BY RegistersAre

\* Each has a word of its own.
LEMMA FieldsApart ==
  \A r, s \in Registers : RegisterField[r] = RegisterField[s] => r = s
  BY RegistersAre

\* A page holds more than a struct task and a switch's seven words.
LEMMA Sizes ==
  /\ NumTasks \in Nat /\ Locals \in Nat /\ PageWords \in Nat
  /\ PageWords >= 20 /\ PageWords >= 19 + Locals
  BY PageWordsAssumption DEF TaskWords

\* Pages are numbered, the kernel's last.
LEMMA PagesAre ==
  \A p \in Contexts : \E k \in 1 .. NumTasks + 1 : p = k * PageWords
  BY Sizes DEF Contexts, TaskPages, Kernel

\* Pages do not overlap, and lie in memory.
LEMMA PagesApart ==
  /\ Contexts \subseteq Nat /\ Kernel \in Nat /\ Kernel \notin TaskPages
  /\ \A p \in Contexts : PageWords <= p /\ p <= Kernel
  /\ \A p, q \in Contexts : p = q \/ p + PageWords <= q \/ q + PageWords <= p
<1>1. \A k, l \in Nat : k < l => k * PageWords + PageWords <= l * PageWords
  <2> SUFFICES ASSUME NEW k \in Nat, NEW l \in Nat, k < l
               PROVE  k * PageWords + PageWords <= l * PageWords
    OBVIOUS
  <2>1. PICK d \in Nat : l = k + 1 + d
    <3>1. l - k - 1 \in Nat /\ l = k + 1 + (l - k - 1)
      OBVIOUS
    <3> QED  BY <3>1
  <2>2. l * PageWords = k * PageWords + PageWords + d * PageWords
    BY <2>1, Sizes
  <2>3. d * PageWords \in Nat /\ k * PageWords \in Nat
    BY Sizes
  <2> QED  BY <2>2, <2>3, Sizes
<1>2. \A k \in Nat : k * PageWords \in Nat
  BY Sizes
<1>3. \A p \in Contexts : \E k \in 1 .. NumTasks + 1 : p = k * PageWords
  BY PagesAre
<1>4. \A p, q \in Contexts : p = q \/ p + PageWords <= q \/ q + PageWords <= p
  <2> SUFFICES ASSUME NEW p \in Contexts, NEW q \in Contexts
               PROVE  p = q \/ p + PageWords <= q \/ q + PageWords <= p
    OBVIOUS
  <2>1. PICK k \in 1 .. NumTasks + 1 : p = k * PageWords
    BY <1>3
  <2>2. PICK l \in 1 .. NumTasks + 1 : q = l * PageWords
    BY <1>3
  <2>3. k < l \/ l < k \/ k = l
    BY Sizes
  <2> QED  BY <1>1, <2>1, <2>2, <2>3, Sizes
<1>5. \A p \in Contexts : p \in Nat /\ PageWords <= p /\ p <= Kernel
  <2> SUFFICES ASSUME NEW p \in Contexts
               PROVE  p \in Nat /\ PageWords <= p /\ p <= Kernel
    OBVIOUS
  <2>1. PICK k \in 1 .. NumTasks + 1 : p = k * PageWords
    BY <1>3
  <2>2. k \in Nat /\ p \in Nat
    BY <1>2, <2>1
  <2>3. k = NumTasks + 1 \/ k * PageWords + PageWords <= Kernel
    BY <1>1, <2>2, Sizes DEF Kernel
  <2>4. k = 1 \/ 1 * PageWords + PageWords <= k * PageWords
    BY <1>1, <2>2, Sizes
  <2>5. Kernel \in Nat
    BY <1>2, Sizes DEF Kernel
  <2> QED  BY <2>1, <2>2, <2>3, <2>4, <2>5, Sizes DEF Kernel
<1>6. Kernel \notin TaskPages
  <2> SUFFICES ASSUME NEW k \in 1 .. NumTasks
               PROVE  Kernel # k * PageWords
    BY DEF TaskPages
  <2>1. k * PageWords + PageWords <= Kernel
    BY <1>1, Sizes DEF Kernel
  <2>2. k * PageWords \in Nat
    BY <1>2, Sizes
  <2> QED  BY <2>1, <2>2, Sizes
<1>7. Kernel \in Contexts
  BY DEF Contexts
<1> QED  BY <1>4, <1>5, <1>6, <1>7

\* The words of a page are in memory.
LEMMA WordsOfPages ==
  ASSUME NEW p \in Contexts, NEW i \in 0 .. PageWords - 1
  PROVE  p + i \in Addresses
  BY PagesApart, Sizes DEF Addresses

\* Addresses are naturals.
LEMMA AddressesAre == Addresses \subseteq Nat
  BY PagesApart, Sizes DEF Addresses

\* The stack pointer rounded down is the page it is in.
LEMMA PageOfWord ==
  ASSUME NEW p \in Contexts, NEW i \in 0 .. PageWords - 1
  PROVE  PageOf(p + i) = p
<1>1. PICK k \in 1 .. NumTasks + 1 : p = k * PageWords
  BY PagesAre
<1>2. (k * PageWords + i) % PageWords = i
  BY Sizes
<1> QED  BY <1>1, <1>2, PagesApart, Sizes DEF PageOf

-----------------------------------------------------------------------------
(***************************************************************************)
(* What the instructions do to a machine                                   *)
(***************************************************************************)
\* One move to a register
LEMMA MovRegIs ==
  ASSUME NEW m \in Machines, NEW r \in Registers, NEW w \in Words
  PROVE  /\ MovReg(m, r, w) \in Machines
         /\ MovReg(m, r, w).mem = m.mem
         /\ MovReg(m, r, w).reg[r] = w
         /\ \A s \in Registers : s # r => MovReg(m, r, w).reg[s] = m.reg[s]
  BY DEF MovReg, Machines

\* ... and one to memory
LEMMA MovMemIs ==
  ASSUME NEW m \in Machines, NEW a \in Addresses, NEW w \in Words
  PROVE  /\ MovMem(m, a, w) \in Machines
         /\ MovMem(m, a, w).reg = m.reg
         /\ MovMem(m, a, w).mem[a] = w
         /\ \A b \in Addresses : b # a => MovMem(m, a, w).mem[b] = m.mem[b]
  BY DEF MovMem, Machines

\* The stack pointer moves alone.
LEMMA AddEspIs ==
  ASSUME NEW m \in Machines, NEW n \in Int, m.reg["ESP"] \in Int
  PROVE  /\ AddEsp(m, n) \in Machines
         /\ AddEsp(m, n).mem = m.mem
         /\ AddEsp(m, n).reg["ESP"] = m.reg["ESP"] + n
         /\ \A s \in Registers : s # "ESP" => AddEsp(m, n).reg[s] = m.reg[s]
<1>1. "ESP" \in Registers
  BY RegistersAre
<1> QED  BY <1>1 DEF AddEsp, Machines, Words

\* PUSH writes one word, below the stack pointer.
LEMMA PushIs ==
  ASSUME NEW m \in Machines, NEW sp \in Int, m.reg["ESP"] = sp, sp - 1 \in Addresses,
         NEW w \in Words
  PROVE  /\ Push(m, w) \in Machines
         /\ Push(m, w).reg["ESP"] = sp - 1
         /\ \A s \in Registers : s # "ESP" => Push(m, w).reg[s] = m.reg[s]
         /\ Push(m, w).mem[sp - 1] = w
         /\ \A b \in Addresses : b # sp - 1 => Push(m, w).mem[b] = m.mem[b]
<1>1. PICK n : n = AddEsp(m, -1)
  OBVIOUS
<1>2. /\ n \in Machines /\ n.mem = m.mem /\ n.reg["ESP"] = sp - 1
      /\ \A s \in Registers : s # "ESP" => n.reg[s] = m.reg[s]
  BY <1>1, AddEspIs
<1>3. Push(m, w) = MovMem(n, sp - 1, w)
  BY <1>1 DEF Push
<1> QED  BY <1>2, <1>3, MovMemIs

\* POP reads one word into a register other than the stack pointer.
LEMMA PopIs ==
  ASSUME NEW m \in Machines, NEW sp \in Addresses, m.reg["ESP"] = sp,
         NEW r \in Registers \ {"ESP"}
  PROVE  /\ Pop(m, r) \in Machines
         /\ Pop(m, r).mem = m.mem
         /\ Pop(m, r).reg["ESP"] = sp + 1
         /\ Pop(m, r).reg[r] = m.mem[sp]
         /\ \A s \in Registers : s \notin {"ESP", r} => Pop(m, r).reg[s] = m.reg[s]
<1>1. m.mem[sp] \in Words /\ sp \in Int
  BY AddressesAre DEF Machines
<1>2. PICK n : n = MovReg(m, r, m.mem[sp])
  OBVIOUS
<1>3. /\ n \in Machines /\ n.mem = m.mem /\ n.reg[r] = m.mem[sp]
      /\ \A s \in Registers : s # r => n.reg[s] = m.reg[s]
  BY <1>1, <1>2, MovRegIs
<1>4. n.reg["ESP"] = sp
  BY <1>3, RegistersAre
<1>5. Pop(m, r) = AddEsp(n, 1)
  BY <1>1, <1>2 DEF Pop, Word
<1> QED  BY <1>1, <1>3, <1>4, <1>5, AddEspIs

\* One register is stored in the struct task that base points to.
LEMMA SaveIs ==
  ASSUME NEW m \in Machines, NEW base \in Registers, NEW p \in Contexts, m.reg[base] = p,
         NEW r \in Registers
  PROVE  /\ Save(m, base, r) \in Machines
         /\ Save(m, base, r).reg = m.reg
         /\ Save(m, base, r).mem[p + RegisterField[r]] = m.reg[r]
         /\ \A b \in Addresses :
              b # p + RegisterField[r] => Save(m, base, r).mem[b] = m.mem[b]
<1>1. p + RegisterField[r] \in Addresses
  BY WordsOfPages, FieldsAre, Sizes
<1>2. m.reg[r] \in Words
  BY DEF Machines
<1>3. Save(m, base, r) = MovMem(m, p + RegisterField[r], m.reg[r])
  BY DEF Save
<1> QED  BY <1>1, <1>2, <1>3, MovMemIs

\* One register is loaded from the struct task that base points to.
LEMMA LoadIs ==
  ASSUME NEW m \in Machines, NEW base \in Registers, NEW p \in Contexts, m.reg[base] = p,
         NEW r \in Registers
  PROVE  /\ Load(m, base, r) \in Machines
         /\ Load(m, base, r).mem = m.mem
         /\ Load(m, base, r).reg[r] = m.mem[p + RegisterField[r]]
         /\ \A s \in Registers : s # r => Load(m, base, r).reg[s] = m.reg[s]
<1>1. p + RegisterField[r] \in Addresses
  BY WordsOfPages, FieldsAre, Sizes
<1>2. m.mem[p + RegisterField[r]] \in Words
  BY <1>1 DEF Machines
<1>3. Load(m, base, r) = MovReg(m, r, m.mem[p + RegisterField[r]])
  BY DEF Load
<1> QED  BY <1>2, <1>3, MovRegIs

\* The call and the return of _get_current_task leave only EAX changed, and the
\* word below the stack.
LEMMA GetCurrentTaskIs ==
  ASSUME NEW m \in Machines, NEW p \in Contexts, NEW i \in 1 .. PageWords,
         m.reg["ESP"] = p + i, NEW return \in Words
  PROVE  /\ GetCurrentTask(m, return) \in Machines
         /\ GetCurrentTask(m, return).reg["ESP"] = p + i
         /\ GetCurrentTask(m, return).reg["EAX"] = p
         /\ \A s \in Registers : s \notin {"ESP", "EAX"} =>
               GetCurrentTask(m, return).reg[s] = m.reg[s]
         /\ \A b \in Addresses :
              b # p + i - 1 => GetCurrentTask(m, return).mem[b] = m.mem[b]
<1>1. p \in Nat /\ p \in Words
  BY PagesApart DEF Words
<1>2. p + i - 1 \in Addresses /\ PageOf(p + i - 1) = p
  <2>1. i - 1 \in 0 .. PageWords - 1 /\ p + (i - 1) = p + i - 1
    BY <1>1, Sizes
  <2> QED  BY <2>1, WordsOfPages, PageOfWord
<1>3. PICK m1 : m1 = Push(m, return)
  OBVIOUS
<1>4. /\ m1 \in Machines /\ m1.reg["ESP"] = p + i - 1
      /\ \A s \in Registers : s # "ESP" => m1.reg[s] = m.reg[s]
      /\ \A b \in Addresses : b # p + i - 1 => m1.mem[b] = m.mem[b]
  BY <1>1, <1>2, <1>3, PushIs
<1>5. PICK m2 : m2 = MovReg(m1, "EAX", p)
  OBVIOUS
<1>6. /\ m2 \in Machines /\ m2.mem = m1.mem /\ m2.reg["EAX"] = p
      /\ \A s \in Registers : s # "EAX" => m2.reg[s] = m1.reg[s]
  <2>1. "EAX" \in Registers
    BY RegistersAre
  <2> QED  BY <2>1, <1>1, <1>4, <1>5, MovRegIs
<1>7. m2.reg["ESP"] = p + i - 1
  BY <1>4, <1>6, RegistersAre
<1>8. GetCurrentTask(m, return) = AddEsp(m2, 1)
  BY <1>2, <1>3, <1>4, <1>5 DEF GetCurrentTask
<1>9. PICK m3 : m3 = AddEsp(m2, 1)
  OBVIOUS
<1>10. p + i - 1 \in Int /\ p + i - 1 + 1 = p + i
  BY <1>1
<1>11. /\ m3 \in Machines /\ m3.mem = m2.mem /\ m3.reg["ESP"] = p + i
       /\ \A s \in Registers : s # "ESP" => m3.reg[s] = m2.reg[s]
  BY <1>6, <1>7, <1>9, <1>10, AddEspIs
<1>12. m3.reg["EAX"] = p
  BY <1>6, <1>11, RegistersAre
<1> QED  BY <1>4, <1>6, <1>8, <1>9, <1>11, <1>12

\* n is m after the registers S have been saved to p's struct task.
SavedTo(n, m, p, S) ==
  /\ n \in Machines /\ n.reg = m.reg
  /\ \A r \in S : n.mem[p + RegisterField[r]] = m.reg[r]
  /\ \A b \in Addresses :
       (\A r \in S : b # p + RegisterField[r]) => n.mem[b] = m.mem[b]

\* n is m after the registers S have been loaded from p's struct task.
LoadedFrom(n, m, p, S) ==
  /\ n \in Machines /\ n.mem = m.mem
  /\ \A r \in S : n.reg[r] = m.mem[p + RegisterField[r]]
  /\ \A r \in Registers \ S : n.reg[r] = m.reg[r]

\* One more register is stored.
LEMMA SaveOneMore ==
  ASSUME NEW m \in Machines, NEW n, NEW base \in Registers, NEW p \in Contexts,
         m.reg[base] = p, NEW S \in SUBSET Registers, SavedTo(n, m, p, S),
         NEW r \in Registers, NEW o, o = Save(n, base, r)
  PROVE  SavedTo(o, m, p, S \union {r})
<1>1. n \in Machines /\ n.reg[base] = p
  BY DEF SavedTo
<1>2. /\ o \in Machines /\ o.reg = n.reg
      /\ o.mem[p + RegisterField[r]] = n.reg[r]
      /\ \A b \in Addresses : b # p + RegisterField[r] => o.mem[b] = n.mem[b]
  BY <1>1, SaveIs
<1>3. \A q \in S : o.mem[p + RegisterField[q]] = m.reg[q]
  <2> SUFFICES ASSUME NEW q \in S
               PROVE  o.mem[p + RegisterField[q]] = m.reg[q]
    OBVIOUS
  <2>1. p + RegisterField[q] \in Addresses
    BY WordsOfPages, FieldsAre, Sizes
  <2>2. q = r \/ p + RegisterField[q] # p + RegisterField[r]
    BY FieldsAre, FieldsApart, PagesApart
  <2> QED  BY <1>2, <2>1, <2>2 DEF SavedTo
<1> QED  BY <1>2, <1>3 DEF SavedTo

\* One more register is loaded.
LEMMA LoadOneMore ==
  ASSUME NEW m \in Machines, NEW n, NEW base \in Registers, NEW p \in Contexts,
         m.reg[base] = p, NEW S \in SUBSET Registers, base \notin S,
         LoadedFrom(n, m, p, S), NEW r \in Registers, NEW o, o = Load(n, base, r)
  PROVE  LoadedFrom(o, m, p, S \union {r})
<1>1. n \in Machines /\ n.reg[base] = p /\ n.mem = m.mem
  BY DEF LoadedFrom
<1>2. /\ o \in Machines /\ o.mem = n.mem
      /\ o.reg[r] = n.mem[p + RegisterField[r]]
      /\ \A s \in Registers : s # r => o.reg[s] = n.reg[s]
  BY <1>1, LoadIs
<1> QED  BY <1>1, <1>2 DEF LoadedFrom

\* The sequences of MOVs, in closed form
LEMMA SaveRegistersIs ==
  ASSUME NEW m \in Machines, NEW base \in Registers, NEW p \in Contexts, m.reg[base] = p
  PROVE  SavedTo(SaveRegisters(m, base), m, p, Registers \ {"EAX"})
<1>1. PICK m1 : m1 = Save(m, base, "EDI")
  OBVIOUS
<1>2. PICK m2 : m2 = Save(m1, base, "ESI")
  OBVIOUS
<1>3. PICK m3 : m3 = Save(m2, base, "EBP")
  OBVIOUS
<1>4. PICK m4 : m4 = Save(m3, base, "ESP")
  OBVIOUS
<1>5. PICK m5 : m5 = Save(m4, base, "EBX")
  OBVIOUS
<1>6. PICK m6 : m6 = Save(m5, base, "EDX")
  OBVIOUS
<1>7. PICK m7 : m7 = Save(m6, base, "ECX")
  OBVIOUS
<1>8. SaveRegisters(m, base) = m7
  BY <1>1, <1>2, <1>3, <1>4, <1>5, <1>6, <1>7 DEF SaveRegisters
<1>9. {"EDI", "ESI", "EBP", "ESP", "EBX", "EDX", "ECX"} \subseteq Registers
  BY RegistersAre
<1>10. SavedTo(m, m, p, {})
  BY DEF SavedTo
<1>11. SavedTo(m1, m, p, {} \union {"EDI"})
  BY <1>1, <1>9, <1>10, SaveOneMore
<1>12. SavedTo(m2, m, p, {"EDI"} \union {"ESI"})
  <2>1. SavedTo(m1, m, p, {"EDI"})
    BY <1>11
  <2> QED  BY <1>2, <1>9, <2>1, SaveOneMore
<1>13. SavedTo(m3, m, p, {"EDI", "ESI"} \union {"EBP"})
  <2>1. SavedTo(m2, m, p, {"EDI", "ESI"})
    BY <1>12
  <2> QED  BY <1>3, <1>9, <2>1, SaveOneMore
<1>14. SavedTo(m4, m, p, {"EDI", "ESI", "EBP"} \union {"ESP"})
  <2>1. SavedTo(m3, m, p, {"EDI", "ESI", "EBP"})
    BY <1>13
  <2> QED  BY <1>4, <1>9, <2>1, SaveOneMore
<1>15. SavedTo(m5, m, p, {"EDI", "ESI", "EBP", "ESP"} \union {"EBX"})
  <2>1. SavedTo(m4, m, p, {"EDI", "ESI", "EBP", "ESP"})
    BY <1>14
  <2> QED  BY <1>5, <1>9, <2>1, SaveOneMore
<1>16. SavedTo(m6, m, p, {"EDI", "ESI", "EBP", "ESP", "EBX"} \union {"EDX"})
  <2>1. SavedTo(m5, m, p, {"EDI", "ESI", "EBP", "ESP", "EBX"})
    BY <1>15
  <2> QED  BY <1>6, <1>9, <2>1, SaveOneMore
<1>17. SavedTo(m7, m, p, {"EDI", "ESI", "EBP", "ESP", "EBX", "EDX"} \union {"ECX"})
  <2>1. SavedTo(m6, m, p, {"EDI", "ESI", "EBP", "ESP", "EBX", "EDX"})
    BY <1>16
  <2> QED  BY <1>7, <1>9, <2>1, SaveOneMore
<1>18. {"EDI", "ESI", "EBP", "ESP", "EBX", "EDX"} \union {"ECX"} = Registers \ {"EAX"}
  BY RegistersAre
<1> QED  BY <1>8, <1>17, <1>18

\* EDI, ESI, EBP and ESP are loaded.
LEMMA LoadPointersIs ==
  ASSUME NEW m \in Machines, NEW base \in Registers \ {"EDI", "ESI", "EBP", "ESP"},
         NEW p \in Contexts, m.reg[base] = p
  PROVE  LoadedFrom(LoadPointers(m, base), m, p, {"EDI", "ESI", "EBP", "ESP"})
<1>1. PICK m1 : m1 = Load(m, base, "EDI")
  OBVIOUS
<1>2. PICK m2 : m2 = Load(m1, base, "ESI")
  OBVIOUS
<1>3. PICK m3 : m3 = Load(m2, base, "EBP")
  OBVIOUS
<1>4. PICK m4 : m4 = Load(m3, base, "ESP")
  OBVIOUS
<1>5. LoadPointers(m, base) = m4
  BY <1>1, <1>2, <1>3, <1>4 DEF LoadPointers
<1>6. {"EDI", "ESI", "EBP", "ESP"} \subseteq Registers
  BY RegistersAre
<1>7. LoadedFrom(m, m, p, {})
  BY DEF LoadedFrom
<1>8. LoadedFrom(m1, m, p, {} \union {"EDI"})
  BY <1>1, <1>6, <1>7, LoadOneMore
<1>9. LoadedFrom(m2, m, p, {"EDI"} \union {"ESI"})
  <2>1. LoadedFrom(m1, m, p, {"EDI"})
    BY <1>8
  <2> QED  BY <1>2, <1>6, <2>1, LoadOneMore
<1>10. LoadedFrom(m3, m, p, {"EDI", "ESI"} \union {"EBP"})
  <2>1. LoadedFrom(m2, m, p, {"EDI", "ESI"})
    BY <1>9
  <2> QED  BY <1>3, <1>6, <2>1, LoadOneMore
<1>11. LoadedFrom(m4, m, p, {"EDI", "ESI", "EBP"} \union {"ESP"})
  <2>1. LoadedFrom(m3, m, p, {"EDI", "ESI", "EBP"})
    BY <1>10
  <2> QED  BY <1>4, <1>6, <2>1, LoadOneMore
<1>12. {"EDI", "ESI", "EBP"} \union {"ESP"} = {"EDI", "ESI", "EBP", "ESP"}
  OBVIOUS
<1> QED  BY <1>5, <1>11, <1>12

\* EDX and ECX are loaded as well.
LEMMA LoadCountersIs ==
  ASSUME NEW m \in Machines, NEW n, NEW base \in Registers \ {"EDX", "ECX"},
         NEW p \in Contexts, m.reg[base] = p,
         NEW S \in SUBSET Registers, base \notin S, LoadedFrom(n, m, p, S)
  PROVE  LoadedFrom(LoadCounters(n, base), m, p, S \union {"EDX", "ECX"})
<1>1. PICK n1 : n1 = Load(n, base, "EDX")
  OBVIOUS
<1>2. PICK n2 : n2 = Load(n1, base, "ECX")
  OBVIOUS
<1>3. LoadCounters(n, base) = n2
  BY <1>1, <1>2 DEF LoadCounters
<1>4. {"EDX", "ECX"} \subseteq Registers
  BY RegistersAre
<1>5. LoadedFrom(n1, m, p, S \union {"EDX"})
  BY <1>1, <1>4, LoadOneMore
<1>6. LoadedFrom(n2, m, p, (S \union {"EDX"}) \union {"ECX"})
  <2>1. S \union {"EDX"} \in SUBSET Registers /\ base \notin S \union {"EDX"}
    BY <1>4
  <2> QED  BY <1>2, <1>4, <1>5, <2>1, LoadOneMore
<1>7. (S \union {"EDX"}) \union {"ECX"} = S \union {"EDX", "ECX"}
  OBVIOUS
<1> QED  BY <1>3, <1>6, <1>7

-----------------------------------------------------------------------------
(***************************************************************************)
(* What the routines do: i is the word of the page the stack pointer is at *)
(***************************************************************************)

\* _resume_task leaves from's registers in its struct task, the stack pointer
\* at the word it pushed, and takes to's out of to's.
LEMMA ResumeTaskIs ==
  ASSUME NEW m \in Machines, NEW from \in Contexts, NEW to \in Contexts, from # to,
         NEW i \in 12 .. PageWords - 3, m.reg["ESP"] = from + i,
         m.mem[from + i + 1] = from, m.mem[from + i + 2] = to,
         m.mem[to + 6] \in Int,
         NEW n, n = ResumeTask(m)
  PROVE  /\ n \in Machines
         /\ n.reg["ESP"] = m.mem[to + 6] + 1
         /\ \A r \in Registers \ {"ESP"} : n.reg[r] = m.mem[to + RegisterField[r]]
         /\ n.mem[from + 6] = from + i - 1
         /\ \A r \in Registers \ {"ESP"} : n.mem[from + RegisterField[r]] = m.reg[r]
         /\ \A b \in Addresses :
              b # from + i - 1 /\ (\A r \in Registers : b # from + RegisterField[r])
                => n.mem[b] = m.mem[b]
<1>1. /\ from \in Nat /\ to \in Nat /\ from \in Words /\ to \in Words
      /\ from + PageWords <= to \/ to + PageWords <= from
  BY PagesApart DEF Words
<1>2. {"EDI", "ESI", "EBP", "ESP", "EBX", "EDX", "ECX", "EAX"} = Registers
  BY RegistersAre
<1>3. /\ \A k \in 0 .. PageWords - 1 : from + k \in Addresses /\ to + k \in Addresses
      /\ from + i - 1 \in Addresses /\ from + i + 1 \in Addresses /\ from + i + 2 \in Addresses
  <2>1. \A k \in 0 .. PageWords - 1 : from + k \in Addresses /\ to + k \in Addresses
    BY WordsOfPages
  <2>2. /\ i - 1 \in 0 .. PageWords - 1 /\ i + 1 \in 0 .. PageWords - 1
        /\ i + 2 \in 0 .. PageWords - 1
    BY Sizes
  <2>3. /\ from + (i - 1) = from + i - 1 /\ from + (i + 1) = from + i + 1
        /\ from + (i + 2) = from + i + 2
    BY <1>1
  <2> QED  BY <2>1, <2>2, <2>3
<1>4. \A r \in Registers : RegisterField[r] \in 3 .. 10
  BY FieldsAre
<1>5. \A r \in Registers : /\ from + RegisterField[r] \in Addresses
                         /\ to + RegisterField[r] \in Addresses
  BY <1>3, <1>4, Sizes
<1>6. \A r, s \in Registers : from + RegisterField[r] # to + RegisterField[s]
  BY <1>1, <1>4, Sizes
<1>7. \A r \in Registers : /\ from + RegisterField[r] # from + i - 1
                         /\ from + RegisterField[r] # from + i + 1
                         /\ from + RegisterField[r] # from + i + 2
                         /\ to + RegisterField[r] # from + i - 1
  BY <1>1, <1>4, Sizes
<1>8. PICK m1 : m1 = Push(m, m.reg["EAX"])
  OBVIOUS
<1>9. /\ m1 \in Machines /\ m1.reg["ESP"] = from + i - 1
      /\ \A s \in Registers : s # "ESP" => m1.reg[s] = m.reg[s]
      /\ m1.mem[from + i - 1] = m.reg["EAX"]
      /\ \A b \in Addresses : b # from + i - 1 => m1.mem[b] = m.mem[b]
  <2>1. m.reg["EAX"] \in Words
    BY <1>2 DEF Machines
  <2>2. PICK sp \in Int : sp = from + i
    BY <1>1
  <2>3. m.reg["ESP"] = sp /\ sp - 1 = from + i - 1 /\ sp - 1 \in Addresses
    BY <1>1, <1>3, <2>2
  <2>4. /\ m1 \in Machines /\ m1.reg["ESP"] = sp - 1
        /\ \A s \in Registers : s # "ESP" => m1.reg[s] = m.reg[s]
        /\ m1.mem[sp - 1] = m.reg["EAX"]
        /\ \A b \in Addresses : b # sp - 1 => m1.mem[b] = m.mem[b]
    BY <1>8, <2>1, <2>3, PushIs
  <2> QED  BY <2>3, <2>4
<1>10. PICK m2 : m2 = MovReg(m1, "EAX", Word(m1, 2))
  OBVIOUS
<1>11. /\ m2 \in Machines /\ m2.mem = m1.mem /\ m2.reg["EAX"] = from
      /\ \A s \in Registers : s # "EAX" => m2.reg[s] = m1.reg[s]
  <2>1. from + i - 1 + 2 = from + i + 1 /\ from + i + 1 # from + i - 1
    BY <1>1
  <2>2. Word(m1, 2) = from
    BY <1>3, <1>9, <2>1 DEF Word
  <2> QED  BY <1>1, <1>2, <1>9, <1>10, <2>2, MovRegIs
<1>12. PICK m3 : m3 = SaveRegisters(m2, "EAX")
  OBVIOUS
<1>13. SavedTo(m3, m2, from, Registers \ {"EAX"})
  BY <1>2, <1>11, <1>12, SaveRegistersIs
<1>14. /\ m3 \in Machines /\ m3.reg = m2.reg
       /\ \A r \in Registers \ {"EAX"} : m3.mem[from + RegisterField[r]] = m2.reg[r]
       /\ \A b \in Addresses :
            (\A r \in Registers : b # from + RegisterField[r]) => m3.mem[b] = m1.mem[b]
  BY <1>11, <1>13 DEF SavedTo
<1>15. PICK m4 : m4 = MovReg(m3, "EBX", Word(m3, 0))
  OBVIOUS
<1>16. /\ m4 \in Machines /\ m4.mem = m3.mem /\ m4.reg["EBX"] = m.reg["EAX"]
       /\ \A s \in Registers : s # "EBX" => m4.reg[s] = m3.reg[s]
  <2>1. m3.reg["ESP"] = from + i - 1 /\ from + i - 1 + 0 = from + i - 1
    BY <1>1, <1>2, <1>9, <1>11, <1>14
  <2>2. m3.mem[from + i - 1] = m.reg["EAX"]
    BY <1>3, <1>7, <1>9, <1>14
  <2>3. Word(m3, 0) = m.reg["EAX"] /\ m.reg["EAX"] \in Words /\ "EBX" \in Registers
    BY <1>2, <2>1, <2>2 DEF Word, Machines
  <2> QED  BY <1>2, <1>14, <1>15, <2>3, MovRegIs
<1>17. PICK m5 : m5 = MovMem(m4, m4.reg["EAX"] + RegisterField["EAX"], m4.reg["EBX"])
  OBVIOUS
<1>18. /\ m5 \in Machines /\ m5.reg = m4.reg
       /\ m5.mem[from + RegisterField["EAX"]] = m.reg["EAX"]
       /\ \A b \in Addresses : b # from + RegisterField["EAX"] => m5.mem[b] = m3.mem[b]
  <2>1. m4.reg["EAX"] = from
    BY <1>2, <1>11, <1>14, <1>16
  <2>2. m.reg["EAX"] \in Words
    BY <1>2 DEF Machines
  <2> QED  BY <1>2, <1>5, <1>16, <1>17, <2>1, <2>2, MovMemIs
<1>19. \A b \in Addresses :
         b # from + i - 1 /\ (\A r \in Registers : b # from + RegisterField[r])
           => m5.mem[b] = m.mem[b]
  BY <1>2, <1>9, <1>14, <1>18
<1>20. m5.reg["ESP"] = from + i - 1 /\ m5.reg["EAX"] = from
  BY <1>2, <1>9, <1>11, <1>14, <1>16, <1>18
<1>21. PICK m6 : m6 = MovReg(m5, "EAX", Word(m5, 3))
  OBVIOUS
<1>22. m6 \in Machines /\ m6.mem = m5.mem /\ m6.reg["EAX"] = to
  <2>1. from + i - 1 + 3 = from + i + 2 /\ from + i + 2 # from + i - 1
    BY <1>1
  <2>2. Word(m5, 3) = to
    BY <1>3, <1>7, <1>19, <1>20, <2>1 DEF Word
  <2> QED  BY <1>1, <1>2, <1>18, <1>21, <2>2, MovRegIs
<1>23. PICK m7 : m7 = LoadPointers(m6, "EAX")
  OBVIOUS
<1>24. PICK m8 : m8 = Load(m7, "EAX", "EBX")
  OBVIOUS
<1>25. PICK m9 : m9 = LoadCounters(m8, "EAX")
  OBVIOUS
<1>26. PICK m10 : m10 = Load(m9, "EAX", "EAX")
  OBVIOUS
<1>27. LoadedFrom(m7, m6, to, {"EDI", "ESI", "EBP", "ESP"})
  BY <1>2, <1>22, <1>23, LoadPointersIs
<1>28. LoadedFrom(m8, m6, to, {"EDI", "ESI", "EBP", "ESP"} \union {"EBX"})
  BY <1>2, <1>22, <1>27, <1>24, LoadOneMore
<1>29. LoadedFrom(m9, m6, to, {"EDI", "ESI", "EBP", "ESP", "EBX"} \union {"EDX", "ECX"})
  <2>1. LoadedFrom(m8, m6, to, {"EDI", "ESI", "EBP", "ESP", "EBX"})
    BY <1>28
  <2> QED  BY <1>2, <1>22, <1>25, <2>1, LoadCountersIs
<1>30. LoadedFrom(m10, m6, to, Registers)
  <2>1. {"EDI", "ESI", "EBP", "ESP", "EBX"} \union {"EDX", "ECX"} = Registers \ {"EAX"}
    BY <1>2
  <2>2. LoadedFrom(m10, m6, to, (Registers \ {"EAX"}) \union {"EAX"})
    <3>1. /\ m6 \in Machines /\ m6.reg["EAX"] = to
          /\ "EAX" \in Registers /\ Registers \ {"EAX"} \in SUBSET Registers
          /\ LoadedFrom(m9, m6, to, Registers \ {"EAX"})
      BY <1>2, <1>22, <1>29, <2>1
    <3> QED  BY <1>26, <3>1, LoadOneMore
  <2>3. (Registers \ {"EAX"}) \union {"EAX"} = Registers
    BY <1>2
  <2> QED  BY <2>2, <2>3
<1>31. \A r \in Registers : m6.mem[to + RegisterField[r]] = m.mem[to + RegisterField[r]]
  BY <1>5, <1>6, <1>7, <1>19, <1>22
<1>32. /\ m10 \in Machines /\ m10.mem = m5.mem
       /\ \A r \in Registers : m10.reg[r] = m.mem[to + RegisterField[r]]
  BY <1>22, <1>30, <1>31 DEF LoadedFrom
<1>33. m10.reg["ESP"] = m.mem[to + 6]
  BY <1>2, <1>32, RegistersAre
<1>34. n = AddEsp(m10, 1)
  BY <1>8, <1>10, <1>12, <1>15, <1>17, <1>21, <1>23, <1>24, <1>25, <1>26 DEF ResumeTask
<1>35. /\ n \in Machines /\ n.mem = m5.mem /\ n.reg["ESP"] = m.mem[to + 6] + 1
       /\ \A r \in Registers : r # "ESP" => n.reg[r] = m10.reg[r]
  BY <1>32, <1>33, <1>34, AddEspIs
<1>36. n.mem[from + 6] = from + i - 1
  <2>1. from + 6 = from + RegisterField["ESP"] /\ from + 6 # from + RegisterField["EAX"]
    BY <1>1, RegistersAre
  <2>2. m3.mem[from + RegisterField["ESP"]] = m2.reg["ESP"]
    BY <1>2, <1>14
  <2> QED  BY <1>2, <1>5, <1>9, <1>11, <1>18, <1>35, <2>1, <2>2
<1>37. \A r \in Registers \ {"ESP"} : n.mem[from + RegisterField[r]] = m.reg[r]
  <2> SUFFICES ASSUME NEW r \in Registers \ {"ESP"}
               PROVE  n.mem[from + RegisterField[r]] = m.reg[r]
    OBVIOUS
  <2>1. CASE r = "EAX"
    BY <1>18, <1>35, <2>1
  <2>2. CASE r # "EAX"
    <3>1. from + RegisterField[r] # from + RegisterField["EAX"]
      BY <1>1, <1>2, <1>4, <2>2, FieldsApart
    <3> QED  BY <1>5, <1>9, <1>11, <1>14, <1>18, <1>35, <2>2, <3>1
  <2> QED  BY <2>1, <2>2
<1> QED
  BY <1>19, <1>32, <1>35, <1>36, <1>37

\* A push from word i of a page
LEMMA PushAt ==
  ASSUME NEW m \in Machines, NEW p \in Contexts, NEW i \in 1 .. PageWords,
         m.reg["ESP"] = p + i, NEW w \in Words, NEW n, n = Push(m, w)
  PROVE  /\ n \in Machines
         /\ n.reg["ESP"] = p + (i - 1)
         /\ \A s \in Registers : s # "ESP" => n.reg[s] = m.reg[s]
         /\ n.mem[p + (i - 1)] = w
         /\ \A b \in Addresses : b # p + (i - 1) => n.mem[b] = m.mem[b]
<1>1. p \in Nat /\ i - 1 \in 0 .. PageWords - 1
  BY PagesApart, Sizes
<1>2. PICK sp \in Int : sp = p + i
  BY <1>1
<1>3. m.reg["ESP"] = sp /\ sp - 1 = p + (i - 1) /\ sp - 1 \in Addresses
  <2>1. sp - 1 = p + (i - 1)
    BY <1>1, <1>2
  <2> QED  BY <1>1, <1>2, <2>1, WordsOfPages
<1>4. /\ n \in Machines /\ n.reg["ESP"] = sp - 1
      /\ \A s \in Registers : s # "ESP" => n.reg[s] = m.reg[s]
      /\ n.mem[sp - 1] = w
      /\ \A b \in Addresses : b # sp - 1 => n.mem[b] = m.mem[b]
  BY <1>3, PushIs
<1> QED  BY <1>3, <1>4

\* scheduler_yield pushes the two tasks that _resume_task takes, and hands it
\* every register but the stack pointer as it was.
LEMMA YieldHeadIs ==
  ASSUME NEW m \in Machines, NEW p \in Contexts, NEW i \in 17 .. PageWords - 1,
         m.reg["ESP"] = p + i, m.mem[p + SchedulerField] = Kernel,
         NEW n, n = YieldHead(m)
  PROVE  /\ n \in Machines
         /\ n.reg["ESP"] = p + (i - 5)
         /\ \A s \in Registers : s # "ESP" => n.reg[s] = m.reg[s]
         /\ n.mem[p + (i - 5)] = InYield
         /\ n.mem[p + (i - 4)] = p
         /\ n.mem[p + (i - 3)] = Kernel
         /\ \A b \in Addresses :
              (\A k \in 1 .. 5 : b # p + (i - k)) => n.mem[b] = m.mem[b]
<1>1. /\ p \in Nat /\ p \in Words /\ Kernel \in Words
      /\ i \in Int /\ 1 <= i /\ i <= PageWords - 1 /\ PageWords \in Int
  BY PagesApart, Sizes DEF Words
<1>2. "EAX" \in Registers /\ "EBX" \in Registers /\ "ESP" \in Registers
  BY RegistersAre
<1>3. m.reg["EAX"] \in Words /\ m.reg["EBX"] \in Words /\ InYield \in Words
  BY <1>2 DEF Machines, Words, Labels
<1>4. \A k \in 0 .. PageWords - 1 : p + k \in Addresses
  BY WordsOfPages
<1>5. /\ p + (i - 1) \in Addresses /\ p + (i - 2) \in Addresses
      /\ p + (i - 3) \in Addresses /\ p + (i - 4) \in Addresses
      /\ p + (i - 5) \in Addresses /\ p + SchedulerField \in Addresses
  <2>1. /\ i - 1 \in 0 .. PageWords - 1 /\ i - 2 \in 0 .. PageWords - 1
        /\ i - 3 \in 0 .. PageWords - 1 /\ i - 4 \in 0 .. PageWords - 1
        /\ i - 5 \in 0 .. PageWords - 1 /\ SchedulerField \in 0 .. PageWords - 1
    BY Sizes DEF SchedulerField
  <2> QED  BY <1>4, <2>1
<1>6. PICK a : a = Push(m, m.reg["EAX"])
  OBVIOUS
<1>7. /\ a \in Machines /\ a.reg["ESP"] = p + (i - 1)
      /\ \A s \in Registers : s # "ESP" => a.reg[s] = m.reg[s]
      /\ a.mem[p + (i - 1)] = m.reg["EAX"]
      /\ \A b \in Addresses : b # p + (i - 1) => a.mem[b] = m.mem[b]
  <2>1. i \in 1 .. PageWords
    BY <1>1
  <2> QED  BY <1>3, <1>6, <2>1, PushAt
<1>8. PICK m1 : m1 = Push(a, m.reg["EBX"])
  OBVIOUS
<1>9. /\ m1 \in Machines /\ m1.reg["ESP"] = p + (i - 2)
      /\ \A s \in Registers : s # "ESP" => m1.reg[s] = m.reg[s]
      /\ m1.mem[p + (i - 2)] = m.reg["EBX"]
      /\ m1.mem[p + (i - 1)] = m.reg["EAX"]
      /\ \A b \in Addresses :
           b \notin {p + (i - 1), p + (i - 2)} => m1.mem[b] = m.mem[b]
  <2>1. i - 1 \in 1 .. PageWords /\ i - 1 - 1 = i - 2 /\ p + (i - 1) # p + (i - 2)
    BY <1>1
  <2>2. /\ m1 \in Machines /\ m1.reg["ESP"] = p + (i - 2)
        /\ \A s \in Registers : s # "ESP" => m1.reg[s] = a.reg[s]
        /\ m1.mem[p + (i - 2)] = m.reg["EBX"]
        /\ \A b \in Addresses : b # p + (i - 2) => m1.mem[b] = a.mem[b]
    BY <1>3, <1>7, <1>8, <2>1, PushAt
  <2> QED  BY <1>5, <1>7, <2>1, <2>2
<1>10. PICK m2 : m2 = GetCurrentTask(m1, InYield)
  OBVIOUS
<1>11. /\ m2 \in Machines /\ m2.reg["ESP"] = p + (i - 2) /\ m2.reg["EAX"] = p
       /\ \A s \in Registers : s \notin {"ESP", "EAX"} => m2.reg[s] = m.reg[s]
       /\ m2.mem[p + (i - 2)] = m.reg["EBX"]
       /\ m2.mem[p + (i - 1)] = m.reg["EAX"]
       /\ \A b \in Addresses :
            b \notin {p + (i - 1), p + (i - 2), p + (i - 3)} => m2.mem[b] = m.mem[b]
  <2>1. /\ i - 2 \in 1 .. PageWords /\ p + (i - 2) - 1 = p + (i - 3)
        /\ p + (i - 1) # p + (i - 3) /\ p + (i - 2) # p + (i - 3)
    BY <1>1
  <2>2. /\ m2 \in Machines /\ m2.reg["ESP"] = p + (i - 2) /\ m2.reg["EAX"] = p
        /\ \A s \in Registers : s \notin {"ESP", "EAX"} => m2.reg[s] = m1.reg[s]
        /\ \A b \in Addresses : b # p + (i - 2) - 1 => m2.mem[b] = m1.mem[b]
    BY <1>3, <1>9, <1>10, <2>1, GetCurrentTaskIs
  <2> QED  BY <1>5, <1>9, <2>1, <2>2
<1>12. PICK m3 : m3 = MovReg(m2, "EBX", m2.reg["EAX"])
  OBVIOUS
<1>13. /\ m3 \in Machines /\ m3.mem = m2.mem /\ m3.reg["EBX"] = p
       /\ \A s \in Registers : s # "EBX" => m3.reg[s] = m2.reg[s]
  <2>1. m2.reg["EAX"] = p /\ p \in Words /\ "EBX" \in Registers
    BY <1>1, <1>2, <1>11
  <2>2. m3 = MovReg(m2, "EBX", p)
    BY <1>12, <2>1
  <2> QED  BY <1>11, <2>1, <2>2, MovRegIs
<1>14. PICK m4 : m4 = MovReg(m3, "EBX", m3.mem[m3.reg["EBX"] + SchedulerField])
  OBVIOUS
<1>15. /\ m4 \in Machines /\ m4.mem = m2.mem /\ m4.reg["EBX"] = Kernel
       /\ \A s \in Registers : s # "EBX" => m4.reg[s] = m2.reg[s]
  <2>1. p + SchedulerField \notin {p + (i - 1), p + (i - 2), p + (i - 3)}
    BY <1>1 DEF SchedulerField
  <2>2. m3.mem[m3.reg["EBX"] + SchedulerField] = Kernel
    BY <1>5, <1>11, <1>13, <2>1
  <2>3. m4 = MovReg(m3, "EBX", Kernel) /\ Kernel \in Words /\ "EBX" \in Registers
    BY <1>1, <1>2, <1>14, <2>2
  <2>4. /\ m4 \in Machines /\ m4.mem = m3.mem /\ m4.reg["EBX"] = Kernel
        /\ \A s \in Registers : s # "EBX" => m4.reg[s] = m3.reg[s]
    BY <1>13, <2>3, MovRegIs
  <2> QED  BY <1>13, <2>4
<1>16. m4.reg["ESP"] = p + (i - 2) /\ m4.reg["EAX"] = p
  BY <1>2, <1>11, <1>15
<1>17. PICK c : c = Push(m4, m4.reg["EBX"])
  OBVIOUS
<1>18. /\ c \in Machines /\ c.reg["ESP"] = p + (i - 3)
       /\ \A s \in Registers : s # "ESP" => c.reg[s] = m4.reg[s]
       /\ c.mem[p + (i - 3)] = Kernel
       /\ \A b \in Addresses : b # p + (i - 3) => c.mem[b] = m2.mem[b]
  <2>1. i - 2 \in 1 .. PageWords /\ i - 2 - 1 = i - 3
    BY <1>1
  <2> QED  BY <1>1, <1>15, <1>16, <1>17, <2>1, PushAt
<1>19. PICK m5 : m5 = Push(c, m4.reg["EAX"])
  OBVIOUS
<1>20. /\ m5 \in Machines /\ m5.reg["ESP"] = p + (i - 4)
       /\ \A s \in Registers : s # "ESP" => m5.reg[s] = m4.reg[s]
       /\ m5.mem[p + (i - 4)] = p
       /\ \A b \in Addresses : b # p + (i - 4) => m5.mem[b] = c.mem[b]
  <2>1. i - 3 \in 1 .. PageWords /\ i - 3 - 1 = i - 4
    BY <1>1
  <2> QED  BY <1>1, <1>16, <1>18, <1>19, <2>1, PushAt
<1>21. /\ m5.mem[p + (i - 3)] = Kernel
       /\ m5.mem[p + (i - 2)] = m.reg["EBX"]
       /\ m5.mem[p + (i - 1)] = m.reg["EAX"]
       /\ \A b \in Addresses :
            (\A k \in 1 .. 5 : b # p + (i - k)) => m5.mem[b] = m.mem[b]
  <2>1. /\ p + (i - 3) # p + (i - 4) /\ p + (i - 2) # p + (i - 4) /\ p + (i - 1) # p + (i - 4)
        /\ p + (i - 2) # p + (i - 3) /\ p + (i - 1) # p + (i - 3)
    BY <1>1
  <2> QED  BY <1>5, <1>11, <1>18, <1>20, <2>1
<1>22. PICK m6 : m6 = MovReg(m5, "EBX", Word(m5, 2))
  OBVIOUS
<1>23. /\ m6 \in Machines /\ m6.mem = m5.mem /\ m6.reg["EBX"] = m.reg["EBX"]
       /\ \A s \in Registers : s # "EBX" => m6.reg[s] = m5.reg[s]
  <2>1. p + (i - 4) + 2 = p + (i - 2)
    BY <1>1
  <2>2. Word(m5, 2) = m.reg["EBX"]
    BY <1>20, <1>21, <2>1 DEF Word
  <2>3. PICK w \in Words : w = m.reg["EBX"]
    BY <1>3
  <2>4. m6 = MovReg(m5, "EBX", w) /\ "EBX" \in Registers
    BY <1>2, <1>22, <2>2, <2>3
  <2>5. /\ m6 \in Machines /\ m6.mem = m5.mem /\ m6.reg["EBX"] = w
        /\ \A s \in Registers : s # "EBX" => m6.reg[s] = m5.reg[s]
    BY <1>20, <2>3, <2>4, MovRegIs
  <2> QED  BY <1>20, <2>3, <2>5
<1>24. PICK m7 : m7 = MovReg(m6, "EAX", Word(m6, 3))
  OBVIOUS
<1>25. /\ m7 \in Machines /\ m7.mem = m5.mem /\ m7.reg["EAX"] = m.reg["EAX"]
       /\ \A s \in Registers : s # "EAX" => m7.reg[s] = m6.reg[s]
  <2>1. p + (i - 4) + 3 = p + (i - 1) /\ m6.reg["ESP"] = p + (i - 4)
    BY <1>1, <1>2, <1>20, <1>23
  <2>2. Word(m6, 3) = m.reg["EAX"]
    BY <1>21, <1>23, <2>1 DEF Word
  <2>3. PICK w \in Words : w = m.reg["EAX"]
    BY <1>3
  <2>4. m7 = MovReg(m6, "EAX", w) /\ "EAX" \in Registers
    BY <1>2, <1>24, <2>2, <2>3
  <2>5. /\ m7 \in Machines /\ m7.mem = m6.mem /\ m7.reg["EAX"] = w
        /\ \A s \in Registers : s # "EAX" => m7.reg[s] = m6.reg[s]
    BY <1>23, <2>3, <2>4, MovRegIs
  <2> QED  BY <1>23, <2>3, <2>5
<1>26. /\ m7.reg["ESP"] = p + (i - 4)
       /\ \A s \in Registers : s # "ESP" => m7.reg[s] = m.reg[s]
  BY <1>2, <1>11, <1>15, <1>20, <1>23, <1>25
<1>27. n = Push(m7, InYield)
  <2> DEFINE d1 == Push(Push(m, m.reg["EAX"]), m.reg["EBX"])
             d2 == GetCurrentTask(d1, InYield)
             d3 == MovReg(d2, "EBX", d2.reg["EAX"])
             d4 == MovReg(d3, "EBX", d3.mem[d3.reg["EBX"] + SchedulerField])
             d5 == Push(Push(d4, d4.reg["EBX"]), d4.reg["EAX"])
             d6 == MovReg(d5, "EBX", Word(d5, 2))
             d7 == MovReg(d6, "EAX", Word(d6, 3))
  <2>1. n = Push(d7, InYield)
    BY DEF YieldHead
  <2>2. m1 = d1
    BY <1>6, <1>8
  <2> HIDE DEF d1
  <2>3. m2 = d2
    BY <1>10, <2>2
  <2> HIDE DEF d2
  <2>4. m3 = d3
    BY <1>12, <2>3
  <2> HIDE DEF d3
  <2>5. m4 = d4
    BY <1>14, <2>4
  <2> HIDE DEF d4
  <2>6. m5 = d5
    BY <1>17, <1>19, <2>5
  <2> HIDE DEF d5
  <2>7. m6 = d6
    BY <1>22, <2>6
  <2> HIDE DEF d6
  <2>8. m7 = d7
    BY <1>24, <2>7
  <2> HIDE DEF d7
  <2> QED  BY <2>1, <2>8
<1>28. /\ n \in Machines /\ n.reg["ESP"] = p + (i - 5)
       /\ \A s \in Registers : s # "ESP" => n.reg[s] = m7.reg[s]
       /\ n.mem[p + (i - 5)] = InYield
       /\ \A b \in Addresses : b # p + (i - 5) => n.mem[b] = m7.mem[b]
  <2>1. i - 4 \in 1 .. PageWords /\ i - 4 - 1 = i - 5
    BY <1>1
  <2> QED  BY <1>3, <1>25, <1>26, <1>27, <2>1, PushAt
<1>29. p + (i - 4) # p + (i - 5) /\ p + (i - 3) # p + (i - 5)
  BY <1>1
<1> QED  BY <1>5, <1>20, <1>21, <1>25, <1>26, <1>28, <1>29

\* A return to the caller, n words up the stack
LEMMA EspUpIs ==
  ASSUME NEW m \in Machines, NEW p \in Contexts, NEW i \in Nat, NEW k \in Nat,
         m.reg["ESP"] = p + i, NEW n, n = AddEsp(m, k)
  PROVE  /\ n \in Machines /\ n.mem = m.mem
         /\ n.reg["ESP"] = p + (i + k)
         /\ \A s \in Registers : s # "ESP" => n.reg[s] = m.reg[s]
<1>1. p \in Nat
  BY PagesApart
<1>2. PICK sp \in Int : sp = p + i
  BY <1>1
<1>3. m.reg["ESP"] = sp /\ sp \in Int /\ k \in Int
  BY <1>2
<1>4. /\ n \in Machines /\ n.mem = m.mem /\ n.reg["ESP"] = sp + k
      /\ \A s \in Registers : s # "ESP" => n.reg[s] = m.reg[s]
  BY <1>3, AddEspIs
<1>5. sp + k = p + (i + k)
  BY <1>1, <1>2
<1> QED  BY <1>4, <1>5

\* _dealloc_and_jump_to_task leaves the task's stack for the kernel's, where it
\* pushes the task for memory_free_page.
LEMMA DeallocHeadIs ==
  ASSUME NEW m \in Machines, NEW this \in TaskPages, NEW i \in 0 .. PageWords - 3,
         m.reg["ESP"] = this + i, m.mem[this + i + 1] = this, m.mem[this + i + 2] = Kernel,
         m.mem[Kernel + 6] = Kernel + (PageWords - 5),
         NEW n, n = DeallocHead(m)
  PROVE  /\ n \in Machines
         /\ n.reg["ESP"] = Kernel + (PageWords - 8)
         /\ n.mem[Kernel + (PageWords - 7)] = this
         /\ \A r \in CalleeSaved \ {"ESP"} : n.reg[r] = m.mem[Kernel + RegisterField[r]]
         /\ \A b \in Addresses :
              (\A k \in 6 .. 8 : b # Kernel + (PageWords - k)) => n.mem[b] = m.mem[b]
<1>1. /\ this \in Nat /\ this \in Words /\ Kernel \in Nat /\ Kernel \in Words
      /\ this \in Contexts /\ Kernel \in Contexts
      /\ PageWords \in Int /\ PageWords >= 20
  BY PagesApart, Sizes DEF Contexts, Words
<1>2. {"EDI", "ESI", "EBP", "ESP", "EBX", "EDX", "ECX", "EAX"} = Registers
  BY RegistersAre
<1>3. \A r \in Registers : /\ Kernel + RegisterField[r] \in Addresses
                           /\ \A k \in 6 .. 8 :
                                Kernel + RegisterField[r] # Kernel + (PageWords - k)
  <2> SUFFICES ASSUME NEW r \in Registers
               PROVE  /\ Kernel + RegisterField[r] \in Addresses
                      /\ \A k \in 6 .. 8 :
                           Kernel + RegisterField[r] # Kernel + (PageWords - k)
    OBVIOUS
  <2>1. RegisterField[r] \in 3 .. 10
    BY FieldsAre
  <2>2. RegisterField[r] \in 0 .. PageWords - 1
    BY <1>1, <2>1
  <2> QED  BY <1>1, <2>1, <2>2, WordsOfPages
<1>4. PICK m1 : m1 = MovReg(m, "EAX", Word(m, 1))
  OBVIOUS
<1>5. /\ m1 \in Machines /\ m1.mem = m.mem /\ m1.reg["EAX"] = this
      /\ \A s \in Registers : s # "EAX" => m1.reg[s] = m.reg[s]
  <2>1. m1 = MovReg(m, "EAX", this) /\ "EAX" \in Registers /\ this \in Words
    BY <1>1, <1>2, <1>4 DEF Word
  <2> QED  BY <2>1, MovRegIs
<1>6. PICK m2 : m2 = MovReg(m1, "EBX", Word(m1, 2))
  OBVIOUS
<1>7. /\ m2 \in Machines /\ m2.mem = m.mem /\ m2.reg["EBX"] = Kernel
      /\ m2.reg["EAX"] = this
  <2>1. Word(m1, 2) = Kernel
    BY <1>2, <1>5 DEF Word
  <2>2. /\ m2 = MovReg(m1, "EBX", Kernel) /\ m1 \in Machines /\ Kernel \in Words
        /\ "EBX" \in Registers /\ "EAX" \in Registers /\ "EAX" # "EBX"
    BY <1>1, <1>2, <1>5, <1>6, <2>1
  <2>3. /\ m2 \in Machines /\ m2.mem = m1.mem /\ m2.reg["EBX"] = Kernel
        /\ \A s \in Registers : s # "EBX" => m2.reg[s] = m1.reg[s]
    BY <2>2, MovRegIs
  <2> QED  BY <1>5, <2>2, <2>3
<1>8. PICK c : c = LoadPointers(m2, "EBX")
  OBVIOUS
<1>9. PICK m3 : m3 = LoadCounters(c, "EBX")
  OBVIOUS
<1>10. LoadedFrom(c, m2, Kernel, {"EDI", "ESI", "EBP", "ESP"})
  BY <1>1, <1>2, <1>7, <1>8, LoadPointersIs
<1>11. LoadedFrom(m3, m2, Kernel, {"EDI", "ESI", "EBP", "ESP"} \union {"EDX", "ECX"})
  BY <1>1, <1>2, <1>7, <1>9, <1>10, LoadCountersIs
<1>12. /\ m3 \in Machines /\ m3.mem = m.mem /\ m3.reg["EAX"] = this /\ m3.reg["EBX"] = Kernel
       /\ m3.reg["ESP"] = Kernel + (PageWords - 5)
       /\ \A r \in {"EDI", "ESI", "EBP"} : m3.reg[r] = m.mem[Kernel + RegisterField[r]]
  BY <1>2, <1>7, <1>11, RegistersAre DEF LoadedFrom
<1>13. PICK w \in Words : w = m3.mem[Kernel + RegisterField["EAX"]]
  BY <1>2, <1>3, <1>12 DEF Machines
<1>14. PICK m4 : m4 = Push(m3, w)
  OBVIOUS
<1>15. /\ m4 \in Machines /\ m4.reg["ESP"] = Kernel + (PageWords - 6)
       /\ \A s \in Registers : s # "ESP" => m4.reg[s] = m3.reg[s]
       /\ \A b \in Addresses : b # Kernel + (PageWords - 6) => m4.mem[b] = m3.mem[b]
  <2>1. PICK j \in 1 .. PageWords : j = PageWords - 5
    BY <1>1
  <2>2. /\ m3.reg["ESP"] = Kernel + j /\ m3 \in Machines /\ j - 1 = PageWords - 6
        /\ Kernel \in Contexts
    BY <1>1, <1>12, <2>1
  <2>3. /\ m4 \in Machines /\ m4.reg["ESP"] = Kernel + (j - 1)
        /\ \A s \in Registers : s # "ESP" => m4.reg[s] = m3.reg[s]
        /\ \A b \in Addresses : b # Kernel + (j - 1) => m4.mem[b] = m3.mem[b]
    BY <1>13, <1>14, <2>1, <2>2, PushAt
  <2> QED  BY <2>2, <2>3
<1>16. PICK m5 : m5 = Load(m4, "EBX", "EBX")
  OBVIOUS
<1>17. /\ m5 \in Machines /\ m5.mem = m4.mem
       /\ m5.reg["EBX"] = m4.mem[Kernel + RegisterField["EBX"]]
       /\ \A s \in Registers : s # "EBX" => m5.reg[s] = m4.reg[s]
  BY <1>1, <1>2, <1>12, <1>15, <1>16, LoadIs
<1>18. m5.reg["EBX"] = m.mem[Kernel + RegisterField["EBX"]]
  BY <1>2, <1>3, <1>12, <1>15, <1>17
<1>19. /\ m5.reg["ESP"] = Kernel + (PageWords - 6) /\ m5.reg["EAX"] = this
       /\ \A r \in CalleeSaved \ {"ESP"} : m5.reg[r] = m.mem[Kernel + RegisterField[r]]
  BY <1>2, <1>12, <1>15, <1>17, <1>18 DEF CalleeSaved
<1>20. PICK m6 : m6 = Push(m5, this)
  OBVIOUS
<1>21. /\ m6 \in Machines /\ m6.reg["ESP"] = Kernel + (PageWords - 7)
       /\ \A s \in Registers : s # "ESP" => m6.reg[s] = m5.reg[s]
       /\ m6.mem[Kernel + (PageWords - 7)] = this
       /\ \A b \in Addresses : b # Kernel + (PageWords - 7) => m6.mem[b] = m5.mem[b]
  <2>1. PICK j \in 1 .. PageWords : j = PageWords - 6
    BY <1>1
  <2>2. /\ m5.reg["ESP"] = Kernel + j /\ m5 \in Machines /\ j - 1 = PageWords - 7
        /\ Kernel \in Contexts /\ this \in Words
    BY <1>1, <1>17, <1>19, <2>1
  <2>3. /\ m6 \in Machines /\ m6.reg["ESP"] = Kernel + (j - 1)
        /\ \A s \in Registers : s # "ESP" => m6.reg[s] = m5.reg[s]
        /\ m6.mem[Kernel + (j - 1)] = this
        /\ \A b \in Addresses : b # Kernel + (j - 1) => m6.mem[b] = m5.mem[b]
    BY <1>20, <2>1, <2>2, PushAt
  <2> QED  BY <2>2, <2>3
<1>22. n = Push(m6, InDealloc)
  <2> DEFINE d1 == MovReg(m, "EAX", Word(m, 1))
             d2 == MovReg(d1, "EBX", Word(d1, 2))
             d3 == LoadCounters(LoadPointers(d2, "EBX"), "EBX")
             d4 == Push(d3, d3.mem[d3.reg["EBX"] + RegisterField["EAX"]])
             d5 == Load(d4, "EBX", "EBX")
  <2>1. n = Push(Push(d5, d5.reg["EAX"]), InDealloc)
    BY DEF DeallocHead
  <2>2. m1 = d1
    BY <1>4
  <2> HIDE DEF d1
  <2>3. m2 = d2
    BY <1>6, <2>2
  <2> HIDE DEF d2
  <2>4. m3 = d3
    BY <1>8, <1>9, <2>3
  <2> HIDE DEF d3
  <2>5. m4 = d4
    BY <1>12, <1>13, <1>14, <2>4
  <2> HIDE DEF d4
  <2>6. m5 = d5
    BY <1>16, <2>5
  <2> HIDE DEF d5
  <2> QED  BY <1>19, <1>20, <2>1, <2>6
<1>23. /\ n \in Machines /\ n.reg["ESP"] = Kernel + (PageWords - 8)
       /\ \A s \in Registers : s # "ESP" => n.reg[s] = m6.reg[s]
       /\ \A b \in Addresses : b # Kernel + (PageWords - 8) => n.mem[b] = m6.mem[b]
  <2>1. PageWords - 7 \in 1 .. PageWords /\ PageWords - 7 - 1 = PageWords - 8
    BY <1>1
  <2>2. InDealloc \in Words
    BY DEF Words, Labels
  <2> QED  BY <1>1, <1>21, <1>22, <2>1, <2>2, PushAt
<1>24. n.mem[Kernel + (PageWords - 7)] = this
  <2>1. PageWords - 7 \in 0 .. PageWords - 1
    BY <1>1
  <2>2. Kernel + (PageWords - 7) \in Addresses
    BY <1>1, <2>1, WordsOfPages
  <2>3. Kernel + (PageWords - 7) # Kernel + (PageWords - 8)
    BY <1>1
  <2> QED  BY <1>21, <1>23, <2>2, <2>3
<1>25. \A r \in CalleeSaved \ {"ESP"} : n.reg[r] = m.mem[Kernel + RegisterField[r]]
  BY <1>2, <1>19, <1>21, <1>23 DEF CalleeSaved
<1>26. \A b \in Addresses :
         (\A k \in 6 .. 8 : b # Kernel + (PageWords - k)) => n.mem[b] = m.mem[b]
  BY <1>12, <1>15, <1>17, <1>21, <1>23
<1> QED  BY <1>23, <1>24, <1>25, <1>26

\* It returns to the caller of _resume_task with the registers memory_free_page
\* left, but for EAX.
LEMMA DeallocTailIs ==
  ASSUME NEW m \in Machines, m.reg["ESP"] = Kernel + (PageWords - 7),
         NEW n, n = DeallocTail(m)
  PROVE  /\ n \in Machines /\ n.mem = m.mem
         /\ n.reg["ESP"] = Kernel + (PageWords - 4)
         /\ \A s \in Registers : s \notin {"ESP", "EAX"} => n.reg[s] = m.reg[s]
<1>1. Kernel \in Nat /\ Kernel \in Contexts /\ PageWords \in Int /\ PageWords >= 20
  BY PagesApart, Sizes DEF Contexts
<1>2. PICK m1 : m1 = AddEsp(m, 1)
  OBVIOUS
<1>3. /\ m1 \in Machines /\ m1.mem = m.mem
      /\ m1.reg["ESP"] = Kernel + (PageWords - 6)
      /\ \A s \in Registers : s # "ESP" => m1.reg[s] = m.reg[s]
  <2>1. PageWords - 7 \in Nat /\ 1 \in Nat /\ PageWords - 7 + 1 = PageWords - 6
    BY <1>1
  <2> QED  BY <1>1, <1>2, <2>1, EspUpIs
<1>4. PICK m2 : m2 = Pop(m1, "EAX")
  OBVIOUS
<1>5. PICK sp \in Addresses : sp = Kernel + (PageWords - 6)
  <2>1. PageWords - 6 \in 0 .. PageWords - 1
    BY <1>1
  <2> QED  BY <1>1, <2>1, WordsOfPages
<1>6. /\ m2 \in Machines /\ m2.mem = m1.mem /\ m2.reg["ESP"] = sp + 1
      /\ \A s \in Registers : s \notin {"ESP", "EAX"} => m2.reg[s] = m1.reg[s]
  <2>1. "EAX" \in Registers \ {"ESP"} /\ m1.reg["ESP"] = sp
    BY <1>3, <1>5, RegistersAre
  <2> QED  BY <1>3, <1>4, <2>1, PopIs
<1>7. sp + 1 = Kernel + (PageWords - 5)
  BY <1>1, <1>5
<1>8. n = AddEsp(m2, 1)
  BY <1>2, <1>4 DEF DeallocTail
<1>9. /\ n \in Machines /\ n.mem = m2.mem
      /\ n.reg["ESP"] = Kernel + (PageWords - 4)
      /\ \A s \in Registers : s # "ESP" => n.reg[s] = m2.reg[s]
  <2>1. PageWords - 5 \in Nat /\ 1 \in Nat /\ PageWords - 5 + 1 = PageWords - 4
    BY <1>1
  <2> QED  BY <1>1, <1>6, <1>7, <1>8, <2>1, EspUpIs
<1> QED  BY <1>3, <1>6, <1>9

-----------------------------------------------------------------------------
(***************************************************************************)
(* Labels, and what Scheduler says of the quiet steps                      *)
(***************************************************************************)
RegistersStep ==
  /\ (pc # "task" /\ pc' = "task" /\ pc # "add") =>
       LET before == called[PageOf(reg'["ESP"])]
       IN  before # <<>> => reg' = before
  /\ pc' = "resumed" =>
       \A r \in CalleeSaved : reg'[r] = called[Kernel][r]

\* scheduler_run begins here when it does in Scheduler.
LEMMA RunSchedules ==
  ASSUME Run PROVE Scheduling!Next
<1>1. Scheduling!Run
  BY DEF Run, Scheduling!Run, poolVars, history, next_task, Scheduling!poolVars,
         Scheduling!links
<1> QED  BY <1>1 DEF Scheduling!Next

\* It returns here when it does in Scheduler.
LEMMA RunReturnsSchedules ==
  ASSUME RunReturns PROVE Scheduling!Next
<1>1. Scheduling!RunReturns
  BY DEF RunReturns, Scheduling!RunReturns, poolVars, history, next_task,
         Scheduling!poolVars, Scheduling!links
<1> QED  BY <1>1 DEF Scheduling!Next, Scheduling!KernelStep

\* Memory runs out here when it does in Scheduler.
LEMMA OutOfMemorySchedules ==
  ASSUME AddOutOfMemory PROVE Scheduling!Next
<1>1. Scheduling!AddOutOfMemory
  BY DEF AddOutOfMemory, Scheduling!AddOutOfMemory, history, next_task, Scheduling!links,
         Pool!OutOfMemory, Scheduling!Pool!OutOfMemory
<1> QED  BY <1>1 DEF Scheduling!Next, Scheduling!SchedulerAddProcess

\* Words of different pages, or of different numbers, are apart.
LEMMA WordsApart ==
  ASSUME NEW p \in Contexts, NEW q \in Contexts,
         NEW i \in 0 .. PageWords - 1, NEW j \in 0 .. PageWords - 1,
         p + i = q + j
  PROVE  p = q /\ i = j
  BY PagesApart, Sizes

\* One more element is at most one more.
LEMMA OneMore ==
  ASSUME NEW S, NEW x, NEW n \in Nat, IsFiniteSet(S), Cardinality(S) <= n
  PROVE  IsFiniteSet(S \union {x}) /\ Cardinality(S \union {x}) <= n + 1
<1>1. Cardinality(S) \in Nat
  BY FS_CardinalityType
<1> QED  BY <1>1, FS_AddElement

\* Six names have at most six values.
LEMMA NotSeven ==
  ASSUME NEW a, NEW b, NEW c, NEW d, NEW e, NEW f
  PROVE  Cardinality({a, b, c, d, e, f}) # 7
<1>1. IsFiniteSet({}) /\ Cardinality({}) <= 0
  BY FS_EmptySet
<1>2. IsFiniteSet({a}) /\ Cardinality({a}) <= 1
  <2>1. IsFiniteSet({} \union {a}) /\ Cardinality({} \union {a}) <= 0 + 1
    BY <1>1, OneMore
  <2>2. {} \union {a} = {a}
    OBVIOUS
  <2> QED  BY <2>1, <2>2
<1>3. IsFiniteSet({a, b}) /\ Cardinality({a, b}) <= 2
  <2>1. IsFiniteSet({a} \union {b}) /\ Cardinality({a} \union {b}) <= 1 + 1
    BY <1>2, OneMore
  <2>2. {a} \union {b} = {a, b}
    OBVIOUS
  <2> QED  BY <2>1, <2>2
<1>4. IsFiniteSet({a, b, c}) /\ Cardinality({a, b, c}) <= 3
  <2>1. IsFiniteSet({a, b} \union {c}) /\ Cardinality({a, b} \union {c}) <= 2 + 1
    BY <1>3, OneMore
  <2>2. {a, b} \union {c} = {a, b, c}
    OBVIOUS
  <2> QED  BY <2>1, <2>2
<1>5. IsFiniteSet({a, b, c, d}) /\ Cardinality({a, b, c, d}) <= 4
  <2>1. IsFiniteSet({a, b, c} \union {d}) /\ Cardinality({a, b, c} \union {d}) <= 3 + 1
    BY <1>4, OneMore
  <2>2. {a, b, c} \union {d} = {a, b, c, d}
    OBVIOUS
  <2> QED  BY <2>1, <2>2
<1>6. IsFiniteSet({a, b, c, d, e}) /\ Cardinality({a, b, c, d, e}) <= 5
  <2>1. IsFiniteSet({a, b, c, d} \union {e}) /\ Cardinality({a, b, c, d} \union {e}) <= 4 + 1
    BY <1>5, OneMore
  <2>2. {a, b, c, d} \union {e} = {a, b, c, d, e}
    OBVIOUS
  <2> QED  BY <2>1, <2>2
<1>7. Cardinality({a, b, c, d, e, f}) <= 6
  <2>1. Cardinality({a, b, c, d, e} \union {f}) <= 5 + 1
    BY <1>6, OneMore
  <2>2. {a, b, c, d, e} \union {f} = {a, b, c, d, e, f}
    OBVIOUS
  <2> QED  BY <2>1, <2>2
<1> QED  BY <1>7

\* The labels a RET can meet tell where it goes.
LEMMA LabelsApart ==
  /\ Labels \subseteq Words /\ \A l \in Labels : l \notin Int
  /\ Code # InYield /\ InRun # InYield
  /\ Where(Code) = "task" /\ Where(InTask) = "task"
  /\ Where(CleanupTask) = "cleanup" /\ Where(InRun) = "resumed"
<1>1. Cardinality(Labels) = 7
  BY LabelsAssumption
<1>2. Code # InYield
  <2> SUFFICES ASSUME Code = InYield PROVE FALSE
    OBVIOUS
  <2>1. Labels = {Code, CleanupTask, InTask, InRun, InDealloc, InC}
    BY DEF Labels
  <2> QED  BY <1>1, <2>1, NotSeven
<1>3. InRun # InYield
  <2> SUFFICES ASSUME InRun = InYield PROVE FALSE
    OBVIOUS
  <2>1. Labels = {Code, CleanupTask, InTask, InRun, InDealloc, InC}
    BY DEF Labels
  <2> QED  BY <1>1, <2>1, NotSeven
<1>4. CleanupTask # Code
  <2> SUFFICES ASSUME CleanupTask = Code PROVE FALSE
    OBVIOUS
  <2>1. Labels = {Code, InYield, InTask, InRun, InDealloc, InC}
    BY DEF Labels
  <2> QED  BY <1>1, <2>1, NotSeven
<1>5. CleanupTask # InTask
  <2> SUFFICES ASSUME CleanupTask = InTask PROVE FALSE
    OBVIOUS
  <2>1. Labels = {Code, InYield, InTask, InRun, InDealloc, InC}
    BY DEF Labels
  <2> QED  BY <1>1, <2>1, NotSeven
<1>6. InRun # Code
  <2> SUFFICES ASSUME InRun = Code PROVE FALSE
    OBVIOUS
  <2>1. Labels = {Code, InYield, InTask, CleanupTask, InDealloc, InC}
    BY DEF Labels
  <2> QED  BY <1>1, <2>1, NotSeven
<1>7. InRun # InTask
  <2> SUFFICES ASSUME InRun = InTask PROVE FALSE
    OBVIOUS
  <2>1. Labels = {Code, InYield, InTask, CleanupTask, InDealloc, InC}
    BY DEF Labels
  <2> QED  BY <1>1, <2>1, NotSeven
<1>8. InRun # CleanupTask
  <2> SUFFICES ASSUME InRun = CleanupTask PROVE FALSE
    OBVIOUS
  <2>1. Labels = {Code, InYield, InTask, CleanupTask, InDealloc, InC}
    BY DEF Labels
  <2> QED  BY <1>1, <2>1, NotSeven
<1>9. Labels \subseteq Words /\ \A l \in Labels : l \notin Int
  BY LabelsAssumption DEF Words
<1> QED  BY <1>2, <1>3, <1>4, <1>5, <1>6, <1>7, <1>8, <1>9 DEF Where

-----------------------------------------------------------------------------
(***************************************************************************)
(* What a step leaves alone                                                *)
(***************************************************************************)
\* What StacksKept says of one task
StackKept(p) ==
  /\ mem[p + SchedulerField] = Kernel
  /\ mem[p + PageWords - 1] = CleanupTask
  /\ \A i \in DOMAIN locals[p] : mem[p + PageWords - 1 - i] = locals[p][i]

\* What KernelWaits says of the kernel
KernelSaved ==
  /\ Saved(Kernel, Top(Kernel) - 4)
  /\ called[Kernel]["ESP"] = Top(Kernel) - 2
  /\ mem[Top(Kernel) - 3] = InRun

\* A step leaves what matters of a task's page, of the kernel's, or of the links.
PageKept(p) ==
  \A i \in 0 .. PageWords - 1 :
    i \notin {NextField, PreviousField} => mem'[p + i] = mem[p + i]

KernelKept ==
  \A i \in 0 .. PageWords - 1 :
    i \in 3 .. 10 \/ i = PageWords - 4 => mem'[Kernel + i] = mem[Kernel + i]

LinksKept ==
  \A p \in TaskPages : /\ mem'[p + NextField] = mem[p + NextField]
                       /\ mem'[p + PreviousField] = mem[p + PreviousField]

\* What the fields are called
LEMMA OtherFieldsAre ==
  SchedulerField = 0 /\ NextField = 1 /\ PreviousField = 2 /\ NextTask = Kernel + 11
  BY DEF SchedulerField, NextField, PreviousField, NextTask, TaskWords

\* What a task keeps on its stack lies above the stack pointer.
LEMMA StackAbove ==
  ASSUME SwitchTypes, NEW p \in TaskPages, locals'[p] = locals[p], StackKept(p),
         \A i \in 0 .. PageWords - 1 :
           i = 0 \/ i >= PageWords - 1 - Len(locals[p]) => mem'[p + i] = mem[p + i]
  PROVE  StackKept(p)'
<1>1. p \in Nat /\ PageWords \in Nat /\ PageWords >= 20
  BY PagesApart, Sizes DEF Contexts
<1>2. PICK n \in Nat : n = Len(locals[p]) /\ n <= Locals
  BY DEF SwitchTypes
<1>3. mem'[p + 0] = mem[p + 0] /\ mem'[p + (PageWords - 1)] = mem[p + (PageWords - 1)]
  <2>1. /\ 0 \in 0 .. PageWords - 1 /\ PageWords - 1 \in 0 .. PageWords - 1
        /\ PageWords - 1 >= PageWords - 1 - n
    BY <1>1, <1>2
  <2> QED  BY <1>2, <2>1
<1>4. p + PageWords - 1 = p + (PageWords - 1) /\ p + SchedulerField = p + 0
  BY <1>1, OtherFieldsAre
<1>5. \A i \in DOMAIN locals[p] : mem'[p + PageWords - 1 - i] = mem[p + PageWords - 1 - i]
  <2> SUFFICES ASSUME NEW i \in DOMAIN locals[p]
               PROVE  mem'[p + PageWords - 1 - i] = mem[p + PageWords - 1 - i]
    OBVIOUS
  <2>1. locals[p] \in Seq(Int)
    BY DEF SwitchTypes
  <2>2. i \in Nat /\ 1 <= i /\ i <= n
    BY <1>2, <2>1
  <2>3. /\ PageWords - 1 - i \in 0 .. PageWords - 1 /\ PageWords - 1 - i >= PageWords - 1 - n
        /\ p + PageWords - 1 - i = p + (PageWords - 1 - i)
    BY <1>1, <1>2, <2>2, Sizes
  <2> QED  BY <1>2, <2>3
<1> QED  BY <1>3, <1>4, <1>5 DEF StackKept

\* A task whose page is left alone keeps its stack.
LEMMA StackFramed ==
  ASSUME SwitchTypes, NEW p \in TaskPages, PageKept(p), locals'[p] = locals[p],
         StackKept(p)
  PROVE  StackKept(p)'
<1>1. PICK n \in Nat : n = Len(locals[p]) /\ n <= Locals
  BY DEF SwitchTypes
<1>2. \A i \in 0 .. PageWords - 1 :
        i = 0 \/ i >= PageWords - 1 - n => mem'[p + i] = mem[p + i]
  BY <1>1, Sizes, OtherFieldsAre DEF PageKept
<1> QED  BY <1>1, <1>2, StackAbove

\* A page whose register fields are left alone keeps them.
LEMMA FieldsFramed ==
  ASSUME NEW p \in Contexts, NEW r \in Registers,
         \A i \in 0 .. PageWords - 1 : i \in 3 .. 10 => mem'[p + i] = mem[p + i]
  PROVE  mem'[p + RegisterField[r]] = mem[p + RegisterField[r]]
<1>1. RegisterField[r] \in 3 .. 10
  BY FieldsAre
<1>2. RegisterField[r] \in 0 .. PageWords - 1
  BY <1>1, Sizes
<1> QED  BY <1>1, <1>2

\* A task whose page is left alone goes on waiting.
LEMMA WaitsFramed ==
  ASSUME SwitchTypes, NEW p \in TaskPages, PageKept(p), locals'[p] = locals[p],
         called'[p] = called[p], Waits(p)
  PROVE  Waits(p)'
<1>1. p \in Nat /\ p \in Contexts /\ PageWords \in Nat /\ PageWords >= 20
  BY PagesApart, Sizes DEF Contexts
<1>2. \A i \in 0 .. PageWords - 1 : i > 2 => mem'[p + i] = mem[p + i]
  BY OtherFieldsAre DEF PageKept
<1>3. \A r \in Registers : mem'[p + RegisterField[r]] = mem[p + RegisterField[r]]
  <2>1. \A i \in 0 .. PageWords - 1 : i \in 3 .. 10 => mem'[p + i] = mem[p + i]
    BY <1>2
  <2> QED  BY <1>1, <2>1, FieldsFramed
<1>4. mem'[p + RegisterField["ESP"]] = mem[p + RegisterField["ESP"]]
  BY <1>3, RegistersAre
<1>5. PICK n \in Nat : n = Len(locals[p]) /\ n <= Locals
  BY DEF SwitchTypes
<1>6. /\ PageWords - 2 \in 0 .. PageWords - 1 /\ PageWords - 2 > 2
      /\ PageWords - n - 2 \in 0 .. PageWords - 1 /\ PageWords - n - 2 > 2
      /\ PageWords - n - 7 \in 0 .. PageWords - 1 /\ PageWords - n - 7 > 2
  BY <1>1, <1>5, Sizes
<1>7. /\ mem'[p + (PageWords - 2)] = mem[p + (PageWords - 2)]
      /\ mem'[p + (PageWords - n - 2)] = mem[p + (PageWords - n - 2)]
      /\ mem'[p + (PageWords - n - 7)] = mem[p + (PageWords - n - 7)]
  BY <1>2, <1>6
<1>8. /\ Top(p) - 1 = p + (PageWords - 2)
      /\ (Top(p) - n) - 1 = p + (PageWords - n - 2)
      /\ (Top(p) - n) - 6 = p + (PageWords - n - 7)
  BY <1>1, <1>5 DEF Top
<1>9. CASE called[p] = <<>>
  BY <1>4, <1>7, <1>8, <1>9 DEF Waits, Fresh
<1>10. CASE called[p] # <<>>
  <2>1. Yielded(p)
    BY <1>10 DEF Waits
  <2>2. Yielded(p)'
    BY <1>3, <1>4, <1>5, <1>7, <1>8, <2>1 DEF Yielded, Saved
  <2> QED  BY <1>10, <2>2 DEF Waits
<1> QED  BY <1>9, <1>10

\* So does the kernel.
LEMMA KernelFramed ==
  ASSUME KernelKept, called'[Kernel] = called[Kernel], KernelSaved
  PROVE  KernelSaved'
<1>1. Kernel \in Nat /\ Kernel \in Contexts /\ PageWords \in Nat /\ PageWords >= 20
  BY PagesApart, Sizes DEF Contexts
<1>2. \A r \in Registers : mem'[Kernel + RegisterField[r]] = mem[Kernel + RegisterField[r]]
  BY <1>1, FieldsFramed DEF KernelKept
<1>3. mem'[Kernel + RegisterField["ESP"]] = mem[Kernel + RegisterField["ESP"]]
  BY <1>2, RegistersAre
<1>4. PageWords - 4 \in 0 .. PageWords - 1 /\ Top(Kernel) - 3 = Kernel + (PageWords - 4)
  BY <1>1 DEF Top
<1>5. mem'[Top(Kernel) - 3] = mem[Top(Kernel) - 3]
  BY <1>4 DEF KernelKept
<1> QED  BY <1>2, <1>3, <1>5 DEF KernelSaved, Saved

\* Links of live tasks that are left alone still make a ring.
LEMMA RingFramed ==
  ASSUME RingIsLive, Live' = Live, next_task' = next_task, owned \subseteq TaskPages,
         \A p \in Live : /\ mem'[p + NextField] = mem[p + NextField]
                         /\ mem'[p + PreviousField] = mem[p + PreviousField],
         \A p \in TaskPages : mem'[p + NextField] \in Links /\ mem'[p + PreviousField] \in Links
  PROVE  RingIsLive'
<1>1. next_task' \in Live' \union {0}
  BY DEF RingIsLive
<1>2. ASSUME NEW p \in Live'
      PROVE  /\ mem'[p + NextField] \in Live'
             /\ mem'[mem'[p + NextField] + PreviousField] = p
             /\ mem'[p + PreviousField] \in Live'
             /\ mem'[mem'[p + PreviousField] + NextField] = p
  <2>1. p \in Live
    BY <1>2
  <2> QED  BY <2>1 DEF RingIsLive
<1> QED  BY <1>1, <1>2 DEF RingIsLive

\* Where the stack pointer is when a task runs
LEMMA OnStack ==
  ASSUME SwitchTypes, TaskRuns
  PROVE  /\ next_task \in TaskPages /\ next_task \in owned
         /\ next_task # task /\ next_task # current
         /\ Len(locals[next_task]) \in 0 .. Locals
         /\ reg["ESP"] = next_task + (PageWords - 1 - Len(locals[next_task]))
         /\ PageWords - 1 - Len(locals[next_task]) \in 18 .. PageWords - 1
         /\ PageOf(reg["ESP"]) = next_task
         /\ reg["ESP"] # Top(Kernel)
<1>1. next_task \in TaskPages /\ next_task \in owned /\ next_task # task /\ next_task # current
  BY DEF TaskRuns, Live, SwitchTypes
<1>2. PICK p \in TaskPages : p = next_task
  BY <1>1
<1>3. p \in Nat /\ p \in Contexts /\ PageWords \in Nat /\ Locals \in Nat
        /\ PageWords >= 19 + Locals
  BY <1>2, PagesApart, Sizes DEF Contexts
<1>4. PICK n \in Nat : n = Len(locals[p]) /\ n <= Locals
  BY <1>2 DEF SwitchTypes
<1>5. PageWords - 1 - n \in 18 .. PageWords - 1
  BY <1>3, <1>4
<1>6. reg["ESP"] = p + (PageWords - 1 - n)
  BY <1>2, <1>3, <1>4 DEF TaskRuns, Top
<1>7. PageOf(p + (PageWords - 1 - n)) = p
  <2>1. PageWords - 1 - n \in 0 .. PageWords - 1
    BY <1>5
  <2> QED  BY <1>3, <2>1, PageOfWord
<1>8. reg["ESP"] # Top(Kernel)
  <2>1. Kernel \in Contexts /\ p # Kernel /\ Kernel \in Nat
    BY <1>2, PagesApart DEF Contexts
  <2>2. p + PageWords <= Kernel \/ Kernel + PageWords <= p
    BY <1>3, <2>1, PagesApart
  <2> QED  BY <1>3, <1>5, <1>6, <2>1, <2>2 DEF Top
<1>9. Len(locals[p]) \in 0 .. Locals
  BY <1>3, <1>4
<1>10. /\ reg["ESP"] = p + (PageWords - 1 - Len(locals[p]))
       /\ PageWords - 1 - Len(locals[p]) \in 18 .. PageWords - 1
       /\ PageOf(reg["ESP"]) = p
  BY <1>4, <1>5, <1>6, <1>7
<1> QED  BY <1>1, <1>2, <1>8, <1>9, <1>10

\* Where the kernel's stack pointer may be is in the kernel's page.
LEMMA KernelStackIs ==
  /\ PageOf(Top(Kernel)) = Kernel /\ PageOf(Top(Kernel) - 2) = Kernel
  /\ PageOf(Top(Kernel) - 7) = Kernel
  /\ Top(Kernel) \in Int /\ Kernel \in Contexts
<1>1. Kernel \in Nat /\ Kernel \in Contexts /\ PageWords \in Nat /\ PageWords >= 20
  BY PagesApart, Sizes DEF Contexts
<1>2. /\ PageWords - 1 \in 0 .. PageWords - 1 /\ PageWords - 3 \in 0 .. PageWords - 1
      /\ PageWords - 8 \in 0 .. PageWords - 1
  BY <1>1
<1>3. /\ PageOf(Kernel + (PageWords - 1)) = Kernel /\ PageOf(Kernel + (PageWords - 3)) = Kernel
      /\ PageOf(Kernel + (PageWords - 8)) = Kernel
  BY <1>1, <1>2, PageOfWord
<1>4. /\ Top(Kernel) = Kernel + (PageWords - 1) /\ Top(Kernel) - 2 = Kernel + (PageWords - 3)
      /\ Top(Kernel) - 7 = Kernel + (PageWords - 8)
  BY <1>1 DEF Top
<1> QED  BY <1>1, <1>3, <1>4

-----------------------------------------------------------------------------
(***************************************************************************)
(* Steps that do not touch memory                                          *)
(***************************************************************************)
\* What is shown of every step
Scheduled == [Scheduling!Next]_Scheduling!vars

StepIsRight == SwitchInv' /\ RegistersStep /\ Scheduled

\* A step that leaves the links, the pool and the stack pointer is none in Scheduler.
LEMMA QuietStep ==
  ASSUME UNCHANGED <<poolVars, pc, task, current>>, next_task' = next_task, LinksKept,
         PageOf(reg["ESP"])' = PageOf(reg["ESP"])
  PROVE  Scheduled
<1>1. [p \in TaskPages |-> mem[p + NextField]]' = [p \in TaskPages |-> mem[p + NextField]]
  BY DEF LinksKept
<1>2. [p \in TaskPages |-> mem[p + PreviousField]]'
        = [p \in TaskPages |-> mem[p + PreviousField]]
  BY DEF LinksKept
<1>3. UNCHANGED Scheduling!vars
  BY <1>1, <1>2 DEF poolVars, Scheduling!vars, Scheduling!poolVars, Scheduling!links
<1> QED  BY <1>3 DEF Scheduled

\* Code uses its registers.
LEMMA ComputeIsRight ==
  ASSUME SwitchInv, NEW g \in {0, 1}, Compute(g)
  PROVE  StepIsRight
<1> USE DEF Compute, poolVars, history
<1>1. reg["ESP"] \in Int
  <2>1. pc \in {"caller", "run"} => reg["ESP"] = Top(Kernel)
    BY DEF SwitchInv, Control
  <2>2. CASE pc = "task"
    <3>1. TaskRuns /\ SwitchTypes
      BY <2>2 DEF SwitchInv, Control
    <3>2. PICK p \in TaskPages : p = next_task
      BY <3>1, OnStack
    <3>3. reg["ESP"] = p + (PageWords - 1 - Len(locals[p]))
      BY <3>1, <3>2, OnStack
    <3>4. p \in Nat /\ PageWords - 1 - Len(locals[p]) \in 18 .. PageWords - 1
      BY <3>1, <3>2, OnStack, PagesApart DEF Contexts
    <3> QED  BY <3>3, <3>4
  <2> QED  BY <2>1, <2>2, KernelStackIs
<1>2. reg' \in [Registers -> Words] /\ reg'["ESP"] = reg["ESP"]
  <2>1. PageOf(reg["ESP"]) \in Int
    BY <1>1, Sizes DEF PageOf
  <2>2. Computed(PageOf(reg["ESP"]), g) \in [Registers -> Words]
    BY <2>1, FieldsAre DEF Computed, Content, Words
  <2>3. reg["ESP"] \in Words /\ "ESP" \in Registers
    BY <1>1, RegistersAre DEF Words
  <2> QED  BY <2>2, <2>3
<1>3. SwitchTypes'
  BY <1>2 DEF SwitchInv, SwitchTypes
<1>4. RingIsLive'
  BY DEF SwitchInv, RingIsLive, Live, next_task
<1>5. Control'
  BY <1>2 DEF SwitchInv, Control, TaskRuns, Live, next_task
<1>6. StacksKept'
  BY DEF SwitchInv, StacksKept
<1>7. KernelWaits'
  BY <1>2 DEF SwitchInv, KernelWaits, InTaskCode, Saved
<1>8. TasksWait'
  BY <1>2 DEF SwitchInv, TasksWait, InTaskCode, Waits, Fresh, Yielded, Saved, next_task
<1>9. RegistersStep
  BY DEF RegistersStep
<1>10. Scheduled
  <2>1. PageOf(reg["ESP"])' = PageOf(reg["ESP"])
    BY <1>2 DEF PageOf
  <2> QED  BY <2>1, QuietStep DEF LinksKept, next_task
<1> QED  BY <1>3, <1>4, <1>5, <1>6, <1>7, <1>8, <1>9, <1>10 DEF StepIsRight, SwitchInv

\* Steps of scheduler_run and its caller that change pc alone, or the pool when it is empty
LEMMA RunIsRight ==
  ASSUME SwitchInv, Run \/ RunReturns \/ AddOutOfMemory
  PROVE  StepIsRight
<1> USE DEF Run, RunReturns, AddOutOfMemory, Pool!OutOfMemory, poolVars, history
<1>1. UNCHANGED <<free, owned, reg, mem, task, current, locals, called>>
  OBVIOUS
<1>2. SwitchTypes'
  BY <1>1 DEF SwitchInv, SwitchTypes
<1>3. RingIsLive'
  BY <1>1 DEF SwitchInv, RingIsLive, Live, next_task
<1>4. Control'
  BY <1>1 DEF SwitchInv, Control, TaskRuns, Live, next_task
<1>5. StacksKept'
  BY <1>1 DEF SwitchInv, StacksKept
<1>6. KernelWaits'
  BY <1>1 DEF SwitchInv, KernelWaits, InTaskCode, Saved
<1>7. TasksWait'
  <2>1. CASE Run \/ RunReturns
    BY <1>1, <2>1 DEF SwitchInv, TasksWait, InTaskCode, Waits, Fresh, Yielded, Saved, next_task
  <2>2. CASE AddOutOfMemory
    BY <2>2 DEF TasksWait
  <2> QED  BY <2>1, <2>2
<1>8. RegistersStep
  BY DEF RegistersStep
<1>9. Scheduled
  BY RunSchedules, RunReturnsSchedules, OutOfMemorySchedules DEF Scheduled
<1> QED  BY <1>2, <1>3, <1>4, <1>5, <1>6, <1>7, <1>8, <1>9 DEF StepIsRight, SwitchInv

-----------------------------------------------------------------------------
(***************************************************************************)
(* A task uses its own stack                                               *)
(***************************************************************************)
\* A step that writes to words I of page p leaves all others.
LEMMA OnlyWords ==
  ASSUME NEW p \in Contexts, NEW I \in SUBSET (0 .. PageWords - 1),
         \A b \in Addresses : (\A i \in I : b # p + i) => mem'[b] = mem[b],
         NEW q \in Contexts, NEW k \in 0 .. PageWords - 1, q # p \/ k \notin I
  PROVE  mem'[q + k] = mem[q + k]
<1>1. q + k \in Addresses
  BY WordsOfPages
<1>2. \A i \in I : q + k # p + i
  BY WordsApart
<1> QED  BY <1>1, <1>2

\* ... in the other tasks' pages, the links, next_task, and the kernel.
LEMMA OnlyOnePage ==
  ASSUME NEW p \in Contexts, NEW I \in SUBSET (3 .. PageWords - 1), p = Kernel => 11 \notin I,
         \A b \in Addresses : (\A i \in I : b # p + i) => mem'[b] = mem[b]
  PROVE  /\ \A q \in TaskPages : q # p => PageKept(q)
         /\ LinksKept /\ next_task' = next_task
         /\ p # Kernel => KernelKept
<1>1. I \in SUBSET (0 .. PageWords - 1) /\ TaskPages \subseteq Contexts /\ Kernel \in Contexts
  BY DEF Contexts
<1>2. \A q \in Contexts : \A k \in 0 .. PageWords - 1 :
        q # p \/ k \notin I => mem'[q + k] = mem[q + k]
  BY <1>1, OnlyWords
<1>3. \A q \in TaskPages : q # p => PageKept(q)
  BY <1>1, <1>2 DEF PageKept
<1>4. /\ 1 \in 0 .. PageWords - 1 /\ 2 \in 0 .. PageWords - 1 /\ 11 \in 0 .. PageWords - 1
      /\ 1 \notin I /\ 2 \notin I
  BY Sizes
<1>5. LinksKept
  BY <1>1, <1>2, <1>4, OtherFieldsAre DEF LinksKept
<1>6. next_task' = next_task
  BY <1>1, <1>2, <1>4, OtherFieldsAre DEF next_task
<1>7. p # Kernel => KernelKept
  BY <1>1, <1>2 DEF KernelKept
<1> QED  BY <1>3, <1>5, <1>6, <1>7

\* The processor and the memory are a machine.
LEMMA MachineIs ==
  ASSUME SwitchTypes
  PROVE  Machine \in Machines /\ Machine.reg = reg /\ Machine.mem = mem
  BY DEF SwitchTypes, Machine, Machines

\* A task's code runs.
LEMMA TaskCode ==
  ASSUME SwitchInv, pc = "task"
  PROVE  /\ SwitchTypes /\ TaskRuns /\ RingIsLive /\ InTaskCode /\ KernelSaved
         /\ task = 0 /\ current = 0
<1>1. SwitchTypes /\ TaskRuns /\ RingIsLive /\ task = 0 /\ current = 0
  BY DEF SwitchInv, Control
<1>2. reg["ESP"] # Top(Kernel)
  BY <1>1, OnStack
<1>3. InTaskCode
  BY <1>2 DEF InTaskCode
<1>4. KernelSaved
  BY <1>3 DEF SwitchInv, KernelWaits, KernelSaved
<1> QED  BY <1>1, <1>3, <1>4

\* Links that are left alone make the same ring.
LEMMA RingKept ==
  ASSUME SwitchTypes, RingIsLive, UNCHANGED <<owned, task, current>>,
         next_task' = next_task, LinksKept
  PROVE  RingIsLive'
<1>1. Live' = Live /\ Live \subseteq TaskPages /\ owned \subseteq TaskPages
  BY DEF Live, SwitchTypes
<1>2. \A p \in Live : /\ mem'[p + NextField] = mem[p + NextField]
                     /\ mem'[p + PreviousField] = mem[p + PreviousField]
  BY <1>1 DEF LinksKept
<1>3. \A p \in TaskPages : /\ mem'[p + NextField] \in Links
                          /\ mem'[p + PreviousField] \in Links
  BY DEF LinksKept, RingIsLive
<1> QED  BY <1>1, <1>2, <1>3, RingFramed

\* A task's words are not the top of the kernel's stack.
LEMMA NotKernelStack ==
  ASSUME NEW p \in TaskPages, NEW i \in 0 .. PageWords - 1
  PROVE  p + i # Top(Kernel)
<1>1. p \in Contexts /\ Kernel \in Contexts /\ p # Kernel /\ p \in Nat /\ Kernel \in Nat
  BY PagesApart DEF Contexts
<1>2. p + PageWords <= Kernel \/ Kernel + PageWords <= p
  BY <1>1, PagesApart
<1> QED  BY <1>1, <1>2, Sizes DEF Top

\* A task keeps something on its stack.
LEMMA PushLocalIsRight ==
  ASSUME SwitchInv, NEW g \in {0, 1}, PushLocal(g)
  PROVE  StepIsRight
<1>1. /\ SwitchTypes /\ TaskRuns /\ pc = "task" /\ RingIsLive /\ KernelSaved
      /\ InTaskCode /\ task = 0 /\ current = 0
  BY TaskCode DEF PushLocal
<1>2. PICK p \in TaskPages : p = next_task
  BY <1>1, OnStack
<1>3. p \in Nat /\ p \in Contexts /\ p # Kernel /\ PageWords \in Nat
        /\ PageWords >= 19 + Locals /\ Locals \in Nat
  BY <1>2, PagesApart, Sizes DEF Contexts
<1>4. PICK n \in Nat : n = Len(locals[p]) /\ n < Locals
  BY <1>1, <1>2, OnStack DEF PushLocal
<1>5. /\ reg["ESP"] = p + (PageWords - 1 - n) /\ PageOf(reg["ESP"]) = p
      /\ p \in owned /\ reg["ESP"] # Top(Kernel)
  BY <1>1, <1>2, <1>4, OnStack
<1>6. PICK w \in Int : w = Content(p, PageWords - 2 - n, g)
  <2>1. Content(p, PageWords - 2 - n, g) \in Int
    BY <1>3, <1>4 DEF Content
  <2> QED  BY <2>1
<1>7. PICK i \in 18 .. PageWords - 1 : i = PageWords - 1 - n
  <2>1. PageWords - 1 - n \in 18 .. PageWords - 1
    BY <1>3, <1>4
  <2> QED  BY <2>1
<1>8. PICK m : m = Push(Machine, w)
  OBVIOUS
<1>9. /\ m \in Machines /\ m.reg["ESP"] = p + (i - 1)
      /\ m.mem[p + (i - 1)] = w
      /\ \A b \in Addresses : b # p + (i - 1) => m.mem[b] = mem[b]
  <2>1. i \in 1 .. PageWords /\ Machine.reg["ESP"] = p + i
    BY <1>1, <1>3, <1>5, <1>7, MachineIs
  <2>2. Machine \in Machines /\ w \in Words /\ Machine.mem = mem
    BY <1>1, <1>6, MachineIs DEF Words
  <2>3. /\ m \in Machines /\ m.reg["ESP"] = p + (i - 1)
        /\ m.mem[p + (i - 1)] = w
        /\ \A b \in Addresses : b # p + (i - 1) => m.mem[b] = Machine.mem[b]
    BY <1>3, <1>8, <2>1, <2>2, PushAt
  <2> QED  BY <2>2, <2>3
<1>10. /\ reg' = m.reg /\ mem' = m.mem /\ locals' = [locals EXCEPT ![p] = Append(@, w)]
       /\ UNCHANGED <<free, owned, halted, pc, task, current, called>>
  BY <1>4, <1>5, <1>6, <1>8 DEF PushLocal, Become, poolVars
<1>11. /\ reg' \in [Registers -> Words] /\ mem' \in [Addresses -> Words]
       /\ reg'["ESP"] = p + (i - 1) /\ mem'[p + (i - 1)] = w
       /\ \A b \in Addresses : b # p + (i - 1) => mem'[b] = mem[b]
  BY <1>9, <1>10 DEF Machines
<1>12. /\ \A q \in TaskPages : q # p => PageKept(q)
       /\ LinksKept /\ next_task' = next_task /\ KernelKept
  <2>1. {i - 1} \in SUBSET (3 .. PageWords - 1)
    BY <1>3, <1>7
  <2>2. \A b \in Addresses : (\A j \in {i - 1} : b # p + j) => mem'[b] = mem[b]
    BY <1>11
  <2> QED  BY <1>3, <2>1, <2>2, OnlyOnePage
<1>13. /\ locals' \in [TaskPages -> Seq(Int)]
       /\ locals'[p] = Append(locals[p], w) /\ Len(locals'[p]) = n + 1
       /\ \A q \in TaskPages : q # p => locals'[q] = locals[q]
  BY <1>1, <1>4, <1>6, <1>10 DEF SwitchTypes
<1>14. SwitchTypes'
  <2>1. \A q \in TaskPages : Len(locals'[q]) <= Locals
    BY <1>1, <1>3, <1>4, <1>13 DEF SwitchTypes
  <2> QED  BY <1>1, <1>10, <1>11, <1>13, <2>1 DEF SwitchTypes
<1>15. RingIsLive'
  BY <1>1, <1>10, <1>12, RingKept
<1>16. p + (i - 1) = Top(p) - Len(locals'[p])
  BY <1>3, <1>4, <1>7, <1>13 DEF Top
<1>17. TaskRuns'
  <2>1. next_task' = p /\ p \in Live'
    BY <1>1, <1>2, <1>10, <1>12 DEF TaskRuns, Live
  <2> QED  BY <1>11, <1>16, <2>1 DEF TaskRuns
<1>18. Control'
  BY <1>1, <1>10, <1>17 DEF Control
<1>19. StackKept(p)'
  <2>1. StackKept(p)
    BY <1>1, <1>2, <1>5, OnStack DEF SwitchInv, StacksKept, StackKept
  <2>2. /\ mem'[p + 0] = mem[p + 0] /\ mem'[p + (PageWords - 1)] = mem[p + (PageWords - 1)]
        /\ \A j \in 1 .. n : mem'[p + (PageWords - 1 - j)] = mem[p + (PageWords - 1 - j)]
    <3>1. /\ 0 \in 0 .. PageWords - 1 /\ PageWords - 1 \in 0 .. PageWords - 1
          /\ 0 # i - 1 /\ PageWords - 1 # i - 1
          /\ \A j \in 1 .. n : PageWords - 1 - j \in 0 .. PageWords - 1
               /\ PageWords - 1 - j # i - 1
      BY <1>3, <1>4, <1>7
    <3>2. \A k \in 0 .. PageWords - 1 : k # i - 1 => mem'[p + k] = mem[p + k]
      <4>1. \A k \in 0 .. PageWords - 1 : p + k \in Addresses
        BY <1>3, WordsOfPages
      <4>2. \A k \in 0 .. PageWords - 1 : k # i - 1 => p + k # p + (i - 1)
        BY <1>3, <1>7
      <4> QED  BY <1>11, <4>1, <4>2
    <3> QED  BY <3>1, <3>2
  <2>3. DOMAIN locals[p] = 1 .. n /\ DOMAIN locals'[p] = 1 .. n + 1
    BY <1>1, <1>4, <1>13 DEF SwitchTypes
  <2>4. \A j \in 1 .. n : locals'[p][j] = locals[p][j]
    BY <1>1, <1>4, <1>6, <1>13 DEF SwitchTypes
  <2>5. locals'[p][n + 1] = w
    BY <1>1, <1>4, <1>6, <1>13 DEF SwitchTypes
  <2>6. /\ p + PageWords - 1 = p + (PageWords - 1) /\ p + SchedulerField = p + 0
        /\ \A j \in 1 .. n + 1 : p + PageWords - 1 - j = p + (PageWords - 1 - j)
        /\ PageWords - 1 - (n + 1) = i - 1
    BY <1>3, <1>4, <1>7, OtherFieldsAre
  <2>7. \A j \in 1 .. n + 1 : mem'[p + PageWords - 1 - j] = locals'[p][j]
    <3> SUFFICES ASSUME NEW j \in 1 .. n + 1
                 PROVE  mem'[p + PageWords - 1 - j] = locals'[p][j]
      OBVIOUS
    <3>1. CASE j = n + 1
      BY <1>11, <2>5, <2>6, <3>1
    <3>2. CASE j # n + 1
      <4>1. j \in 1 .. n
        BY <3>2
      <4> QED  BY <2>1, <2>2, <2>3, <2>4, <2>6, <4>1 DEF StackKept
    <3> QED  BY <3>1, <3>2
  <2> QED  BY <2>1, <2>2, <2>3, <2>6, <2>7 DEF StackKept
<1>20. StacksKept'
  <2>1. \A q \in owned \ {current} : q # p => StackKept(q)'
    <3> SUFFICES ASSUME NEW q \in owned \ {current}, q # p
                 PROVE  StackKept(q)'
      OBVIOUS
    <3>1. StackKept(q) /\ q \in TaskPages
      BY <1>1 DEF SwitchInv, StacksKept, StackKept, SwitchTypes
    <3> QED  BY <1>1, <1>12, <1>13, <3>1, StackFramed
  <2>2. \A q \in owned' \ {current'} : StackKept(q)'
    BY <1>10, <1>19, <2>1
  <2> QED  BY <2>2 DEF StacksKept, StackKept
<1>21. KernelSaved'
  BY <1>1, <1>10, <1>12, KernelFramed
<1>22. TasksWait'
  <2>1. \A q \in owned \ {current} : q # p => Waits(q)'
    <3> SUFFICES ASSUME NEW q \in owned \ {current}, q # p
                 PROVE  Waits(q)'
      OBVIOUS
    <3>1. Waits(q) /\ q \in TaskPages
      BY <1>1, <1>2 DEF SwitchInv, TasksWait, SwitchTypes
    <3> QED  BY <1>1, <1>10, <1>12, <1>13, <3>1, WaitsFramed
  <2>2. InTaskCode' /\ next_task' = p
    <3>1. i - 1 \in 0 .. PageWords - 1
      BY <1>3, <1>7
    <3>2. reg'["ESP"] # Top(Kernel)
      BY <1>11, <3>1, NotKernelStack
    <3> QED  BY <1>1, <1>2, <1>10, <1>12, <3>2 DEF InTaskCode, Top, Kernel
  <2> QED  BY <1>10, <2>1, <2>2 DEF TasksWait
<1>23. RegistersStep
  BY <1>1, <1>10 DEF RegistersStep
<1>24. Scheduled
  <2>1. PageOf(reg["ESP"])' = PageOf(reg["ESP"])
    <3>1. i - 1 \in 0 .. PageWords - 1
      BY <1>3, <1>7
    <3>2. PageOf(p + (i - 1)) = p
      BY <1>3, <3>1, PageOfWord
    <3> QED  BY <1>5, <1>11, <3>2 DEF PageOf
  <2> QED  BY <1>10, <1>12, <2>1, QuietStep DEF poolVars
<1> QED
  BY <1>14, <1>15, <1>18, <1>20, <1>21, <1>22, <1>23, <1>24
     DEF StepIsRight, SwitchInv, KernelWaits, KernelSaved

\* What is left of a sequence without its last element
LEMMA FrontIs ==
  ASSUME NEW s \in Seq(Int), s # <<>>
  PROVE  /\ Front(s) \in Seq(Int) /\ Len(Front(s)) = Len(s) - 1
         /\ \A j \in 1 .. Len(s) - 1 : Front(s)[j] = s[j]
<1>1. Len(s) \in Nat \ {0}
  BY EmptySeq
<1>2. PICK n \in Nat : n = Len(s) - 1
  <2>1. Len(s) - 1 \in Nat
    BY <1>1
  <2> QED  BY <2>1
<1>3. Front(s) = SubSeq(s, 1, n)
  BY <1>2 DEF Front
<1>4. /\ SubSeq(s, 1, n) \in Seq(Int) /\ Len(SubSeq(s, 1, n)) = n
      /\ \A j \in 1 .. n : SubSeq(s, 1, n)[j] = s[j]
  BY <1>1, <1>2, SubSeqProperties
<1> QED  BY <1>2, <1>3, <1>4

\* A task takes something off its stack.
LEMMA PopLocalIsRight ==
  ASSUME SwitchInv, PopLocal
  PROVE  StepIsRight
<1>1. /\ SwitchTypes /\ TaskRuns /\ pc = "task" /\ RingIsLive /\ KernelSaved
      /\ InTaskCode /\ task = 0 /\ current = 0
  BY TaskCode DEF PopLocal
<1>2. PICK p \in TaskPages : p = next_task
  BY <1>1, OnStack
<1>3. p \in Nat /\ p \in Contexts /\ PageWords \in Nat /\ PageWords >= 19 + Locals
        /\ Locals \in Nat
  BY <1>2, PagesApart, Sizes DEF Contexts
<1>4. /\ reg["ESP"] = p + (PageWords - 1 - Len(locals[p])) /\ PageOf(reg["ESP"]) = p
      /\ p \in owned /\ locals[p] \in Seq(Int) /\ Len(locals[p]) <= Locals
  BY <1>1, <1>2, OnStack DEF SwitchTypes
<1>5. /\ locals[p] # <<>> /\ locals' = [locals EXCEPT ![p] = Front(@)]
      /\ reg' = AddEsp(Machine, 1).reg /\ mem' = AddEsp(Machine, 1).mem
      /\ UNCHANGED <<free, owned, halted, pc, task, current, called>>
  BY <1>4 DEF PopLocal, Become, poolVars
<1>6. PICK n \in Nat : n = Len(locals[p]) /\ n >= 1 /\ n <= Locals
  BY <1>4, <1>5, EmptySeq
<1>7. /\ locals'[p] = Front(locals[p]) /\ locals' \in [TaskPages -> Seq(Int)]
      /\ Len(locals'[p]) = n - 1
      /\ \A j \in 1 .. n - 1 : locals'[p][j] = locals[p][j]
      /\ \A q \in TaskPages : q # p => locals'[q] = locals[q]
  BY <1>1, <1>4, <1>5, <1>6, FrontIs DEF SwitchTypes
<1>8. /\ reg' \in [Registers -> Words] /\ mem' = mem
      /\ reg'["ESP"] = p + (PageWords - 1 - n + 1)
  <2>1. PICK i \in Nat : i = PageWords - 1 - n
    <3>1. PageWords - 1 - n \in Nat
      BY <1>3, <1>6
    <3> QED  BY <3>1
  <2>2. Machine \in Machines /\ Machine.reg["ESP"] = p + i /\ Machine.mem = mem /\ 1 \in Nat
    BY <1>1, <1>4, <1>6, <2>1, MachineIs
  <2>3. PICK m : m = AddEsp(Machine, 1)
    OBVIOUS
  <2>4. m \in Machines /\ m.mem = mem /\ m.reg["ESP"] = p + (i + 1)
    BY <1>3, <2>1, <2>2, <2>3, EspUpIs
  <2> QED  BY <1>5, <2>1, <2>3, <2>4 DEF Machines
<1>9. /\ \A q \in TaskPages : PageKept(q)
      /\ LinksKept /\ next_task' = next_task /\ KernelKept
  BY <1>8 DEF PageKept, LinksKept, next_task, KernelKept
<1>10. SwitchTypes'
  <2>1. \A q \in TaskPages : Len(locals'[q]) <= Locals
    BY <1>1, <1>3, <1>6, <1>7 DEF SwitchTypes
  <2> QED  BY <1>1, <1>5, <1>7, <1>8, <2>1 DEF SwitchTypes
<1>11. RingIsLive'
  BY <1>1, <1>5, <1>9, RingKept
<1>12. p + (PageWords - 1 - n + 1) = Top(p) - Len(locals'[p])
  <2>1. Len(locals'[p]) = n - 1
    BY <1>6, <1>7
  <2> QED  BY <1>3, <1>6, <2>1 DEF Top
<1>13. TaskRuns'
  <2>1. next_task' = p /\ p \in Live'
    BY <1>1, <1>2, <1>5, <1>9 DEF TaskRuns, Live
  <2> QED  BY <1>8, <1>12, <2>1 DEF TaskRuns
<1>14. Control'
  BY <1>1, <1>5, <1>13 DEF Control
<1>15. StacksKept'
  <2>1. StackKept(p)
    BY <1>1, <1>2, <1>4, OnStack DEF SwitchInv, StacksKept, StackKept
  <2>2. DOMAIN locals[p] = 1 .. n /\ DOMAIN locals'[p] = 1 .. n - 1
    BY <1>1, <1>4, <1>6, <1>7 DEF SwitchTypes
  <2>3. StackKept(p)'
    BY <1>7, <1>8, <2>1, <2>2 DEF StackKept
  <2>4. \A q \in owned \ {current} : q # p => StackKept(q)'
    BY <1>1, <1>7, <1>8 DEF SwitchInv, StacksKept, StackKept, SwitchTypes
  <2>5. \A q \in owned' \ {current'} : StackKept(q)'
    BY <1>5, <2>3, <2>4
  <2> QED  BY <2>5 DEF StacksKept, StackKept
<1>16. KernelSaved'
  BY <1>1, <1>5, <1>9, KernelFramed
<1>17. PageWords - 1 - n + 1 \in 0 .. PageWords - 1
  BY <1>3, <1>6
<1>18. TasksWait'
  <2>1. \A q \in owned \ {current} : q # p => Waits(q)'
    <3> SUFFICES ASSUME NEW q \in owned \ {current}, q # p
                 PROVE  Waits(q)'
      OBVIOUS
    <3>1. Waits(q) /\ q \in TaskPages
      BY <1>1, <1>2 DEF SwitchInv, TasksWait, SwitchTypes
    <3> QED  BY <1>1, <1>5, <1>7, <1>9, <3>1, WaitsFramed
  <2>2. InTaskCode' /\ next_task' = p
    <3>1. reg'["ESP"] # Top(Kernel)
      BY <1>8, <1>17, NotKernelStack
    <3> QED  BY <1>1, <1>2, <1>5, <1>9, <3>1 DEF InTaskCode, Top, Kernel
  <2> QED  BY <1>5, <2>1, <2>2 DEF TasksWait
<1>19. RegistersStep
  BY <1>1, <1>5 DEF RegistersStep
<1>20. Scheduled
  <2>1. PageOf(reg["ESP"])' = PageOf(reg["ESP"])
    <3>1. PageOf(p + (PageWords - 1 - n + 1)) = p
      BY <1>3, <1>17, PageOfWord
    <3> QED  BY <1>4, <1>8, <3>1 DEF PageOf
  <2> QED  BY <1>5, <1>9, <2>1, QuietStep DEF poolVars
<1> QED
  BY <1>10, <1>11, <1>14, <1>15, <1>16, <1>18, <1>19, <1>20
     DEF StepIsRight, SwitchInv, KernelWaits, KernelSaved

\* scheduler_run reaches out for the task that is next.
LEMMA AdvanceIsRight ==
  ASSUME SwitchInv, Advance
  PROVE  StepIsRight
<1>1. /\ SwitchTypes /\ RingIsLive /\ pc = "resumed" /\ task = 0 /\ current = 0
      /\ reg["ESP"] = Top(Kernel) - 2
  BY DEF Advance, SwitchInv, Control
<1>2. /\ Kernel \in Contexts /\ Kernel \in Nat /\ PageWords \in Nat /\ PageWords >= 20
      /\ Top(Kernel) - 2 = Kernel + (PageWords - 3)
  BY KernelStackIs, PagesApart, Sizes DEF Top
<1>3. PICK w : w = IF next_task # 0 THEN mem[next_task + NextField] ELSE 0
  OBVIOUS
<1>4. w \in Live \union {0} /\ w \in Words
  <2>1. w \in Live \union {0}
    BY <1>3 , <1>1 DEF RingIsLive
  <2>2. Live \subseteq Nat
    BY <1>1, PagesApart DEF Live, SwitchTypes, Contexts
  <2> QED  BY <2>1, <2>2 DEF Words
<1>5. PICK m : m = MovMem(Machine, NextTask, w)
  OBVIOUS
<1>6. NextTask = Kernel + 11 /\ NextTask \in Addresses /\ 11 \in 0 .. PageWords - 1
  <2>1. 11 \in 0 .. PageWords - 1
    BY <1>2
  <2> QED  BY <1>2, <2>1, OtherFieldsAre, WordsOfPages
<1>7. /\ m \in Machines /\ m.reg = reg /\ m.mem[NextTask] = w
      /\ \A b \in Addresses : b # NextTask => m.mem[b] = mem[b]
  BY <1>1, <1>4, <1>5, <1>6, MachineIs, MovMemIs
<1>8. PICK n : n = AddEsp(m, 2)
  OBVIOUS
<1>9. /\ n \in Machines /\ n.mem = m.mem /\ n.reg["ESP"] = Top(Kernel)
  <2>1. m.reg["ESP"] \in Int /\ 2 \in Int /\ Top(Kernel) - 2 + 2 = Top(Kernel)
    BY <1>1, <1>2, <1>7, KernelStackIs
  <2> QED  BY <1>1, <1>7, <1>8, <2>1, AddEspIs
<1>10. /\ reg' = n.reg /\ mem' = n.mem /\ pc' = "run"
       /\ UNCHANGED <<free, owned, halted, task, current, locals, called>>
  BY <1>3, <1>5, <1>8 DEF Advance, Become, poolVars, history
<1>11. /\ reg' \in [Registers -> Words] /\ mem' \in [Addresses -> Words]
       /\ reg'["ESP"] = Top(Kernel) /\ next_task' = w
       /\ \A b \in Addresses : b # Kernel + 11 => mem'[b] = mem[b]
  BY <1>6, <1>7, <1>9, <1>10 DEF Machines, next_task
<1>12. \A q \in TaskPages : PageKept(q)
  <2>1. /\ TaskPages \subseteq Contexts /\ Kernel \notin TaskPages
        /\ {11} \in SUBSET (0 .. PageWords - 1)
    BY <1>6, PagesApart DEF Contexts
  <2>2. \A b \in Addresses : (\A i \in {11} : b # Kernel + i) => mem'[b] = mem[b]
    BY <1>11
  <2>3. \A q \in TaskPages : \A k \in 0 .. PageWords - 1 : mem'[q + k] = mem[q + k]
    BY <1>2, <2>1, <2>2, OnlyWords
  <2> QED  BY <2>3 DEF PageKept
<1>13. LinksKept
  <2>1. 1 \in 0 .. PageWords - 1 /\ 2 \in 0 .. PageWords - 1 /\ 1 # 11 /\ 2 # 11
    BY <1>2
  <2>2. \A q \in TaskPages : \A k \in 0 .. PageWords - 1 : k # 11 => mem'[q + k] = mem[q + k]
    <3>1. \A q \in TaskPages : \A k \in 0 .. PageWords - 1 :
            q + k \in Addresses /\ q + k # Kernel + 11
      BY <1>2, <1>6, WordsOfPages, WordsApart, PagesApart DEF Contexts
    <3> QED  BY <1>11, <3>1
  <2> QED  BY <2>1, <2>2, OtherFieldsAre DEF LinksKept
<1>14. SwitchTypes'
  BY <1>1, <1>10, <1>11 DEF SwitchTypes
<1>15. RingIsLive'
  <2>1. Live' = Live /\ Live \subseteq TaskPages
    BY <1>1, <1>10 DEF Live, SwitchTypes
  <2>2. next_task' \in Live' \union {0}
    BY <1>4, <1>11, <2>1
  <2>3. \A p \in Live' : /\ mem'[p + NextField] \in Live'
                        /\ mem'[mem'[p + NextField] + PreviousField] = p
                        /\ mem'[p + PreviousField] \in Live'
                        /\ mem'[mem'[p + PreviousField] + NextField] = p
    BY <1>1, <1>13, <2>1 DEF RingIsLive, LinksKept
  <2>4. \A p \in TaskPages : mem'[p + NextField] \in Links /\ mem'[p + PreviousField] \in Links
    BY <1>1, <1>13 DEF RingIsLive, LinksKept
  <2> QED  BY <2>2, <2>3, <2>4 DEF RingIsLive
<1>16. Control'
  BY <1>1, <1>10, <1>11 DEF Control, Top, Kernel
<1>17. StacksKept'
  <2>1. \A q \in owned \ {current} : StackKept(q)'
    <3> SUFFICES ASSUME NEW q \in owned \ {current}
                 PROVE  StackKept(q)'
      OBVIOUS
    <3>1. StackKept(q) /\ q \in TaskPages
      BY <1>1 DEF SwitchInv, StacksKept, StackKept, SwitchTypes
    <3> QED  BY <1>1, <1>10, <1>12, <3>1, StackFramed
  <2> QED  BY <1>10, <2>1 DEF StacksKept, StackKept
<1>18. KernelWaits'
  BY <1>10 DEF KernelWaits, InTaskCode
<1>19. TasksWait'
  <2>1. \A q \in owned \ {current} : Waits(q)'
    <3> SUFFICES ASSUME NEW q \in owned \ {current}
                 PROVE  Waits(q)'
      OBVIOUS
    <3>1. Waits(q) /\ q \in TaskPages
      BY <1>1 DEF SwitchInv, TasksWait, SwitchTypes, InTaskCode
    <3> QED  BY <1>1, <1>10, <1>12, <3>1, WaitsFramed
  <2> QED  BY <1>10, <2>1 DEF TasksWait
<1>20. RegistersStep
  BY <1>10 DEF RegistersStep
<1>21. Scheduled
  <2>1. PageOf(reg["ESP"])' = PageOf(reg["ESP"])
    BY <1>1, <1>11, KernelStackIs DEF PageOf
  <2>2. [p \in TaskPages |-> mem[p + NextField]]' = [p \in TaskPages |-> mem[p + NextField]]
    BY <1>13 DEF LinksKept
  <2>3. [p \in TaskPages |-> mem[p + PreviousField]]'
          = [p \in TaskPages |-> mem[p + PreviousField]]
    BY <1>13 DEF LinksKept
  <2>4. next_task' = IF next_task # 0
                     THEN [p \in TaskPages |-> mem[p + NextField]][next_task]
                     ELSE 0
    <3>1. next_task # 0 => next_task \in TaskPages
      BY <1>1 DEF RingIsLive, Live, SwitchTypes
    <3> QED  BY <1>3, <1>11, <3>1
  <2>5. Scheduling!Advance
    BY <1>1, <1>10, <2>1, <2>2, <2>3, <2>4 DEF Scheduling!Advance, Scheduling!poolVars
  <2> QED  BY <2>5 DEF Scheduled, Scheduling!Next, Scheduling!KernelStep
<1> QED
  BY <1>14, <1>15, <1>16, <1>17, <1>18, <1>19, <1>20, <1>21 DEF StepIsRight, SwitchInv

-----------------------------------------------------------------------------
(***************************************************************************)
(* The switch to a task                                                    *)
(***************************************************************************)
\* _resume_task returns to the code of a task that waits, by way of
\* scheduler_yield if it has yielded.
LEMMA ReturnToTask ==
  ASSUME SwitchTypes, NEW t \in TaskPages, Waits(t), NEW n \in Machines,
         n.reg["ESP"] = mem[t + 6] + 1,
         \A k \in 0 .. PageWords - 1 : n.mem[t + k] = mem[t + k],
         ReturnFromResume(n)
  PROVE  /\ reg' \in [Registers -> Words] /\ mem' = n.mem /\ pc' = "task"
         /\ reg'["ESP"] = t + (PageWords - 1 - Len(locals[t]))
         /\ \A r \in Registers : r # "ESP" => reg'[r] = n.reg[r]
<1>1. t \in Nat /\ t \in Contexts /\ PageWords \in Nat /\ PageWords >= 20
  BY PagesApart, Sizes DEF Contexts
<1>2. PICK l \in Nat : l = Len(locals[t]) /\ l <= Locals
  BY DEF SwitchTypes
<1>3. CASE called[t] = <<>>
  <2>1. l = 0 /\ mem[t + 6] = Top(t) - 2 /\ mem[Top(t) - 1] = Code
    BY <1>2, <1>3, RegistersAre DEF Waits, Fresh
  <2>2. PICK i \in Nat : i = PageWords - 2
    <3>1. PageWords - 2 \in Nat
      BY <1>1
    <3> QED  BY <3>1
  <2>3. Top(t) - 2 + 1 = t + i /\ Top(t) - 1 = t + i /\ i \in 0 .. PageWords - 1
    BY <1>1, <2>2 DEF Top
  <2>4. n.reg["ESP"] = t + i /\ n.mem[t + i] = Code
    BY <2>1, <2>3
  <2>5. t + i + 0 = t + i
    BY <1>1, <2>2
  <2>6. Word(n, 0) = Code
    BY <2>4, <2>5 DEF Word
  <2>7. PICK o : o = AddEsp(n, 1)
    OBVIOUS
  <2>8. /\ o \in Machines /\ o.mem = n.mem /\ o.reg["ESP"] = t + (i + 1)
        /\ \A s \in Registers : s # "ESP" => o.reg[s] = n.reg[s]
    <3>1. 1 \in Nat
      OBVIOUS
    <3> QED  BY <1>1, <2>2, <2>4, <2>7, <3>1, EspUpIs
  <2>9. reg' = o.reg /\ mem' = o.mem /\ pc' = Where(Code)
    BY <2>6, <2>7, LabelsApart DEF ReturnFromResume, Return, Become
  <2>10. t + (i + 1) = t + (PageWords - 1 - l)
    BY <1>1, <2>1, <2>2
  <2> QED  BY <1>2, <2>8, <2>9, <2>10, LabelsApart DEF Machines
<1>4. CASE called[t] # <<>>
  <2>1. /\ mem[t + 6] = Top(t) - l - 7 /\ mem[Top(t) - l - 6] = InYield
        /\ mem[Top(t) - l - 1] = InTask
    BY <1>2, <1>4, RegistersAre DEF Waits, Yielded, Saved
  <2>2. PICK i \in Nat : i = PageWords - 1 - l - 6 /\ i >= 12
    <3>1. PageWords - 1 - l - 6 \in Nat /\ PageWords - 1 - l - 6 >= 12
      BY <1>1, <1>2, Sizes
    <3> QED  BY <3>1
  <2>3. /\ Top(t) - l - 7 + 1 = t + i /\ Top(t) - l - 6 = t + i /\ i \in 0 .. PageWords - 1
        /\ Top(t) - l - 1 = t + (i + 5) /\ i + 5 \in 0 .. PageWords - 1
    BY <1>1, <1>2, <2>2 DEF Top
  <2>4. n.reg["ESP"] = t + i /\ n.mem[t + i] = InYield /\ n.mem[t + (i + 5)] = InTask
    BY <2>1, <2>3
  <2>5. t + i + 0 = t + i
    BY <1>1, <2>2
  <2>6. Word(n, 0) = InYield
    BY <2>4, <2>5 DEF Word
  <2>7. PICK o : o = AddEsp(n, 1)
    OBVIOUS
  <2>8. /\ o \in Machines /\ o.mem = n.mem /\ o.reg["ESP"] = t + (i + 1)
        /\ \A s \in Registers : s # "ESP" => o.reg[s] = n.reg[s]
    <3>1. 1 \in Nat
      OBVIOUS
    <3> QED  BY <1>1, <2>2, <2>4, <2>7, <3>1, EspUpIs
  <2>9. PICK u : u = AddEsp(o, 4)
    OBVIOUS
  <2>10. /\ u \in Machines /\ u.mem = n.mem /\ u.reg["ESP"] = t + (i + 5)
         /\ \A s \in Registers : s # "ESP" => u.reg[s] = n.reg[s]
    <3>1. 4 \in Nat /\ i + 1 \in Nat /\ i + 1 + 4 = i + 5
      OBVIOUS
    <3>2. /\ u \in Machines /\ u.mem = o.mem /\ u.reg["ESP"] = t + ((i + 1) + 4)
          /\ \A s \in Registers : s # "ESP" => u.reg[s] = o.reg[s]
      BY <1>1, <2>8, <2>9, <3>1, EspUpIs
    <3> QED  BY <2>8, <3>1, <3>2
  <2>11. Word(u, 0) = InTask
    <3>1. t + (i + 5) + 0 = t + (i + 5)
      BY <1>1, <2>2
    <3> QED  BY <2>4, <2>10, <3>1 DEF Word
  <2>12. PICK v : v = AddEsp(u, 1)
    OBVIOUS
  <2>13. /\ v \in Machines /\ v.mem = n.mem /\ v.reg["ESP"] = t + (i + 6)
         /\ \A s \in Registers : s # "ESP" => v.reg[s] = n.reg[s]
    <3>1. 1 \in Nat /\ i + 5 \in Nat /\ i + 5 + 1 = i + 6
      OBVIOUS
    <3>2. /\ v \in Machines /\ v.mem = u.mem /\ v.reg["ESP"] = t + ((i + 5) + 1)
          /\ \A s \in Registers : s # "ESP" => v.reg[s] = u.reg[s]
      BY <1>1, <2>10, <2>12, <3>1, EspUpIs
    <3> QED  BY <2>10, <3>1, <3>2
  <2>14. reg' = v.reg /\ mem' = v.mem /\ pc' = Where(InTask)
    <3>1. Return(u)
      BY <2>6, <2>7, <2>9 DEF ReturnFromResume, YieldTail
    <3> QED  BY <2>11, <2>12, <3>1 DEF Return, Become
  <2>15. t + (i + 6) = t + (PageWords - 1 - l)
    BY <1>1, <1>2, <2>2
  <2> QED  BY <1>2, <2>13, <2>14, <2>15, LabelsApart DEF Machines
<1> QED  BY <1>3, <1>4

\* A waiting task's stack pointer is in its struct task.
LEMMA SavedPointer ==
  ASSUME SwitchTypes, NEW t \in TaskPages, Waits(t)
  PROVE  mem[t + 6] \in Int
<1>1. PICK l \in Nat : l = Len(locals[t])
  BY DEF SwitchTypes
<1>2. PICK w \in Int : w = Top(t)
  BY PagesApart, Sizes DEF Contexts, Top
<1>3. mem[t + 6] = w - 2 \/ mem[t + 6] = (w - l) - 7
  BY <1>1, <1>2, RegistersAre DEF Waits, Fresh, Yielded, Saved
<1>4. w - 2 \in Int /\ (w - l) - 7 \in Int
  BY <1>1, <1>2
<1> QED  BY <1>3, <1>4

\* What Resume does to the machine
LEMMA ResumeIs ==
  ASSUME SwitchInv, Resume, NEW t \in TaskPages, t = next_task, Waits(t)
  PROVE  /\ reg' \in [Registers -> Words] /\ mem' \in [Addresses -> Words] /\ pc' = "task"
         /\ reg'["ESP"] = t + (PageWords - 1 - Len(locals[t]))
         /\ \A r \in Registers \ {"ESP"} : reg'[r] = mem[t + RegisterField[r]]
         /\ called'[Kernel] \in [Registers -> Words]
         /\ called'[Kernel]["ESP"] = Top(Kernel) - 2
         /\ \A q \in TaskPages : called'[q] = called[q]
         /\ mem'[Kernel + 6] = Top(Kernel) - 4
         /\ \A r \in Registers \ {"ESP"} : mem'[Kernel + RegisterField[r]] = called'[Kernel][r]
         /\ mem'[Top(Kernel) - 3] = InRun
         /\ \A b \in Addresses :
              (\A i \in (3 .. 10) \union ((PageWords - 5) .. (PageWords - 2)) : b # Kernel + i)
                => mem'[b] = mem[b]
<1>1. /\ SwitchTypes /\ pc = "run" /\ reg["ESP"] = Top(Kernel)
  BY DEF Resume, SwitchInv, Control
<1>2. /\ Kernel \in Contexts /\ Kernel \in Nat /\ Kernel \in Words
      /\ t \in Contexts /\ t \in Words /\ t # Kernel
      /\ PageWords \in Nat /\ PageWords >= 20
  BY PagesApart, Sizes DEF Contexts, Words
<1>3. PICK i \in 12 .. PageWords - 3 : i = PageWords - 4
  <2>1. PageWords - 4 \in 12 .. PageWords - 3
    BY <1>2
  <2> QED  BY <2>1
<1>4. /\ Top(Kernel) = Kernel + (i + 3) /\ Top(Kernel) - 2 = Kernel + (i + 1)
      /\ Top(Kernel) - 4 = Kernel + i - 1 /\ Top(Kernel) - 3 = Kernel + i
      /\ i \in Nat
  BY <1>2, <1>3 DEF Top
<1>5. \A k \in 0 .. PageWords - 1 : Kernel + k \in Addresses
  BY <1>2, WordsOfPages
<1>6. /\ Kernel + i \in Addresses /\ Kernel + (i + 1) \in Addresses
      /\ Kernel + (i + 2) \in Addresses
  <2>1. i \in 0 .. PageWords - 1 /\ i + 1 \in 0 .. PageWords - 1 /\ i + 2 \in 0 .. PageWords - 1
    BY <1>2, <1>3
  <2> QED  BY <1>5, <2>1
<1>7. PICK a : a = Push(Machine, t)
  OBVIOUS
<1>8. /\ a \in Machines /\ a.reg["ESP"] = Kernel + (i + 2)
      /\ \A s \in Registers : s # "ESP" => a.reg[s] = reg[s]
      /\ a.mem[Kernel + (i + 2)] = t
      /\ \A b \in Addresses : b # Kernel + (i + 2) => a.mem[b] = mem[b]
  <2>1. PICK j \in 1 .. PageWords : j = i + 3
    BY <1>2, <1>3
  <2>2. /\ Machine \in Machines /\ Machine.reg = reg /\ Machine.mem = mem
        /\ Machine.reg["ESP"] = Kernel + j /\ j - 1 = i + 2
        /\ Kernel \in Contexts /\ t \in Words
    BY <1>1, <1>2, <1>4, <2>1, MachineIs
  <2>3. /\ a \in Machines /\ a.reg["ESP"] = Kernel + (j - 1)
        /\ \A s \in Registers : s # "ESP" => a.reg[s] = Machine.reg[s]
        /\ a.mem[Kernel + (j - 1)] = t
        /\ \A b \in Addresses : b # Kernel + (j - 1) => a.mem[b] = Machine.mem[b]
    BY <1>7, <2>1, <2>2, PushAt
  <2> QED  BY <2>2, <2>3
<1>9. PICK args : args = Push(a, Kernel)
  OBVIOUS
<1>10. /\ args \in Machines /\ args.reg["ESP"] = Kernel + (i + 1)
       /\ args.mem[Kernel + (i + 1)] = Kernel
       /\ \A b \in Addresses : b # Kernel + (i + 1) => args.mem[b] = a.mem[b]
  <2>1. PICK j \in 1 .. PageWords : j = i + 2
    BY <1>2, <1>3
  <2>2. a.reg["ESP"] = Kernel + j /\ j - 1 = i + 1
    BY <1>4, <1>8, <2>1
  <2>3. /\ args \in Machines /\ args.reg["ESP"] = Kernel + (j - 1)
        /\ args.mem[Kernel + (j - 1)] = Kernel
        /\ \A b \in Addresses : b # Kernel + (j - 1) => args.mem[b] = a.mem[b]
    BY <1>2, <1>8, <1>9, <2>1, <2>2, PushAt
  <2> QED  BY <2>2, <2>3
<1>11. PICK m : m = Push(args, InRun)
  OBVIOUS
<1>12. /\ m \in Machines /\ m.reg["ESP"] = Kernel + i
       /\ \A s \in Registers : s # "ESP" => m.reg[s] = args.reg[s]
       /\ m.mem[Kernel + i] = InRun
       /\ \A b \in Addresses : b # Kernel + i => m.mem[b] = args.mem[b]
  <2>1. PICK j \in 1 .. PageWords : j = i + 1
    BY <1>2, <1>3
  <2>2. args.reg["ESP"] = Kernel + j /\ j - 1 = i /\ InRun \in Words
    BY <1>4, <1>10, <2>1, LabelsApart DEF Labels
  <2>3. /\ m \in Machines /\ m.reg["ESP"] = Kernel + (j - 1)
        /\ \A s \in Registers : s # "ESP" => m.reg[s] = args.reg[s]
        /\ m.mem[Kernel + (j - 1)] = InRun
        /\ \A b \in Addresses : b # Kernel + (j - 1) => m.mem[b] = args.mem[b]
    BY <1>2, <1>10, <1>11, <2>1, <2>2, PushAt
  <2> QED  BY <2>2, <2>3
<1>13. /\ m.mem[Kernel + (i + 1)] = Kernel /\ m.mem[Kernel + (i + 2)] = t
       /\ \A b \in Addresses :
            b \notin {Kernel + i, Kernel + (i + 1), Kernel + (i + 2)} => m.mem[b] = mem[b]
  <2>1. /\ Kernel + (i + 1) # Kernel + i /\ Kernel + (i + 2) # Kernel + i
        /\ Kernel + (i + 2) # Kernel + (i + 1)
    BY <1>2, <1>4
  <2> QED  BY <1>6, <1>8, <1>10, <1>12, <2>1
<1>14. \A k \in 0 .. PageWords - 1 : m.mem[t + k] = mem[t + k]
  <2> SUFFICES ASSUME NEW k \in 0 .. PageWords - 1
               PROVE  m.mem[t + k] = mem[t + k]
    OBVIOUS
  <2>1. t + k \in Addresses
    BY <1>2, WordsOfPages
  <2>2. /\ i \in 0 .. PageWords - 1 /\ i + 1 \in 0 .. PageWords - 1
        /\ i + 2 \in 0 .. PageWords - 1
    BY <1>2, <1>3
  <2>3. t + k # Kernel + i /\ t + k # Kernel + (i + 1) /\ t + k # Kernel + (i + 2)
    BY <1>2, <2>2, WordsApart
  <2> QED  BY <1>13, <2>1, <2>3
<1>15. \A r \in Registers : m.mem[t + RegisterField[r]] = mem[t + RegisterField[r]]
  <2>1. \A r \in Registers : RegisterField[r] \in 0 .. PageWords - 1
    BY <1>2, FieldsAre
  <2> QED  BY <1>14, <2>1
<1>16. m.mem[t + 6] = mem[t + 6] /\ mem[t + 6] \in Int
  <2>1. 6 \in 0 .. PageWords - 1
    BY <1>2
  <2> QED  BY <1>1, <1>14, <2>1, SavedPointer
<1>17. PICK n : n = ResumeTask(m)
  OBVIOUS
<1>18. /\ n \in Machines
       /\ n.reg["ESP"] = m.mem[t + 6] + 1
       /\ \A r \in Registers \ {"ESP"} : n.reg[r] = m.mem[t + RegisterField[r]]
       /\ n.mem[Kernel + 6] = Kernel + i - 1
       /\ \A r \in Registers \ {"ESP"} : n.mem[Kernel + RegisterField[r]] = m.reg[r]
       /\ \A b \in Addresses :
            b # Kernel + i - 1 /\ (\A r \in Registers : b # Kernel + RegisterField[r])
              => n.mem[b] = m.mem[b]
  <2>1. Kernel + i + 1 = Kernel + (i + 1) /\ Kernel + i + 2 = Kernel + (i + 2)
    BY <1>2, <1>4
  <2>2. /\ m.mem[Kernel + i + 1] = Kernel /\ m.mem[Kernel + i + 2] = t
        /\ m.mem[t + 6] \in Int /\ m \in Machines /\ m.reg["ESP"] = Kernel + i
        /\ Kernel \in Contexts /\ t \in Contexts /\ Kernel # t
    BY <1>2, <1>12, <1>13, <1>16, <2>1
  <2> QED  BY <1>3, <1>17, <2>2, ResumeTaskIs
<1>19. ReturnFromResume(n) /\ called' = [called EXCEPT ![Kernel] = args.reg]
  BY <1>7, <1>9, <1>11, <1>17 DEF Resume
<1>20. \A b \in Addresses :
         (\A j \in (3 .. 10) \union ((PageWords - 5) .. (PageWords - 2)) : b # Kernel + j)
           => n.mem[b] = mem[b]
  <2> SUFFICES ASSUME NEW b \in Addresses,
                      \A j \in (3 .. 10) \union ((PageWords - 5) .. (PageWords - 2)) : b # Kernel + j
               PROVE  n.mem[b] = mem[b]
    OBVIOUS
  <2>1. \A r \in Registers : b # Kernel + RegisterField[r]
    BY FieldsAre
  <2>2. /\ PageWords - 5 \in (3 .. 10) \union ((PageWords - 5) .. (PageWords - 2))
        /\ i \in (3 .. 10) \union ((PageWords - 5) .. (PageWords - 2))
        /\ i + 1 \in (3 .. 10) \union ((PageWords - 5) .. (PageWords - 2))
        /\ i + 2 \in (3 .. 10) \union ((PageWords - 5) .. (PageWords - 2))
        /\ Kernel + i - 1 = Kernel + (PageWords - 5)
    BY <1>2, <1>3
  <2>3. b # Kernel + i - 1 /\ b # Kernel + i /\ b # Kernel + (i + 1) /\ b # Kernel + (i + 2)
    BY <2>2
  <2> QED  BY <1>13, <1>18, <2>1, <2>3
<1>21. \A k \in 0 .. PageWords - 1 : n.mem[t + k] = mem[t + k]
  <2> SUFFICES ASSUME NEW k \in 0 .. PageWords - 1
               PROVE  n.mem[t + k] = mem[t + k]
    OBVIOUS
  <2>1. t + k \in Addresses
    BY <1>2, WordsOfPages
  <2>2. \A j \in 0 .. PageWords - 1 : t + k # Kernel + j
    BY <1>2, WordsApart
  <2>3. (3 .. 10) \union ((PageWords - 5) .. (PageWords - 2)) \subseteq 0 .. PageWords - 1
    BY <1>2
  <2> QED  BY <1>20, <2>1, <2>2, <2>3
<1>22. n.reg["ESP"] = mem[t + 6] + 1
  BY <1>16, <1>18
<1>23. /\ reg' \in [Registers -> Words] /\ mem' = n.mem /\ pc' = "task"
       /\ reg'["ESP"] = t + (PageWords - 1 - Len(locals[t]))
       /\ \A r \in Registers : r # "ESP" => reg'[r] = n.reg[r]
  BY <1>1, <1>18, <1>19, <1>21, <1>22, ReturnToTask
<1>24. mem' \in [Addresses -> Words]
  BY <1>18, <1>23 DEF Machines
<1>25. \A r \in Registers \ {"ESP"} : reg'[r] = mem[t + RegisterField[r]]
  BY <1>15, <1>18, <1>23
<1>26. /\ called'[Kernel] = args.reg /\ args.reg \in [Registers -> Words]
       /\ \A q \in TaskPages : called'[q] = called[q]
  BY <1>1, <1>2, <1>10, <1>19, PagesApart DEF SwitchTypes, Machines
<1>27. /\ called'[Kernel]["ESP"] = Top(Kernel) - 2
       /\ mem'[Kernel + 6] = Top(Kernel) - 4
  BY <1>4, <1>10, <1>18, <1>23, <1>26
<1>28. \A r \in Registers \ {"ESP"} : mem'[Kernel + RegisterField[r]] = called'[Kernel][r]
  BY <1>12, <1>18, <1>23, <1>26
<1>29. mem'[Top(Kernel) - 3] = InRun
  <2>1. Kernel + i # Kernel + i - 1
    BY <1>2, <1>4
  <2>2. \A r \in Registers : Kernel + i # Kernel + RegisterField[r]
    BY <1>2, <1>3, FieldsAre
  <2>3. n.mem[Kernel + i] = InRun
    BY <1>6, <1>12, <1>18, <2>1, <2>2
  <2> QED  BY <1>4, <1>23, <2>3
<1> QED
  BY <1>20, <1>23, <1>24, <1>25, <1>26, <1>27, <1>28, <1>29

\* A task gets the processor.
LEMMA ResumeIsRight ==
  ASSUME SwitchInv, Resume
  PROVE  StepIsRight
<1>1. /\ SwitchTypes /\ RingIsLive /\ pc = "run" /\ task = 0 /\ current = 0 /\ next_task # 0
      /\ reg["ESP"] = Top(Kernel)
  BY DEF Resume, SwitchInv, Control
<1>2. PICK t \in TaskPages : t = next_task /\ t \in Live /\ t \in owned \ {current}
  BY <1>1 DEF RingIsLive, Live, SwitchTypes
<1>3. /\ t \in Contexts /\ t \in Nat /\ t # Kernel /\ Kernel \in Contexts
      /\ PageWords \in Nat /\ PageWords >= 20 /\ TaskPages \subseteq Contexts
  BY PagesApart, Sizes DEF Contexts
<1>4. Waits(t)
  BY <1>1, <1>2 DEF SwitchInv, TasksWait, InTaskCode
<1>5. PICK l \in Nat : l = Len(locals[t]) /\ l <= Locals
  BY <1>1 DEF SwitchTypes
<1>6. /\ reg' \in [Registers -> Words] /\ mem' \in [Addresses -> Words] /\ pc' = "task"
      /\ reg'["ESP"] = t + (PageWords - 1 - l)
      /\ \A r \in Registers \ {"ESP"} : reg'[r] = mem[t + RegisterField[r]]
      /\ called'[Kernel] \in [Registers -> Words]
      /\ called'[Kernel]["ESP"] = Top(Kernel) - 2
      /\ \A q \in TaskPages : called'[q] = called[q]
      /\ mem'[Kernel + 6] = Top(Kernel) - 4
      /\ \A r \in Registers \ {"ESP"} : mem'[Kernel + RegisterField[r]] = called'[Kernel][r]
      /\ mem'[Top(Kernel) - 3] = InRun
      /\ \A b \in Addresses :
           (\A i \in (3 .. 10) \union ((PageWords - 5) .. (PageWords - 2)) : b # Kernel + i)
             => mem'[b] = mem[b]
  BY <1>2, <1>4, <1>5, ResumeIs
<1>7. /\ UNCHANGED <<free, owned, halted, task, current, locals>>
      /\ \E f : called' = [called EXCEPT ![Kernel] = f]
  BY DEF Resume, poolVars
<1>8. (\A q \in TaskPages : PageKept(q)) /\ LinksKept /\ next_task' = next_task
  <2>1. PICK I : I = (3 .. 10) \union ((PageWords - 5) .. (PageWords - 2))
    OBVIOUS
  <2>2. I \in SUBSET (3 .. PageWords - 1) /\ 11 \notin I
    BY <1>3, <2>1
  <2>3. \A b \in Addresses : (\A i \in I : b # Kernel + i) => mem'[b] = mem[b]
    BY <1>6, <2>1
  <2>4. Kernel \notin TaskPages
    BY PagesApart
  <2> QED  BY <1>3, <2>2, <2>3, <2>4, OnlyOnePage
<1>9. called' \in [Contexts -> [Registers -> Words] \union {<<>>}]
  BY <1>1, <1>3, <1>6, <1>7 DEF SwitchTypes
<1>10. SwitchTypes'
  BY <1>1, <1>6, <1>7, <1>9 DEF SwitchTypes
<1>11. RingIsLive'
  BY <1>1, <1>7, <1>8, RingKept
<1>12. TaskRuns'
  <2>1. t + (PageWords - 1 - l) = Top(t) - Len(locals'[t])
    BY <1>3, <1>5, <1>7 DEF Top
  <2>2. next_task' = t /\ t \in Live'
    BY <1>2, <1>7, <1>8 DEF Live
  <2> QED  BY <1>6, <2>1, <2>2 DEF TaskRuns
<1>13. Control'
  BY <1>1, <1>6, <1>7, <1>12 DEF Control
<1>14. StacksKept'
  <2>1. \A q \in owned \ {current} : StackKept(q)'
    <3> SUFFICES ASSUME NEW q \in owned \ {current}
                 PROVE  StackKept(q)'
      OBVIOUS
    <3>1. StackKept(q) /\ q \in TaskPages
      BY <1>1 DEF SwitchInv, StacksKept, StackKept, SwitchTypes
    <3> QED  BY <1>1, <1>7, <1>8, <3>1, StackFramed
  <2> QED  BY <1>7, <2>1 DEF StacksKept, StackKept
<1>15. KernelWaits'
  <2>1. Saved(Kernel, Top(Kernel) - 4)'
    BY <1>6, RegistersAre DEF Saved, Top, Kernel
  <2> QED  BY <1>6, <2>1 DEF KernelWaits, Top, Kernel
<1>16. TasksWait'
  <2>1. \A q \in owned \ {current} : Waits(q)'
    <3> SUFFICES ASSUME NEW q \in owned \ {current}
                 PROVE  Waits(q)'
      OBVIOUS
    <3>1. Waits(q) /\ q \in TaskPages
      BY <1>1 DEF SwitchInv, TasksWait, SwitchTypes, InTaskCode
    <3> QED  BY <1>1, <1>6, <1>7, <1>8, <3>1, WaitsFramed
  <2> QED  BY <1>7, <2>1 DEF TasksWait
<1>17. PageOf(reg'["ESP"]) = t
  <2>1. PageWords - 1 - l \in 0 .. PageWords - 1
    BY <1>3, <1>5, Sizes
  <2> QED  BY <1>3, <1>6, <2>1, PageOfWord
<1>18. RegistersStep
  <2>1. ASSUME called[t] # <<>>
        PROVE  reg' = called[t]
    <3>1. Yielded(t)
      BY <1>4, <2>1 DEF Waits
    <3>2. /\ called[t] \in [Registers -> Words] /\ called[t]["ESP"] = Top(t) - l
          /\ \A r \in Registers \ {"ESP"} : mem[t + RegisterField[r]] = called[t][r]
      BY <1>5, <3>1 DEF Yielded, Saved
    <3>3. Top(t) - l = t + (PageWords - 1 - l)
      BY <1>3, <1>5 DEF Top
    <3>4. \A r \in Registers : reg'[r] = called[t][r]
      BY <1>6, <3>2, <3>3
    <3> QED  BY <1>6, <3>2, <3>4
  <2> QED  BY <1>6, <1>17, <2>1 DEF RegistersStep
<1>19. Scheduled
  <2>1. /\ [p \in TaskPages |-> mem[p + NextField]]' = [p \in TaskPages |-> mem[p + NextField]]
        /\ [p \in TaskPages |-> mem[p + PreviousField]]'
              = [p \in TaskPages |-> mem[p + PreviousField]]
    BY <1>8 DEF LinksKept
  <2>2. PageOf(reg["ESP"])' = next_task
    BY <1>2, <1>17 DEF PageOf
  <2>3. Scheduling!Resume
    BY <1>1, <1>6, <1>7, <1>8, <2>1, <2>2
       DEF Scheduling!Resume, Scheduling!poolVars, Scheduling!links
  <2> QED  BY <2>3 DEF Scheduled, Scheduling!Next, Scheduling!KernelStep
<1> QED
  BY <1>10, <1>11, <1>13, <1>14, <1>15, <1>16, <1>18, <1>19 DEF StepIsRight, SwitchInv

\* What Yield does to the machine: j is the word of its page the task's stack
\* pointer is at.
LEMMA YieldIs ==
  ASSUME SwitchInv, Yield, NEW t \in TaskPages, t = next_task,
         NEW j \in 18 .. PageWords - 1, reg["ESP"] = t + j, PageOf(reg["ESP"]) = t
  PROVE  /\ reg' \in [Registers -> Words] /\ mem' \in [Addresses -> Words] /\ pc' = "resumed"
         /\ reg'["ESP"] = Top(Kernel) - 2
         /\ \A r \in Registers \ {"ESP"} : reg'[r] = called[Kernel][r]
         /\ called' = [called EXCEPT ![t] = reg]
         /\ mem'[t + 6] = t + j - 7
         /\ \A r \in Registers \ {"ESP"} : mem'[t + RegisterField[r]] = reg[r]
         /\ mem'[t + (j - 6)] = InYield /\ mem'[t + (j - 1)] = InTask
         /\ \A b \in Addresses :
              (\A i \in (3 .. 10) \union ((j - 7) .. (j - 1)) : b # t + i) => mem'[b] = mem[b]
<1>1. SwitchTypes /\ TaskRuns /\ pc = "task" /\ KernelSaved /\ task = 0 /\ current = 0
  BY TaskCode DEF Yield
<1>2. /\ Kernel \in Contexts /\ Kernel \in Nat /\ t \in Contexts /\ t \in Nat /\ t # Kernel
      /\ PageWords \in Nat /\ PageWords >= 20 /\ j \in Nat /\ j >= 18 /\ j <= PageWords - 1
  BY PagesApart, Sizes DEF Contexts
<1>3. \A k \in 0 .. PageWords - 1 : t + k \in Addresses /\ Kernel + k \in Addresses
  BY <1>2, WordsOfPages
<1>4. /\ \A k \in 1 .. 7 : j - k \in 0 .. PageWords - 1
      /\ \A r \in Registers : RegisterField[r] \in 3 .. 10
           /\ RegisterField[r] \in 0 .. PageWords - 1
  BY <1>2, FieldsAre
<1>5. PICK a : a = Push(Machine, InTask)
  OBVIOUS
<1>6. /\ a \in Machines /\ a.reg["ESP"] = t + (j - 1)
      /\ \A s \in Registers : s # "ESP" => a.reg[s] = reg[s]
      /\ a.mem[t + (j - 1)] = InTask
      /\ \A b \in Addresses : b # t + (j - 1) => a.mem[b] = mem[b]
  <2>1. /\ Machine \in Machines /\ Machine.reg = reg /\ Machine.mem = mem
        /\ Machine.reg["ESP"] = t + j /\ j \in 1 .. PageWords
        /\ InTask \in Words /\ t \in Contexts
    BY <1>1, <1>2, MachineIs, LabelsApart DEF Labels
  <2>2. /\ a \in Machines /\ a.reg["ESP"] = t + (j - 1)
        /\ \A s \in Registers : s # "ESP" => a.reg[s] = Machine.reg[s]
        /\ a.mem[t + (j - 1)] = InTask
        /\ \A b \in Addresses : b # t + (j - 1) => a.mem[b] = Machine.mem[b]
    BY <1>5, <2>1, PushAt
  <2> QED  BY <2>1, <2>2
<1>7. PICK h : h = YieldHead(a)
  OBVIOUS
<1>8. PICK i \in 17 .. PageWords - 1 : i = j - 1
  <2>1. j - 1 \in 17 .. PageWords - 1
    BY <1>2
  <2> QED  BY <2>1
<1>9. a.mem[t + SchedulerField] = Kernel
  <2>1. mem[t + SchedulerField] = Kernel
    BY <1>1, OnStack DEF SwitchInv, StacksKept
  <2>2. t + SchedulerField \in Addresses /\ t + SchedulerField # t + (j - 1)
    <3>1. 0 \in 0 .. PageWords - 1 /\ t + 0 # t + (j - 1)
      BY <1>2
    <3> QED  BY <1>3, <3>1, OtherFieldsAre
  <2> QED  BY <1>6, <2>1, <2>2
<1>10. /\ h \in Machines
       /\ h.reg["ESP"] = t + (i - 5)
       /\ \A s \in Registers : s # "ESP" => h.reg[s] = a.reg[s]
       /\ h.mem[t + (i - 5)] = InYield
       /\ h.mem[t + (i - 4)] = t
       /\ h.mem[t + (i - 3)] = Kernel
       /\ \A b \in Addresses : (\A k \in 1 .. 5 : b # t + (i - k)) => h.mem[b] = a.mem[b]
  <2>1. a \in Machines /\ t \in Contexts /\ a.reg["ESP"] = t + i
    BY <1>2, <1>6, <1>8
  <2> QED  BY <1>7, <1>8, <1>9, <2>1, YieldHeadIs
<1>11. /\ h.mem[t + (j - 1)] = InTask
       /\ \A b \in Addresses : (\A k \in 1 .. 6 : b # t + (j - k)) => h.mem[b] = mem[b]
  <2>1. \A k \in 1 .. 5 : i - k = j - (k + 1) /\ k + 1 \in 1 .. 6 /\ t + (j - 1) # t + (i - k)
    BY <1>2, <1>8
  <2>2. t + (j - 1) \in Addresses
    BY <1>3, <1>4
  <2>3. h.mem[t + (j - 1)] = InTask
    BY <1>6, <1>10, <2>1, <2>2
  <2>4. ASSUME NEW b \in Addresses, \A k \in 1 .. 6 : b # t + (j - k)
        PROVE  h.mem[b] = mem[b]
    <3>1. b # t + (j - 1)
      BY <2>4
    <3>2. \A k \in 1 .. 5 : b # t + (i - k)
      BY <2>1, <2>4
    <3> QED  BY <1>6, <1>10, <3>1, <3>2
  <2> QED  BY <2>3, <2>4
<1>12. \A k \in 0 .. PageWords - 1 : h.mem[Kernel + k] = mem[Kernel + k]
  <2> SUFFICES ASSUME NEW k \in 0 .. PageWords - 1
               PROVE  h.mem[Kernel + k] = mem[Kernel + k]
    OBVIOUS
  <2>1. \A e \in 1 .. 6 : Kernel + k # t + (j - e)
    BY <1>2, <1>4, WordsApart
  <2> QED  BY <1>3, <1>11, <2>1
<1>13. /\ h.mem[Kernel + 6] = Top(Kernel) - 4 /\ Top(Kernel) - 4 \in Int
       /\ \A r \in Registers \ {"ESP"} : h.mem[Kernel + RegisterField[r]] = called[Kernel][r]
       /\ h.mem[Top(Kernel) - 3] = InRun
  <2>1. 6 \in 0 .. PageWords - 1 /\ PageWords - 4 \in 0 .. PageWords - 1
    BY <1>2
  <2>2. Top(Kernel) - 3 = Kernel + (PageWords - 4) /\ Top(Kernel) - 4 \in Int
    BY <1>2 DEF Top
  <2> QED  BY <1>1, <1>4, <1>12, <2>1, <2>2, RegistersAre DEF KernelSaved, Saved
<1>14. PICK e \in 12 .. PageWords - 3 : e = j - 6
  <2>1. j - 6 \in 12 .. PageWords - 3
    BY <1>2
  <2> QED  BY <2>1
<1>15. PICK n : n = ResumeTask(h)
  OBVIOUS
<1>16. /\ n \in Machines
       /\ n.reg["ESP"] = h.mem[Kernel + 6] + 1
       /\ \A r \in Registers \ {"ESP"} : n.reg[r] = h.mem[Kernel + RegisterField[r]]
       /\ n.mem[t + 6] = t + e - 1
       /\ \A r \in Registers \ {"ESP"} : n.mem[t + RegisterField[r]] = h.reg[r]
       /\ \A b \in Addresses :
            b # t + e - 1 /\ (\A r \in Registers : b # t + RegisterField[r])
              => n.mem[b] = h.mem[b]
  <2>1. t + e + 1 = t + (i - 4) /\ t + e + 2 = t + (i - 3) /\ e = i - 5
    BY <1>2, <1>8, <1>14
  <2>2. /\ h \in Machines /\ t \in Contexts /\ Kernel \in Contexts /\ t # Kernel
        /\ h.reg["ESP"] = t + e /\ h.mem[t + e + 1] = t /\ h.mem[t + e + 2] = Kernel
        /\ h.mem[Kernel + 6] \in Int
    BY <1>2, <1>10, <1>13, <2>1
  <2> QED  BY <1>14, <1>15, <2>2, ResumeTaskIs
<1>17. \A b \in Addresses :
         (\A k \in (3 .. 10) \union ((j - 7) .. (j - 1)) : b # t + k) => n.mem[b] = mem[b]
  <2> SUFFICES ASSUME NEW b \in Addresses,
                      \A k \in (3 .. 10) \union ((j - 7) .. (j - 1)) : b # t + k
               PROVE  n.mem[b] = mem[b]
    OBVIOUS
  <2>1. \A r \in Registers : b # t + RegisterField[r]
    BY <1>4
  <2>2. t + e - 1 = t + (j - 7) /\ j - 7 \in (3 .. 10) \union ((j - 7) .. (j - 1))
    BY <1>2, <1>14
  <2>3. \A k \in 1 .. 6 : j - k \in (3 .. 10) \union ((j - 7) .. (j - 1))
    BY <1>2
  <2> QED  BY <1>11, <1>16, <2>1, <2>2, <2>3
<1>18. n.mem[t + (j - 6)] = InYield /\ n.mem[t + (j - 1)] = InTask
  <2>1. /\ t + (j - 6) \in Addresses /\ t + (j - 1) \in Addresses
        /\ t + (j - 6) # t + e - 1 /\ t + (j - 1) # t + e - 1 /\ j - 6 = i - 5
    BY <1>2, <1>3, <1>4, <1>8, <1>14
  <2>2. \A r \in Registers : t + (j - 6) # t + RegisterField[r]
          /\ t + (j - 1) # t + RegisterField[r]
    BY <1>2, <1>4
  <2> QED  BY <1>10, <1>11, <1>16, <2>1, <2>2
<1>19. n.mem[Top(Kernel) - 3] = InRun
  <2>1. PageWords - 4 \in 0 .. PageWords - 1 /\ Top(Kernel) - 3 = Kernel + (PageWords - 4)
    BY <1>2 DEF Top
  <2>2. \A k \in 0 .. PageWords - 1 : Kernel + (PageWords - 4) # t + k
    BY <1>2, <2>1, WordsApart
  <2>3. t + e - 1 = t + (j - 7) /\ j - 7 \in 0 .. PageWords - 1
    BY <1>2, <1>4, <1>14
  <2>4. Kernel + (PageWords - 4) # t + e - 1
    BY <2>2, <2>3
  <2> QED  BY <1>3, <1>4, <1>13, <1>16, <2>1, <2>2, <2>4
<1>20. /\ ReturnFromResume(n) /\ called' = [called EXCEPT ![t] = reg]
  BY <1>5, <1>7, <1>15 DEF Yield
<1>21. PICK sp \in Int : sp = Top(Kernel) - 3
  BY <1>2 DEF Top
<1>22. n.reg["ESP"] = sp /\ sp + 1 = Top(Kernel) - 2
  BY <1>2, <1>13, <1>16, <1>21 DEF Top
<1>23. Word(n, 0) = InRun
  <2>1. sp + 0 = sp
    BY <1>21
  <2> QED  BY <1>19, <1>21, <1>22, <2>1 DEF Word
<1>24. PICK o : o = AddEsp(n, 1)
  OBVIOUS
<1>25. /\ o \in Machines /\ o.mem = n.mem /\ o.reg["ESP"] = sp + 1
       /\ \A s \in Registers : s # "ESP" => o.reg[s] = n.reg[s]
  BY <1>16, <1>21, <1>22, <1>24, AddEspIs
<1>26. reg' = o.reg /\ mem' = o.mem /\ pc' = "resumed"
  BY <1>20, <1>23, <1>24, LabelsApart DEF ReturnFromResume, Return, Become
<1>27. reg' \in [Registers -> Words] /\ mem' \in [Addresses -> Words]
  BY <1>25, <1>26 DEF Machines
<1>28. \A r \in Registers \ {"ESP"} : reg'[r] = called[Kernel][r]
  BY <1>13, <1>16, <1>25, <1>26
<1>29. \A r \in Registers \ {"ESP"} : mem'[t + RegisterField[r]] = reg[r]
  BY <1>6, <1>10, <1>16, <1>25, <1>26
<1>30. mem'[t + 6] = t + j - 7
  BY <1>2, <1>14, <1>16, <1>25, <1>26
<1> QED
  BY <1>17, <1>18, <1>20, <1>22, <1>25, <1>26, <1>27, <1>28, <1>29, <1>30

-----------------------------------------------------------------------------
(***************************************************************************)
(* The switch back to the kernel                                           *)
(***************************************************************************)
\* A task gives the processor back.
LEMMA YieldIsRight ==
  ASSUME SwitchInv, Yield
  PROVE  StepIsRight
<1>1. /\ SwitchTypes /\ TaskRuns /\ pc = "task" /\ RingIsLive /\ KernelSaved
      /\ InTaskCode /\ task = 0 /\ current = 0
  BY TaskCode DEF Yield
<1>2. PICK t \in TaskPages : t = next_task
  BY <1>1, OnStack
<1>3. /\ t \in Contexts /\ t \in Nat /\ t # Kernel /\ Kernel \in Contexts /\ Kernel \in Nat
      /\ PageWords \in Nat /\ PageWords >= 19 + Locals /\ Locals \in Nat
      /\ TaskPages \subseteq Contexts /\ Kernel \notin TaskPages
  BY PagesApart, Sizes DEF Contexts
<1>4. PICK l \in Nat : l = Len(locals[t]) /\ l <= Locals
  BY <1>1, <1>2, OnStack
<1>5. PICK j \in 18 .. PageWords - 1 : j = PageWords - 1 - l
  <2>1. PageWords - 1 - l \in 18 .. PageWords - 1
    BY <1>3, <1>4
  <2> QED  BY <2>1
<1>6. reg["ESP"] = t + j /\ PageOf(reg["ESP"]) = t /\ t \in owned
  BY <1>1, <1>2, <1>4, <1>5, OnStack
<1>7. /\ reg' \in [Registers -> Words] /\ mem' \in [Addresses -> Words] /\ pc' = "resumed"
      /\ reg'["ESP"] = Top(Kernel) - 2
      /\ \A r \in Registers \ {"ESP"} : reg'[r] = called[Kernel][r]
      /\ called' = [called EXCEPT ![t] = reg]
      /\ mem'[t + 6] = t + j - 7
      /\ \A r \in Registers \ {"ESP"} : mem'[t + RegisterField[r]] = reg[r]
      /\ mem'[t + (j - 6)] = InYield /\ mem'[t + (j - 1)] = InTask
      /\ \A b \in Addresses :
           (\A i \in (3 .. 10) \union ((j - 7) .. (j - 1)) : b # t + i) => mem'[b] = mem[b]
  BY <1>2, <1>5, <1>6, YieldIs
<1>8. UNCHANGED <<free, owned, halted, task, current, locals>>
  BY DEF Yield, poolVars
<1>9. PICK I : I = (3 .. 10) \union ((j - 7) .. (j - 1))
  OBVIOUS
<1>10. I \in SUBSET (3 .. PageWords - 1) /\ I \in SUBSET (0 .. PageWords - 1)
  BY <1>3, <1>5, <1>9
<1>11. \A b \in Addresses : (\A i \in I : b # t + i) => mem'[b] = mem[b]
  BY <1>7, <1>9
<1>12. (\A q \in TaskPages : q # t => PageKept(q)) /\ LinksKept /\ next_task' = next_task
  BY <1>3, <1>10, <1>11, OnlyOnePage
<1>13. called'[t] = reg /\ \A q \in Contexts : q # t => called'[q] = called[q]
  BY <1>1, <1>3, <1>7 DEF SwitchTypes
<1>14. SwitchTypes'
  <2>1. called' \in [Contexts -> [Registers -> Words] \union {<<>>}]
    BY <1>1, <1>3, <1>7 DEF SwitchTypes
  <2> QED  BY <1>1, <1>7, <1>8, <2>1 DEF SwitchTypes
<1>15. RingIsLive'
  BY <1>1, <1>8, <1>12, RingKept
<1>16. Control'
  BY <1>1, <1>7, <1>8 DEF Control, Top, Kernel
<1>17. StacksKept'
  <2>1. StackKept(t)'
    <3>1. StackKept(t)
      BY <1>1, <1>2, <1>6, OnStack DEF SwitchInv, StacksKept, StackKept
    <3>2. \A i \in 0 .. PageWords - 1 :
            i = 0 \/ i >= PageWords - 1 - l => mem'[t + i] = mem[t + i]
      <4> SUFFICES ASSUME NEW i \in 0 .. PageWords - 1, i = 0 \/ i >= PageWords - 1 - l
                   PROVE  mem'[t + i] = mem[t + i]
        OBVIOUS
      <4>1. i \notin I
        BY <1>5, <1>9
      <4>2. t \in Contexts /\ I \in SUBSET (0 .. PageWords - 1)
        BY <1>3, <1>10
      <4> QED  BY <1>11, <4>1, <4>2, OnlyWords
    <3> QED  BY <1>1, <1>4, <1>8, <3>1, <3>2, StackAbove
  <2>2. \A q \in owned \ {current} : q # t => StackKept(q)'
    <3> SUFFICES ASSUME NEW q \in owned \ {current}, q # t
                 PROVE  StackKept(q)'
      OBVIOUS
    <3>1. StackKept(q) /\ q \in TaskPages
      BY <1>1 DEF SwitchInv, StacksKept, StackKept, SwitchTypes
    <3> QED  BY <1>1, <1>8, <1>12, <3>1, StackFramed
  <2> QED  BY <1>8, <2>1, <2>2 DEF StacksKept, StackKept
<1>18. KernelWaits'
  BY <1>7 DEF KernelWaits, InTaskCode
<1>19. Waits(t)'
  <2>1. called'[t] # <<>>
    <3>1. "ESP" \in DOMAIN reg /\ DOMAIN <<>> = {}
      BY <1>1, RegistersAre DEF SwitchTypes
    <3> QED  BY <1>13, <3>1
  <2>2. /\ Top(t) - l = t + j /\ t + j - 7 = (Top(t) - l) - 7
        /\ t + (j - 6) = (Top(t) - l) - 6 /\ t + (j - 1) = (Top(t) - l) - 1
    BY <1>3, <1>5 DEF Top
  <2>3. Len(locals'[t]) = l
    BY <1>4, <1>8
  <2>4. Saved(t, (Top(t) - l) - 7)'
    <3>1. /\ called'[t] \in [Registers -> Words]
          /\ mem'[t + RegisterField["ESP"]] = (Top(t) - l) - 7
          /\ \A r \in Registers \ {"ESP"} : mem'[t + RegisterField[r]] = called'[t][r]
      BY <1>1, <1>7, <1>13, <2>2, RegistersAre DEF SwitchTypes
    <3> QED  BY <3>1 DEF Saved, Top
  <2>5. /\ called'[t]["ESP"] = Top(t) - l /\ mem'[(Top(t) - l) - 6] = InYield
        /\ mem'[(Top(t) - l) - 1] = InTask
    BY <1>6, <1>7, <1>13, <2>2
  <2>6. Yielded(t)'
    BY <2>3, <2>4, <2>5 DEF Yielded, Top
  <2> QED  BY <2>1, <2>6 DEF Waits
<1>20. TasksWait'
  <2>1. \A q \in owned \ {current} : q # t => Waits(q)'
    <3> SUFFICES ASSUME NEW q \in owned \ {current}, q # t
                 PROVE  Waits(q)'
      OBVIOUS
    <3>1. Waits(q) /\ q \in TaskPages
      BY <1>1, <1>2 DEF SwitchInv, TasksWait, SwitchTypes
    <3>2. called'[q] = called[q]
      BY <1>3, <1>13, <3>1
    <3> QED  BY <1>1, <1>8, <1>12, <3>1, <3>2, WaitsFramed
  <2> QED  BY <1>8, <1>19, <2>1 DEF TasksWait
<1>21. RegistersStep
  <2>1. called[Kernel]["ESP"] = Top(Kernel) - 2
    BY <1>1 DEF KernelSaved
  <2>2. \A r \in CalleeSaved : reg'[r] = called[Kernel][r]
    BY <1>7, <2>1, RegistersAre DEF CalleeSaved
  <2> QED  BY <1>7, <2>2 DEF RegistersStep
<1>22. Scheduled
  <2>1. /\ [p \in TaskPages |-> mem[p + NextField]]' = [p \in TaskPages |-> mem[p + NextField]]
        /\ [p \in TaskPages |-> mem[p + PreviousField]]'
              = [p \in TaskPages |-> mem[p + PreviousField]]
    BY <1>12 DEF LinksKept
  <2>2. PageOf(reg["ESP"])' = Kernel
    BY <1>7, KernelStackIs DEF PageOf
  <2>3. Scheduling!Yield
    BY <1>1, <1>7, <1>8, <1>12, <2>1, <2>2
       DEF Scheduling!Yield, Scheduling!poolVars, Scheduling!links
  <2> QED  BY <2>3 DEF Scheduled, Scheduling!Next
<1> QED
  BY <1>14, <1>15, <1>16, <1>17, <1>18, <1>20, <1>21, <1>22 DEF StepIsRight, SwitchInv

\* What LeaveStack does to the machine
LEMMA LeaveStackIs ==
  ASSUME SwitchInv, LeaveStack, NEW t \in TaskPages, t = current
  PROVE  /\ reg' \in [Registers -> Words] /\ mem' \in [Addresses -> Words] /\ pc' = "dealloc"
         /\ reg'["ESP"] = Top(Kernel) - 7
         /\ \A r \in CalleeSaved \ {"ESP"} : reg'[r] = called[Kernel][r]
         /\ mem'[Top(Kernel) - 6] = t
         /\ \A b \in Addresses :
              (\A i \in (PageWords - 8) .. (PageWords - 6) : b # Kernel + i) => mem'[b] = mem[b]
<1>1. /\ SwitchTypes /\ pc = "cleanup" /\ KernelSaved
      /\ reg["ESP"] = Top(t) - 2 /\ mem[Top(t) - 1] = t /\ mem[Top(t)] = Kernel
  BY DEF LeaveStack, SwitchInv, Control, KernelWaits, KernelSaved
<1>2. /\ Kernel \in Contexts /\ Kernel \in Nat /\ t \in Contexts /\ t \in Nat
      /\ PageWords \in Nat /\ PageWords >= 20
  BY PagesApart, Sizes DEF Contexts
<1>3. PICK i \in 0 .. PageWords - 3 : i = PageWords - 3
  <2>1. PageWords - 3 \in 0 .. PageWords - 3
    BY <1>2
  <2> QED  BY <2>1
<1>4. PICK n : n = DeallocHead(Machine)
  OBVIOUS
<1>5. /\ n \in Machines
      /\ n.reg["ESP"] = Kernel + (PageWords - 8)
      /\ n.mem[Kernel + (PageWords - 7)] = t
      /\ \A r \in CalleeSaved \ {"ESP"} : n.reg[r] = mem[Kernel + RegisterField[r]]
      /\ \A b \in Addresses :
           (\A k \in 6 .. 8 : b # Kernel + (PageWords - k)) => n.mem[b] = mem[b]
  <2>1. /\ Machine \in Machines /\ Machine.reg = reg /\ Machine.mem = mem
    BY <1>1, MachineIs
  <2>2. Top(t) - 2 = t + i /\ Top(t) - 1 = t + i + 1 /\ Top(t) = t + i + 2
    BY <1>2, <1>3 DEF Top
  <2>3. mem[Kernel + 6] = Top(Kernel) - 4 /\ Top(Kernel) - 4 = Kernel + (PageWords - 5)
    BY <1>1, <1>2, RegistersAre DEF KernelSaved, Saved, Top
  <2>4. /\ Machine.reg["ESP"] = t + i /\ Machine.mem[t + i + 1] = t
        /\ Machine.mem[t + i + 2] = Kernel
        /\ Machine.mem[Kernel + 6] = Kernel + (PageWords - 5)
    BY <1>1, <2>1, <2>2, <2>3
  <2> QED  BY <1>3, <1>4, <2>1, <2>4, DeallocHeadIs
<1>6. reg' = n.reg /\ mem' = n.mem /\ pc' = "dealloc"
  BY <1>4 DEF LeaveStack, Become
<1>7. /\ Kernel + (PageWords - 8) = Top(Kernel) - 7
      /\ Kernel + (PageWords - 7) = Top(Kernel) - 6
  BY <1>2 DEF Top
<1>8. \A r \in CalleeSaved \ {"ESP"} : reg'[r] = called[Kernel][r]
  BY <1>1, <1>5, <1>6, RegistersAre DEF KernelSaved, Saved, CalleeSaved
<1>9. \A k \in 6 .. 8 : PageWords - k \in (PageWords - 8) .. (PageWords - 6)
  BY <1>2
<1>10. \A b \in Addresses :
         (\A k \in (PageWords - 8) .. (PageWords - 6) : b # Kernel + k) => n.mem[b] = mem[b]
  BY <1>5, <1>9
<1> QED  BY <1>5, <1>6, <1>7, <1>8, <1>10 DEF Machines

\* The kernel's stack is taken up while the task's page is still owned.
LEMMA LeaveStackIsRight ==
  ASSUME SwitchInv, LeaveStack
  PROVE  StepIsRight
<1>1. /\ SwitchTypes /\ RingIsLive /\ KernelSaved /\ pc = "cleanup" /\ task = 0
      /\ current \in owned /\ reg["ESP"] = Top(current) - 2
  BY DEF LeaveStack, SwitchInv, Control, KernelWaits, KernelSaved
<1>2. PICK t \in TaskPages : t = current
  BY <1>1 DEF SwitchTypes
<1>3. /\ reg' \in [Registers -> Words] /\ mem' \in [Addresses -> Words] /\ pc' = "dealloc"
      /\ reg'["ESP"] = Top(Kernel) - 7
      /\ \A r \in CalleeSaved \ {"ESP"} : reg'[r] = called[Kernel][r]
      /\ mem'[Top(Kernel) - 6] = t
      /\ \A b \in Addresses :
           (\A i \in (PageWords - 8) .. (PageWords - 6) : b # Kernel + i) => mem'[b] = mem[b]
  BY <1>2, LeaveStackIs
<1>4. UNCHANGED <<free, owned, halted, task, current, locals, called>>
  BY DEF LeaveStack, poolVars, history
<1>5. /\ Kernel \in Contexts /\ Kernel \in Nat /\ Kernel \notin TaskPages
      /\ PageWords \in Nat /\ PageWords >= 20
  BY PagesApart, Sizes DEF Contexts
<1>6. PICK I : I = (PageWords - 8) .. (PageWords - 6)
  OBVIOUS
<1>7. /\ I \in SUBSET (3 .. PageWords - 1) /\ I \in SUBSET (0 .. PageWords - 1)
      /\ 11 \notin I /\ PageWords - 4 \notin I /\ \A k \in 3 .. 10 : k \notin I
  BY <1>5, <1>6
<1>8. \A b \in Addresses : (\A i \in I : b # Kernel + i) => mem'[b] = mem[b]
  BY <1>3, <1>6
<1>9. (\A q \in TaskPages : PageKept(q)) /\ LinksKept /\ next_task' = next_task
  BY <1>5, <1>7, <1>8, OnlyOnePage
<1>10. KernelKept
  <2>1. \A k \in 0 .. PageWords - 1 : k \notin I => mem'[Kernel + k] = mem[Kernel + k]
    <3>1. Kernel \in Contexts /\ I \in SUBSET (0 .. PageWords - 1)
      BY <1>5, <1>7
    <3> QED  BY <1>8, <3>1, OnlyWords
  <2> QED  BY <1>7, <2>1 DEF KernelKept
<1>11. SwitchTypes'
  BY <1>1, <1>3, <1>4 DEF SwitchTypes
<1>12. RingIsLive'
  BY <1>1, <1>4, <1>9, RingKept
<1>13. Control'
  BY <1>1, <1>2, <1>3, <1>4 DEF Control, Top, Kernel
<1>14. StacksKept'
  <2>1. \A q \in owned \ {current} : StackKept(q)'
    <3> SUFFICES ASSUME NEW q \in owned \ {current}
                 PROVE  StackKept(q)'
      OBVIOUS
    <3>1. StackKept(q) /\ q \in TaskPages
      BY <1>1 DEF SwitchInv, StacksKept, StackKept, SwitchTypes
    <3> QED  BY <1>1, <1>4, <1>9, <3>1, StackFramed
  <2> QED  BY <1>4, <2>1 DEF StacksKept, StackKept
<1>15. KernelSaved'
  BY <1>1, <1>4, <1>10, KernelFramed
<1>16. TasksWait'
  <2>1. \A q \in owned \ {current} : Waits(q)'
    <3> SUFFICES ASSUME NEW q \in owned \ {current}
                 PROVE  Waits(q)'
      OBVIOUS
    <3>1. Waits(q) /\ q \in TaskPages
      BY <1>1 DEF SwitchInv, TasksWait, SwitchTypes, InTaskCode
    <3> QED  BY <1>1, <1>4, <1>9, <3>1, WaitsFramed
  <2> QED  BY <1>4, <2>1 DEF TasksWait
<1>17. RegistersStep
  BY <1>3 DEF RegistersStep
<1>18. Scheduled
  <2>1. /\ [p \in TaskPages |-> mem[p + NextField]]' = [p \in TaskPages |-> mem[p + NextField]]
        /\ [p \in TaskPages |-> mem[p + PreviousField]]'
              = [p \in TaskPages |-> mem[p + PreviousField]]
    BY <1>9 DEF LinksKept
  <2>2. PageOf(reg["ESP"])' = Kernel
    BY <1>3, KernelStackIs DEF PageOf
  <2>3. Scheduling!LeaveStack
    BY <1>1, <1>3, <1>4, <1>9, <2>1, <2>2
       DEF Scheduling!LeaveStack, Scheduling!poolVars, Scheduling!links
  <2> QED  BY <2>3 DEF Scheduled, Scheduling!Next, Scheduling!KernelStep
<1> QED
  BY <1>11, <1>12, <1>13, <1>14, <1>15, <1>16, <1>17, <1>18
     DEF StepIsRight, SwitchInv, KernelWaits, KernelSaved

\* What Deallocate does to the machine
LEMMA DeallocateIs ==
  ASSUME SwitchInv, Deallocate, NEW t \in TaskPages, t = current
  PROVE  /\ reg' \in [Registers -> Words] /\ mem' \in [Addresses -> Words] /\ pc' = "resumed"
         /\ reg'["ESP"] = Top(Kernel) - 2
         /\ \A r \in CalleeSaved : reg'[r] = called[Kernel][r]
         /\ Pool!FreePage(t)
         /\ mem'[t + 1] \in free \union {0}
         /\ \A b \in Addresses : (\A i \in {0, 1} : b # t + i) => mem'[b] = mem[b]
<1>1. /\ SwitchTypes /\ pc = "dealloc" /\ KernelSaved
      /\ reg["ESP"] = Top(Kernel) - 7 /\ mem[Top(Kernel) - 6] = t
      /\ \A r \in CalleeSaved \ {"ESP"} : reg[r] = called[Kernel][r]
  BY DEF Deallocate, SwitchInv, Control, KernelWaits, KernelSaved
<1>2. /\ Kernel \in Contexts /\ Kernel \in Nat /\ t \in Contexts /\ t \in Nat /\ t # Kernel
      /\ PageWords \in Nat /\ PageWords >= 20
  BY PagesApart, Sizes DEF Contexts
<1>3. /\ {"EDI", "ESI", "EBP", "ESP", "EBX", "EDX", "ECX", "EAX"} = Registers
      /\ CalleeSaved = {"EDI", "ESI", "EBP", "ESP", "EBX"}
  BY RegistersAre DEF CalleeSaved
<1>4. /\ t \in Addresses /\ t + 1 \in Addresses /\ t + 0 = t /\ t # t + 1
      /\ Kernel + (PageWords - 4) \in Addresses
      /\ Kernel + (PageWords - 4) # t /\ Kernel + (PageWords - 4) # t + 1
  <2>1. /\ 0 \in 0 .. PageWords - 1 /\ 1 \in 0 .. PageWords - 1
        /\ PageWords - 4 \in 0 .. PageWords - 1 /\ t + 0 = t /\ t # t + 1
    BY <1>2
  <2>2. t + 0 \in Addresses /\ t + 1 \in Addresses /\ Kernel + (PageWords - 4) \in Addresses
    BY <1>2, <2>1, WordsOfPages
  <2>3. Kernel + (PageWords - 4) # t + 0 /\ Kernel + (PageWords - 4) # t + 1
    BY <1>2, <2>1, WordsApart
  <2> QED  BY <2>1, <2>2, <2>3
<1>5. Word(Machine, 1) = t
  <2>1. Top(Kernel) - 7 + 1 = Top(Kernel) - 6
    BY <1>2 DEF Top
  <2> QED  BY <1>1, <2>1, MachineIs DEF Word
<1>6. PICK header \in free \union {0} :
        LET m1 == [Machine EXCEPT !.mem[t] = 1, !.mem[t + NextField] = header]
            m2 == [m1 EXCEPT !.reg["EAX"] = 0, !.reg["ECX"] = 0, !.reg["EDX"] = 0]
        IN  Return(DeallocTail(AddEsp(m2, 1)))
  BY <1>5 DEF Deallocate
<1>7. PICK m1 : m1 = [Machine EXCEPT !.mem[t] = 1, !.mem[t + NextField] = header]
  OBVIOUS
<1>8. PICK m2 : m2 = [m1 EXCEPT !.reg["EAX"] = 0, !.reg["ECX"] = 0, !.reg["EDX"] = 0]
  OBVIOUS
<1>9. Return(DeallocTail(AddEsp(m2, 1)))
  BY <1>6, <1>7, <1>8
<1>10. header \in Words /\ 0 \in Words /\ 1 \in Words
  BY <1>1, <1>6, PagesApart DEF SwitchTypes, Words, Contexts
<1>11. /\ m1 \in Machines /\ m1.reg = reg /\ m1.mem[t + 1] = header
       /\ \A b \in Addresses : b # t /\ b # t + 1 => m1.mem[b] = mem[b]
  <2>1. m1 = [Machine EXCEPT !.mem = [[mem EXCEPT ![t] = 1] EXCEPT ![t + 1] = header]]
    BY <1>1, <1>7, MachineIs, OtherFieldsAre DEF Machine
  <2>2. PICK f : f = [[mem EXCEPT ![t] = 1] EXCEPT ![t + 1] = header]
    OBVIOUS
  <2>3. /\ f \in [Addresses -> Words] /\ f[t + 1] = header
        /\ \A b \in Addresses : b # t /\ b # t + 1 => f[b] = mem[b]
    BY <1>1, <1>4, <1>10, <2>2 DEF SwitchTypes
  <2>4. m1.reg = reg /\ m1.mem = f /\ m1 = [reg |-> reg, mem |-> f]
    BY <2>1, <2>2 DEF Machine
  <2> QED  BY <1>1, <2>3, <2>4 DEF Machines, SwitchTypes
<1>12. /\ m2 \in Machines /\ m2.mem = m1.mem
       /\ \A r \in CalleeSaved : m2.reg[r] = reg[r]
  <2>1. PICK f : f = [[[reg EXCEPT !["EAX"] = 0] EXCEPT !["ECX"] = 0] EXCEPT !["EDX"] = 0]
    OBVIOUS
  <2>2. f \in [Registers -> Words] /\ \A r \in CalleeSaved : f[r] = reg[r]
    BY <1>1, <1>3, <1>10, <2>1 DEF SwitchTypes
  <2>3. m2.reg = f /\ m2.mem = m1.mem /\ m2 = [reg |-> f, mem |-> m1.mem]
    BY <1>8, <1>11, <2>1 DEF Machines
  <2> QED  BY <1>11, <2>2, <2>3 DEF Machines
<1>13. PICK i \in Nat : i = PageWords - 8
  <2>1. PageWords - 8 \in Nat
    BY <1>2
  <2> QED  BY <2>1
<1>14. PICK a : a = AddEsp(m2, 1)
  OBVIOUS
<1>15. /\ a \in Machines /\ a.mem = m1.mem /\ a.reg["ESP"] = Kernel + (PageWords - 7)
       /\ \A r \in CalleeSaved \ {"ESP"} : a.reg[r] = reg[r]
  <2>1. Top(Kernel) - 7 = Kernel + i /\ i + 1 = PageWords - 7 /\ 1 \in Nat
    BY <1>2, <1>13 DEF Top
  <2>2. m2 \in Machines /\ m2.reg["ESP"] = Kernel + i /\ Kernel \in Contexts /\ 1 \in Nat
    BY <1>1, <1>2, <1>3, <1>12, <2>1
  <2>3. /\ a \in Machines /\ a.mem = m2.mem /\ a.reg["ESP"] = Kernel + (i + 1)
        /\ \A s \in Registers : s # "ESP" => a.reg[s] = m2.reg[s]
    BY <1>2, <1>13, <1>14, <2>2, EspUpIs
  <2> QED  BY <1>3, <1>12, <2>1, <2>3
<1>16. PICK o : o = DeallocTail(a)
  OBVIOUS
<1>17. /\ o \in Machines /\ o.mem = m1.mem /\ o.reg["ESP"] = Kernel + (PageWords - 4)
       /\ \A r \in CalleeSaved \ {"ESP"} : o.reg[r] = reg[r]
  <2>1. /\ o \in Machines /\ o.mem = a.mem /\ o.reg["ESP"] = Kernel + (PageWords - 4)
        /\ \A s \in Registers : s \notin {"ESP", "EAX"} => o.reg[s] = a.reg[s]
    BY <1>15, <1>16, DeallocTailIs
  <2> QED  BY <1>3, <1>15, <2>1
<1>18. Word(o, 0) = InRun
  <2>1. mem[Top(Kernel) - 3] = InRun
    BY <1>1 DEF KernelSaved
  <2>2. /\ Top(Kernel) - 3 = Kernel + (PageWords - 4)
        /\ Kernel + (PageWords - 4) + 0 = Kernel + (PageWords - 4)
    BY <1>2 DEF Top
  <2> QED  BY <1>4, <1>11, <1>17, <2>1, <2>2 DEF Word
<1>19. PICK u : u = AddEsp(o, 1)
  OBVIOUS
<1>20. /\ u \in Machines /\ u.mem = m1.mem /\ u.reg["ESP"] = Top(Kernel) - 2
       /\ \A r \in CalleeSaved \ {"ESP"} : u.reg[r] = reg[r]
  <2>1. PICK k \in Nat : k = PageWords - 4
    <3>1. PageWords - 4 \in Nat
      BY <1>2
    <3> QED  BY <3>1
  <2>2. o.reg["ESP"] = Kernel + k /\ 1 \in Nat /\ Kernel + (k + 1) = Top(Kernel) - 2
    BY <1>2, <1>17, <2>1 DEF Top
  <2>3. /\ u \in Machines /\ u.mem = o.mem /\ u.reg["ESP"] = Kernel + (k + 1)
        /\ \A s \in Registers : s # "ESP" => u.reg[s] = o.reg[s]
    BY <1>2, <1>17, <1>19, <2>1, <2>2, EspUpIs
  <2> QED  BY <1>3, <1>17, <2>2, <2>3
<1>21. reg' = u.reg /\ mem' = u.mem /\ pc' = "resumed"
  BY <1>9, <1>14, <1>16, <1>18, <1>19, LabelsApart DEF Return, Become
<1>22. \A r \in CalleeSaved : reg'[r] = called[Kernel][r]
  <2>1. called[Kernel]["ESP"] = Top(Kernel) - 2
    BY <1>1 DEF KernelSaved
  <2> QED  BY <1>1, <1>20, <1>21, <2>1
<1>23. Pool!FreePage(t)
  BY <1>5 DEF Deallocate
<1>24. \A b \in Addresses : (\A k \in {0, 1} : b # t + k) => mem'[b] = mem[b]
  BY <1>4, <1>11, <1>20, <1>21
<1> QED  BY <1>6, <1>11, <1>20, <1>21, <1>22, <1>23, <1>24 DEF Machines

\* The page is freed on the kernel's stack.
LEMMA DeallocateIsRight ==
  ASSUME SwitchInv, Deallocate
  PROVE  StepIsRight
<1>1. /\ SwitchTypes /\ RingIsLive /\ pc = "dealloc" /\ task = 0 /\ current \in owned
      /\ reg["ESP"] = Top(Kernel) - 7
  BY DEF Deallocate, SwitchInv, Control
<1>2. PICK t \in TaskPages : t = current
  BY <1>1 DEF SwitchTypes
<1>3. /\ reg' \in [Registers -> Words] /\ mem' \in [Addresses -> Words] /\ pc' = "resumed"
      /\ reg'["ESP"] = Top(Kernel) - 2
      /\ \A r \in CalleeSaved : reg'[r] = called[Kernel][r]
      /\ Pool!FreePage(t)
      /\ mem'[t + 1] \in free \union {0}
      /\ \A b \in Addresses : (\A i \in {0, 1} : b # t + i) => mem'[b] = mem[b]
  BY <1>2, DeallocateIs
<1>4. /\ current' = 0 /\ UNCHANGED <<task, locals, called>>
      /\ owned' = owned \ {t} /\ free' = free \union {t} /\ halted' = halted
  BY <1>3 DEF Deallocate, history, Pool!FreePage
<1>5. /\ t \in Contexts /\ TaskPages \subseteq Contexts /\ Kernel \in Contexts /\ t # Kernel
      /\ PageWords \in Nat /\ PageWords >= 20 /\ 0 \notin TaskPages
  BY PagesApart, Sizes DEF Contexts
<1>6. \A q \in Contexts : \A k \in 0 .. PageWords - 1 :
        q # t \/ k \notin {0, 1} => mem'[q + k] = mem[q + k]
  <2>1. {0, 1} \in SUBSET (0 .. PageWords - 1)
    BY <1>5
  <2> QED  BY <1>3, <1>5, <2>1, OnlyWords
<1>7. /\ \A q \in TaskPages : q # t => PageKept(q)
      /\ next_task' = next_task
  <2>1. 11 \in 0 .. PageWords - 1
    BY <1>5
  <2> QED  BY <1>5, <1>6, <2>1, OtherFieldsAre DEF PageKept, next_task
<1>8. /\ \A q \in TaskPages : mem'[q + PreviousField] = mem[q + PreviousField]
      /\ \A q \in TaskPages : q # t => mem'[q + NextField] = mem[q + NextField]
      /\ mem'[t + NextField] \in free \union {0}
  <2>1. 1 \in 0 .. PageWords - 1 /\ 2 \in 0 .. PageWords - 1 /\ 2 \notin {0, 1}
    BY <1>5
  <2> QED  BY <1>3, <1>5, <1>6, <2>1, OtherFieldsAre
<1>9. SwitchTypes'
  BY <1>1, <1>3, <1>4 DEF SwitchTypes, Links
<1>10. RingIsLive'
  <2>1. Live' = Live /\ Live \subseteq TaskPages \ {t}
    BY <1>1, <1>2, <1>4, <1>5 DEF Live, SwitchTypes
  <2>2. \A p \in Live : /\ mem'[p + NextField] = mem[p + NextField]
                       /\ mem'[p + PreviousField] = mem[p + PreviousField]
    BY <1>8, <2>1
  <2>3. \A p \in TaskPages : mem'[p + NextField] \in Links /\ mem'[p + PreviousField] \in Links
    BY <1>1, <1>8 DEF RingIsLive, Links, SwitchTypes
  <2> QED  BY <1>1, <1>7, <2>1, <2>2, <2>3, RingFramed DEF SwitchTypes
<1>11. Control'
  BY <1>1, <1>3, <1>4 DEF Control, Top, Kernel
<1>12. StacksKept'
  <2>1. \A q \in owned' \ {current'} : StackKept(q)'
    <3> SUFFICES ASSUME NEW q \in owned' \ {current'}
                 PROVE  StackKept(q)'
      OBVIOUS
    <3>1. StackKept(q) /\ q \in TaskPages /\ q # t
      BY <1>1, <1>2, <1>4 DEF SwitchInv, StacksKept, StackKept, SwitchTypes
    <3> QED  BY <1>1, <1>4, <1>7, <3>1, StackFramed
  <2> QED  BY <2>1 DEF StacksKept, StackKept
<1>13. KernelWaits'
  BY <1>3 DEF KernelWaits, InTaskCode
<1>14. TasksWait'
  <2>1. \A q \in owned' \ {current'} : Waits(q)'
    <3> SUFFICES ASSUME NEW q \in owned' \ {current'}
                 PROVE  Waits(q)'
      OBVIOUS
    <3>1. Waits(q) /\ q \in TaskPages /\ q # t
      BY <1>1, <1>2, <1>4 DEF SwitchInv, TasksWait, SwitchTypes, InTaskCode
    <3> QED  BY <1>1, <1>4, <1>7, <3>1, WaitsFramed
  <2> QED  BY <2>1 DEF TasksWait
<1>15. RegistersStep
  BY <1>3 DEF RegistersStep
<1>16. Scheduled
  <2>1. PICK header \in free \union {0} : header = mem'[t + NextField]
    BY <1>8
  <2>2. [p \in TaskPages |-> mem[p + NextField]]'
          = [[p \in TaskPages |-> mem[p + NextField]] EXCEPT ![current] = header]
    BY <1>2, <1>8, <2>1
  <2>3. [p \in TaskPages |-> mem[p + PreviousField]]'
          = [p \in TaskPages |-> mem[p + PreviousField]]
    BY <1>8
  <2>4. PageOf(reg["ESP"])' = PageOf(reg["ESP"])
    BY <1>1, <1>3, KernelStackIs DEF PageOf
  <2>5. Scheduling!Pool!FreePage(current)
    BY <1>2, <1>3 DEF Scheduling!Pool!FreePage, Pool!FreePage
  <2>6. Scheduling!Deallocate
    BY <1>1, <1>3, <1>4, <1>7, <2>1, <2>2, <2>3, <2>4, <2>5 DEF Scheduling!Deallocate
  <2> QED  BY <2>6 DEF Scheduled, Scheduling!Next, Scheduling!KernelStep
<1> QED
  BY <1>9, <1>10, <1>11, <1>12, <1>13, <1>14, <1>15, <1>16 DEF StepIsRight, SwitchInv

\* _push_to_task_stack, where the task's stack pointer is at word i of its page
LEMMA PushToTaskStackIs ==
  ASSUME NEW f \in [Addresses -> Words], NEW p \in TaskPages, NEW i \in 8 .. PageWords,
         f[p + 6] = p + i, NEW w \in Words, NEW g, g = PushToTaskStack(f, p, w)
  PROVE  /\ g \in [Addresses -> Words]
         /\ g[p + 6] = p + (i - 1)
         /\ g[p + (i - 1)] = w
         /\ \A b \in Addresses : b # p + 6 /\ b # p + (i - 1) => g[b] = f[b]
<1>1. /\ p \in Contexts /\ p \in Nat /\ i - 1 \in 0 .. PageWords - 1 /\ 6 \in 0 .. PageWords - 1
      /\ PageWords \in Nat /\ RegisterField["ESP"] = 6
  BY PagesApart, Sizes, RegistersAre DEF Contexts
<1>2. p + 6 \in Addresses /\ p + (i - 1) \in Addresses /\ p + 6 # p + (i - 1)
  BY <1>1, WordsOfPages
<1>3. f[p + 6] - 1 = p + (i - 1) /\ p + (i - 1) \in Words
  BY <1>1 DEF Words
<1>4. g = [[f EXCEPT ![p + 6] = p + (i - 1)] EXCEPT ![p + (i - 1)] = w]
  <2>1. g = [f EXCEPT ![p + 6] = f[p + 6] - 1, ![f[p + 6] - 1] = w]
    BY <1>1 DEF PushToTaskStack
  <2> QED  BY <1>3, <2>1
<1> QED  BY <1>2, <1>3, <1>4

-----------------------------------------------------------------------------
(***************************************************************************)
(* A task is added                                                         *)
(***************************************************************************)
\* What AddAllocate does to memory
LEMMA AddAllocateIs ==
  ASSUME SwitchTypes, NEW p \in TaskPages, AddAllocate(p)
  PROVE  /\ mem' \in [Addresses -> Words]
         /\ mem'[p + SchedulerField] = Kernel
         /\ mem'[p + NextField] = 0 /\ mem'[p + PreviousField] = 0
         /\ mem'[p + 6] = Top(p) - 2
         /\ mem'[Top(p)] = CleanupTask /\ mem'[Top(p) - 1] = Code
         /\ \A q \in Contexts : \A k \in 0 .. PageWords - 1 :
              q # p => mem'[q + k] = mem[q + k]
<1>1. /\ p \in Contexts /\ p \in Nat /\ Kernel \in Words /\ PageWords \in Nat /\ PageWords >= 20
      /\ SchedulerField = 0 /\ NextField = 1 /\ PreviousField = 2 /\ RegisterField["ESP"] = 6
  BY PagesApart, Sizes, RegistersAre, OtherFieldsAre DEF Contexts, Words
<1>2. /\ 0 \in 0 .. PageWords - 1 /\ 1 \in 0 .. PageWords - 1 /\ 2 \in 0 .. PageWords - 1
      /\ 6 \in 0 .. PageWords - 1 /\ PageWords - 1 \in 0 .. PageWords - 1
      /\ PageWords - 2 \in 0 .. PageWords - 1 /\ PageWords - 3 \in 0 .. PageWords - 1
  BY <1>1
<1>3. \A k \in 0 .. PageWords - 1 : p + k \in Addresses
  BY <1>1, WordsOfPages
<1>4. PICK c : c = [a \in Addresses |-> IF PageOf(a) = p THEN 0 ELSE mem[a]]
  OBVIOUS
<1>5. /\ c \in [Addresses -> Words]
      /\ c[p + 1] = 0 /\ c[p + 2] = 0
      /\ \A q \in Contexts : \A k \in 0 .. PageWords - 1 : q # p => c[q + k] = mem[q + k]
  <2>1. 0 \in Words
    BY DEF Words
  <2>2. PageOf(p + 1) = p /\ PageOf(p + 2) = p
    BY <1>1, <1>2, PageOfWord
  <2>3. ASSUME NEW q \in Contexts, NEW k \in 0 .. PageWords - 1, q # p
        PROVE  c[q + k] = mem[q + k]
    <3>1. PageOf(q + k) = q /\ q + k \in Addresses
      BY PageOfWord, WordsOfPages
    <3> QED  BY <1>4, <2>3, <3>1
  <2> QED  BY <1>2, <1>3, <1>4, <2>1, <2>2, <2>3 DEF SwitchTypes
<1>6. PICK s : s = [[c EXCEPT ![p + 0] = Kernel] EXCEPT ![p + 6] = p + PageWords]
  OBVIOUS
<1>7. /\ s \in [Addresses -> Words] /\ s[p + 0] = Kernel /\ s[p + 6] = p + PageWords
      /\ \A b \in Addresses : b # p + 0 /\ b # p + 6 => s[b] = c[b]
  <2>1. p + PageWords \in Words /\ p + 0 # p + 6 /\ p + 0 \in Addresses /\ p + 6 \in Addresses
    BY <1>1, <1>2, <1>3 DEF Words
  <2> QED  BY <1>1, <1>5, <1>6, <2>1
<1>8. PICK f : f = PushToTaskStack(s, p, CleanupTask)
  OBVIOUS
<1>9. PICK g : g = PushToTaskStack(f, p, Code)
  OBVIOUS
<1>10. PICK h : h = PushToTaskStack(g, p, 0)
  OBVIOUS
<1>11. mem' = h
  <2>1. s = [c EXCEPT ![p + SchedulerField] = Kernel,
                      ![p + RegisterField["ESP"]] = p + PageWords]
    BY <1>1, <1>6
  <2> QED  BY <1>4, <1>8, <1>9, <1>10, <2>1 DEF AddAllocate
<1>12. CleanupTask \in Words /\ Code \in Words /\ 0 \in Words
  BY DEF Words, Labels
<1>13. /\ f \in [Addresses -> Words] /\ f[p + 6] = p + (PageWords - 1)
       /\ f[p + (PageWords - 1)] = CleanupTask
       /\ \A b \in Addresses : b # p + 6 /\ b # p + (PageWords - 1) => f[b] = s[b]
  <2>1. PICK i \in 8 .. PageWords : i = PageWords
    BY <1>1
  <2> QED  BY <1>7, <1>8, <1>12, <2>1, PushToTaskStackIs
<1>14. /\ g \in [Addresses -> Words] /\ g[p + 6] = p + (PageWords - 2)
       /\ g[p + (PageWords - 2)] = Code
       /\ \A b \in Addresses : b # p + 6 /\ b # p + (PageWords - 2) => g[b] = f[b]
  <2>1. PICK i \in 8 .. PageWords : i = PageWords - 1 /\ i - 1 = PageWords - 2
    BY <1>1
  <2>2. f[p + 6] = p + i
    BY <1>13, <2>1
  <2>3. /\ g \in [Addresses -> Words] /\ g[p + 6] = p + (i - 1)
        /\ g[p + (i - 1)] = Code
        /\ \A b \in Addresses : b # p + 6 /\ b # p + (i - 1) => g[b] = f[b]
    BY <1>9, <1>12, <1>13, <2>1, <2>2, PushToTaskStackIs
  <2> QED  BY <2>1, <2>3
<1>15. /\ h \in [Addresses -> Words] /\ h[p + 6] = p + (PageWords - 3)
       /\ \A b \in Addresses : b # p + 6 /\ b # p + (PageWords - 3) => h[b] = g[b]
  <2>1. PICK i \in 8 .. PageWords : i = PageWords - 2 /\ i - 1 = PageWords - 3
    BY <1>1
  <2>2. g[p + 6] = p + i
    BY <1>14, <2>1
  <2>3. /\ h \in [Addresses -> Words] /\ h[p + 6] = p + (i - 1)
        /\ \A b \in Addresses : b # p + 6 /\ b # p + (i - 1) => h[b] = g[b]
    BY <1>10, <1>12, <1>14, <2>1, <2>2, PushToTaskStackIs
  <2> QED  BY <2>1, <2>3
<1>16. \A b \in Addresses :
         b \notin {p + 6, p + (PageWords - 1), p + (PageWords - 2), p + (PageWords - 3)}
           => h[b] = s[b]
  <2> SUFFICES ASSUME NEW b \in Addresses,
                      b \notin {p + 6, p + (PageWords - 1), p + (PageWords - 2),
                                p + (PageWords - 3)}
               PROVE  h[b] = s[b]
    OBVIOUS
  <2>1. f[b] = s[b]
    BY <1>13
  <2>2. g[b] = f[b]
    BY <1>14
  <2>3. h[b] = g[b]
    BY <1>15
  <2> QED  BY <2>1, <2>2, <2>3
<1>17. h[p + 0] = Kernel /\ h[p + 1] = 0 /\ h[p + 2] = 0
  <2>1. \A k \in 0 .. 2 :
          /\ p + k \in Addresses /\ p + k # p + 6 /\ p + k # p + (PageWords - 1)
          /\ p + k # p + (PageWords - 2) /\ p + k # p + (PageWords - 3)
    BY <1>1, <1>3
  <2>2. h[p + 0] = s[p + 0] /\ h[p + 1] = s[p + 1] /\ h[p + 2] = s[p + 2]
    BY <1>16, <2>1
  <2>3. p + 1 # p + 0 /\ p + 2 # p + 0
    BY <1>1
  <2> QED  BY <1>5, <1>7, <2>1, <2>2, <2>3
<1>18. h[p + (PageWords - 1)] = CleanupTask /\ h[p + (PageWords - 2)] = Code
  <2>1. /\ p + (PageWords - 1) \in Addresses /\ p + (PageWords - 2) \in Addresses
        /\ p + (PageWords - 1) # p + 6 /\ p + (PageWords - 2) # p + 6
        /\ p + (PageWords - 1) # p + (PageWords - 2)
        /\ p + (PageWords - 1) # p + (PageWords - 3)
        /\ p + (PageWords - 2) # p + (PageWords - 3)
    BY <1>1, <1>2, <1>3
  <2> QED  BY <1>13, <1>14, <1>15, <2>1
<1>19. \A q \in Contexts : \A k \in 0 .. PageWords - 1 : q # p => h[q + k] = mem[q + k]
  <2> SUFFICES ASSUME NEW q \in Contexts, NEW k \in 0 .. PageWords - 1, q # p
               PROVE  h[q + k] = mem[q + k]
    OBVIOUS
  <2>1. q + k \in Addresses
    BY WordsOfPages
  <2>2. /\ q + k # p + 0 /\ q + k # p + 6 /\ q + k # p + (PageWords - 1)
        /\ q + k # p + (PageWords - 2) /\ q + k # p + (PageWords - 3)
    BY <1>1, <1>2, WordsApart
  <2> QED  BY <1>5, <1>7, <1>16, <2>1, <2>2
<1>20. /\ Top(p) = p + (PageWords - 1) /\ Top(p) - 1 = p + (PageWords - 2)
       /\ Top(p) - 2 = p + (PageWords - 3)
  BY <1>1 DEF Top
<1> QED  BY <1>1, <1>11, <1>15, <1>17, <1>18, <1>19, <1>20

\* A page becomes a task that waits.
LEMMA AddAllocateIsRight ==
  ASSUME SwitchInv, NEW p \in TaskPages, AddAllocate(p)
  PROVE  StepIsRight
<1>1. /\ SwitchTypes /\ RingIsLive /\ pc \in {"caller", "task"} /\ task = 0 /\ current = 0
  BY DEF AddAllocate, SwitchInv, Control
<1>2. /\ mem' \in [Addresses -> Words]
      /\ mem'[p + SchedulerField] = Kernel
      /\ mem'[p + NextField] = 0 /\ mem'[p + PreviousField] = 0
      /\ mem'[p + 6] = Top(p) - 2
      /\ mem'[Top(p)] = CleanupTask /\ mem'[Top(p) - 1] = Code
      /\ \A q \in Contexts : \A k \in 0 .. PageWords - 1 :
           q # p => mem'[q + k] = mem[q + k]
  BY <1>1, AddAllocateIs
<1>3. /\ p \in free /\ p \notin owned
      /\ free' = free \ {p} /\ owned' = owned \union {p} /\ halted' = halted
      /\ task' = p /\ pc' = "add" /\ reg' = reg /\ current' = current
      /\ locals' = [locals EXCEPT ![p] = <<>>]
      /\ called' = [called EXCEPT ![p] = <<>>]
  BY <1>1 DEF AddAllocate, Pool!AllocatePage, SwitchTypes
<1>4. /\ p \in Contexts /\ TaskPages \subseteq Contexts /\ Kernel \in Contexts /\ p # Kernel
      /\ PageWords \in Nat /\ PageWords >= 20 /\ 0 \notin TaskPages /\ p \in Nat
  BY PagesApart, Sizes DEF Contexts
<1>5. /\ \A q \in TaskPages : q # p => PageKept(q)
      /\ next_task' = next_task /\ KernelKept
  <2>1. 11 \in 0 .. PageWords - 1
    BY <1>4
  <2> QED  BY <1>2, <1>4, <2>1, OtherFieldsAre DEF PageKept, next_task, KernelKept
<1>6. \A q \in TaskPages : q # p => /\ mem'[q + NextField] = mem[q + NextField]
                                  /\ mem'[q + PreviousField] = mem[q + PreviousField]
  <2>1. 1 \in 0 .. PageWords - 1 /\ 2 \in 0 .. PageWords - 1
    BY <1>4
  <2> QED  BY <1>2, <1>4, <2>1, OtherFieldsAre
<1>7. /\ locals'[p] = <<>> /\ called'[p] = <<>>
      /\ \A q \in TaskPages : q # p => locals'[q] = locals[q]
      /\ \A q \in Contexts : q # p => called'[q] = called[q]
  BY <1>1, <1>3, <1>4 DEF SwitchTypes
<1>8. SwitchTypes'
  <2>1. locals' \in [TaskPages -> Seq(Int)] /\ \A q \in TaskPages : Len(locals'[q]) <= Locals
    <3>1. <<>> \in Seq(Int) /\ Len(<<>>) = 0
      BY EmptySeq
    <3>2. locals' \in [TaskPages -> Seq(Int)]
      BY <1>1, <1>3, <3>1 DEF SwitchTypes
    <3>3. Len(locals'[p]) <= Locals
      BY <1>7, <3>1, Sizes
    <3>4. \A q \in TaskPages : q # p => Len(locals'[q]) <= Locals
      BY <1>1, <1>7 DEF SwitchTypes
    <3> QED  BY <3>2, <3>3, <3>4
  <2>2. called' \in [Contexts -> [Registers -> Words] \union {<<>>}]
    BY <1>1, <1>3 DEF SwitchTypes
  <2> QED  BY <1>1, <1>2, <1>3, <2>1, <2>2 DEF SwitchTypes, Links
<1>9. Live' = Live /\ Live \subseteq TaskPages /\ p \notin Live
  BY <1>1, <1>3, <1>4 DEF Live, SwitchTypes
<1>10. RingIsLive'
  <2>1. \A q \in Live : /\ mem'[q + NextField] = mem[q + NextField]
                       /\ mem'[q + PreviousField] = mem[q + PreviousField]
    BY <1>6, <1>9
  <2>2. \A q \in TaskPages : mem'[q + NextField] \in Links /\ mem'[q + PreviousField] \in Links
    BY <1>1, <1>2, <1>6 DEF RingIsLive, Links
  <2> QED  BY <1>1, <1>5, <1>9, <2>1, <2>2, RingFramed DEF SwitchTypes
<1>11. Control'
  <2>1. CASE pc = "caller"
    BY <1>1, <1>3, <2>1 DEF SwitchInv, Control, Top, Kernel
  <2>2. CASE pc = "task"
    <3>1. TaskRuns /\ next_task # p /\ next_task \in TaskPages
      BY <1>1, <1>9, <2>2 DEF SwitchInv, Control, TaskRuns
    <3>2. TaskRuns'
      BY <1>3, <1>5, <1>7, <1>9, <3>1 DEF TaskRuns, Top
    <3> QED  BY <1>1, <1>3, <3>2 DEF Control
  <2> QED  BY <1>1, <2>1, <2>2
<1>12. StackKept(p)'
  <2>1. p + PageWords - 1 = Top(p) /\ DOMAIN locals'[p] = {}
    BY <1>7 DEF Top
  <2> QED  BY <1>2, <2>1 DEF StackKept
<1>13. StacksKept'
  <2>1. \A q \in owned : StackKept(q)'
    <3> SUFFICES ASSUME NEW q \in owned
                 PROVE  StackKept(q)'
      OBVIOUS
    <3>1. StackKept(q) /\ q \in TaskPages /\ q # p
      BY <1>1, <1>3, <1>4 DEF SwitchInv, StacksKept, StackKept, SwitchTypes
    <3> QED  BY <1>1, <1>5, <1>7, <3>1, StackFramed
  <2> QED  BY <1>3, <1>12, <2>1 DEF StacksKept, StackKept
<1>14. KernelWaits'
  <2>1. CASE pc = "caller"
    <3>1. reg'["ESP"] = Top(Kernel)
      BY <1>3, <2>1 DEF SwitchInv, Control
    <3> QED  BY <1>3, <3>1 DEF KernelWaits, InTaskCode, Top, Kernel
  <2>2. CASE pc = "task"
    <3>1. KernelSaved
      BY <2>2, TaskCode
    <3>2. KernelSaved'
      BY <1>4, <1>5, <1>7, <3>1, KernelFramed
    <3> QED  BY <3>2 DEF KernelWaits, KernelSaved
  <2> QED  BY <1>1, <2>1, <2>2
<1>15. Waits(p)'
  BY <1>2, <1>7, RegistersAre DEF Waits, Fresh, Top
<1>16. TasksWait'
  <2>1. InTaskCode' <=> InTaskCode
    BY <1>1, <1>3 DEF SwitchInv, Control, InTaskCode, Top, Kernel
  <2>2. ASSUME NEW q \in owned' \ {current'}, ~(InTaskCode' /\ q = next_task')
        PROVE  Waits(q)'
    <3>1. CASE q = p
      BY <1>15, <3>1
    <3>2. CASE q # p
      <4>1. Waits(q) /\ q \in TaskPages
        BY <1>1, <1>3, <1>5, <2>1, <2>2, <3>2 DEF SwitchInv, TasksWait, SwitchTypes
      <4>2. locals'[q] = locals[q] /\ called'[q] = called[q]
        BY <1>4, <1>7, <3>2, <4>1
      <4> QED  BY <1>1, <1>5, <3>2, <4>1, <4>2, WaitsFramed
    <3> QED  BY <3>1, <3>2
  <2> QED  BY <2>2 DEF TasksWait
<1>17. RegistersStep
  BY <1>3 DEF RegistersStep
<1>18. Scheduled
  <2>1. [q \in TaskPages |-> mem[q + NextField]]'
          = [[q \in TaskPages |-> mem[q + NextField]] EXCEPT ![p] = 0]
    BY <1>2, <1>6
  <2>2. [q \in TaskPages |-> mem[q + PreviousField]]'
          = [[q \in TaskPages |-> mem[q + PreviousField]] EXCEPT ![p] = 0]
    BY <1>2, <1>6
  <2>3. PageOf(reg["ESP"])' = PageOf(reg["ESP"])
    BY <1>3 DEF PageOf
  <2>4. Scheduling!Pool!AllocatePage(p)
    BY DEF AddAllocate, Scheduling!Pool!AllocatePage, Pool!AllocatePage
  <2>5. Scheduling!AddAllocate(p)
    BY <1>1, <1>3, <1>5, <2>1, <2>2, <2>3, <2>4 DEF Scheduling!AddAllocate
  <2> QED  BY <2>5 DEF Scheduled, Scheduling!Next, Scheduling!SchedulerAddProcess
<1> QED
  BY <1>8, <1>10, <1>11, <1>13, <1>14, <1>16, <1>17, <1>18 DEF StepIsRight, SwitchInv

-----------------------------------------------------------------------------
(***************************************************************************)
(* The ring                                                                *)
(***************************************************************************)
\* nx and pv link the members of L both ways.
Linked(L, nx, pv) ==
  \A p \in L : nx[p] \in L /\ pv[nx[p]] = p /\ pv[p] \in L /\ nx[pv[p]] = p

\* A member is put in behind n.
LEMMA RingInsert ==
  ASSUME NEW L, NEW nx, NEW pv, Linked(L, nx, pv), NEW t, t \notin L, NEW n \in L,
         NEW nx2, NEW pv2,
         \A p \in L \union {t} :
           /\ nx2[p] = IF p = t THEN n ELSE IF p = pv[n] THEN t ELSE nx[p]
           /\ pv2[p] = IF p = t THEN pv[n] ELSE IF p = n THEN t ELSE pv[p]
  PROVE  Linked(L \union {t}, nx2, pv2)
<1>1. pv[n] \in L /\ nx[pv[n]] = n /\ n # t /\ pv[n] # t
  BY DEF Linked
<1>2. nx2[t] = n /\ pv2[n] = t /\ pv2[t] = pv[n] /\ nx2[pv[n]] = t
  BY <1>1
<1>3. ASSUME NEW p \in L
      PROVE  /\ nx2[p] \in L \union {t} /\ pv2[nx2[p]] = p
             /\ pv2[p] \in L \union {t} /\ nx2[pv2[p]] = p
  <2>1. nx[p] \in L /\ pv[nx[p]] = p /\ pv[p] \in L /\ nx[pv[p]] = p /\ p # t
    BY <1>3 DEF Linked
  <2>2. nx2[p] \in L \union {t} /\ pv2[nx2[p]] = p
    <3>1. CASE p = pv[n]
      BY <1>2, <3>1
    <3>2. CASE p # pv[n]
      <4>1. nx2[p] = nx[p] /\ nx[p] # n
        BY <2>1, <3>2
      <4>2. pv2[nx[p]] = pv[nx[p]]
        BY <2>1, <4>1
      <4> QED  BY <2>1, <4>1, <4>2
    <3> QED  BY <3>1, <3>2
  <2>3. pv2[p] \in L \union {t} /\ nx2[pv2[p]] = p
    <3>1. CASE p = n
      BY <1>2, <3>1
    <3>2. CASE p # n
      <4>1. pv2[p] = pv[p] /\ pv[p] # pv[n]
        BY <1>1, <2>1, <3>2
      <4>2. nx2[pv[p]] = nx[pv[p]]
        BY <2>1, <4>1
      <4> QED  BY <2>1, <4>1, <4>2
    <3> QED  BY <3>1, <3>2
  <2> QED  BY <2>2, <2>3
<1> QED  BY <1>1, <1>2, <1>3 DEF Linked

\* The first task is linked to itself.
LEMMA RingStart ==
  ASSUME NEW L, NEW nx, NEW pv, Linked(L, nx, pv), NEW t, t \notin L,
         NEW nx2, NEW pv2, nx2[t] = t, pv2[t] = t,
         \A p \in L : nx2[p] = nx[p] /\ pv2[p] = pv[p]
  PROVE  Linked(L \union {t}, nx2, pv2)
  BY DEF Linked

\* A task is taken out; if it is linked to itself, nothing need be done.
LEMMA RingRemove ==
  ASSUME NEW L, NEW nx, NEW pv, Linked(L, nx, pv), NEW t \in L, NEW nx2, NEW pv2,
         \A p \in L \ {t} : /\ nx2[p] = IF p = pv[t] THEN nx[t] ELSE nx[p]
                            /\ pv2[p] = IF p = nx[t] THEN pv[t] ELSE pv[p]
  PROVE  Linked(L \ {t}, nx2, pv2)
<1>1. nx[t] \in L /\ pv[nx[t]] = t /\ pv[t] \in L /\ nx[pv[t]] = t
  BY DEF Linked
<1>2. ASSUME NEW p \in L \ {t}
      PROVE  /\ nx2[p] \in L \ {t} /\ pv2[nx2[p]] = p
             /\ pv2[p] \in L \ {t} /\ nx2[pv2[p]] = p
  <2>1. nx[p] \in L /\ pv[nx[p]] = p /\ pv[p] \in L /\ nx[pv[p]] = p /\ p # t
    BY <1>2 DEF Linked
  <2>2. nx2[p] \in L \ {t} /\ pv2[nx2[p]] = p
    <3>1. CASE p = pv[t]
      <4>1. nx2[p] = nx[t] /\ nx[t] # t
        BY <1>1, <2>1, <3>1
      <4> QED  BY <1>1, <3>1, <4>1
    <3>2. CASE p # pv[t]
      <4>1. nx2[p] = nx[p] /\ nx[p] # t /\ nx[p] # nx[t]
        BY <1>1, <2>1, <3>2
      <4> QED  BY <2>1, <4>1
    <3> QED  BY <3>1, <3>2
  <2>3. pv2[p] \in L \ {t} /\ nx2[pv2[p]] = p
    <3>1. CASE p = nx[t]
      <4>1. pv2[p] = pv[t] /\ pv[t] # t
        BY <1>1, <2>1, <3>1
      <4> QED  BY <1>1, <3>1, <4>1
    <3>2. CASE p # nx[t]
      <4>1. pv2[p] = pv[p] /\ pv[p] # t /\ pv[p] # pv[t]
        BY <1>1, <2>1, <3>2
      <4> QED  BY <2>1, <4>1
    <3> QED  BY <3>1, <3>2
  <2> QED  BY <2>2, <2>3
<1> QED  BY <1>2 DEF Linked

\* The links as functions, as in Scheduler
nexts     == [p \in TaskPages |-> mem[p + NextField]]
previouss == [p \in TaskPages |-> mem[p + PreviousField]]

\* The links of the live tasks, as functions
LEMMA RingIsLinked ==
  ASSUME owned \subseteq TaskPages
  PROVE  RingIsLive <=> /\ next_task \in Live \union {0}
                        /\ nexts \in [TaskPages -> Links] /\ previouss \in [TaskPages -> Links]
                        /\ Linked(Live, nexts, previouss)
<1>1. Live \subseteq TaskPages
  BY DEF Live
<1>2. /\ \A p \in TaskPages : nexts[p] = mem[p + NextField]
      /\ \A p \in TaskPages : previouss[p] = mem[p + PreviousField]
      /\ DOMAIN nexts = TaskPages /\ DOMAIN previouss = TaskPages
  BY DEF nexts, previouss
<1>3. Linked(Live, nexts, previouss)
        <=> \A p \in Live :
              /\ mem[p + NextField] \in Live /\ mem[mem[p + NextField] + PreviousField] = p
              /\ mem[p + PreviousField] \in Live /\ mem[mem[p + PreviousField] + NextField] = p
  BY <1>1, <1>2 DEF Linked
<1>4. /\ nexts \in [TaskPages -> Links] <=> \A p \in TaskPages : mem[p + NextField] \in Links
      /\ previouss \in [TaskPages -> Links]
           <=> \A p \in TaskPages : mem[p + PreviousField] \in Links
  BY DEF nexts, previouss
<1> QED  BY <1>3, <1>4 DEF RingIsLive

\* ... and back, after a step
LEMMA RingWasLinked ==
  ASSUME owned' \subseteq TaskPages, next_task' \in Live' \union {0},
         nexts' \in [TaskPages -> Links], previouss' \in [TaskPages -> Links],
         Linked(Live', nexts', previouss')
  PROVE  RingIsLive'
<1>1. Live' \subseteq TaskPages
  BY DEF Live
<1>2. /\ \A p \in TaskPages : nexts'[p] = mem'[p + NextField]
      /\ \A p \in TaskPages : previouss'[p] = mem'[p + PreviousField]
  BY DEF nexts, previouss
<1>3. \A p \in Live' :
        /\ mem'[p + NextField] \in Live' /\ mem'[mem'[p + NextField] + PreviousField] = p
        /\ mem'[p + PreviousField] \in Live' /\ mem'[mem'[p + PreviousField] + NextField] = p
  BY <1>1, <1>2 DEF Linked
<1>4. \A p \in TaskPages : mem'[p + NextField] \in Links /\ mem'[p + PreviousField] \in Links
  BY <1>2
<1> QED  BY <1>3, <1>4 DEF RingIsLive

\* The links of a task are words like no other.
LEMMA LinksApart ==
  ASSUME NEW p \in TaskPages
  PROVE  /\ p + 1 \in Addresses /\ p + 2 \in Addresses
         /\ \A q \in TaskPages : /\ p + 1 = q + 1 => p = q
                                 /\ p + 2 = q + 2 => p = q
                                 /\ p + 1 # q + 2
         /\ \A q \in Contexts : \A k \in 0 .. PageWords - 1 :
              k \notin {1, 2} => q + k # p + 1 /\ q + k # p + 2
<1>1. /\ TaskPages \subseteq Contexts /\ PageWords \in Nat
      /\ 1 \in 0 .. PageWords - 1 /\ 2 \in 0 .. PageWords - 1
  BY Sizes DEF Contexts
<1>2. \A q \in Contexts : \A k \in 0 .. PageWords - 1 :
        k \notin {1, 2} => q + k # p + 1 /\ q + k # p + 2
  BY <1>1, WordsApart
<1>3. p + 1 \in Addresses /\ p + 2 \in Addresses
  BY <1>1, WordsOfPages
<1>4. \A q \in TaskPages : (p + 1 = q + 1 => p = q) /\ (p + 2 = q + 2 => p = q) /\ p + 1 # q + 2
  BY <1>1, WordsApart
<1> QED  BY <1>2, <1>3, <1>4

\* So is next_task.
LEMMA NextTaskApart ==
  /\ Kernel + 11 \in Addresses
  /\ \A q \in Contexts : \A k \in 0 .. PageWords - 1 :
       (q = Kernel => k # 11) => q + k # Kernel + 11
  /\ \A q \in TaskPages : q + 1 # Kernel + 11 /\ q + 2 # Kernel + 11
<1>1. /\ TaskPages \subseteq Contexts /\ Kernel \in Contexts /\ PageWords \in Nat
      /\ 11 \in 0 .. PageWords - 1 /\ 1 \in 0 .. PageWords - 1 /\ 2 \in 0 .. PageWords - 1
  BY Sizes DEF Contexts
<1>2. \A q \in Contexts : \A k \in 0 .. PageWords - 1 :
        (q = Kernel => k # 11) => q + k # Kernel + 11
  BY <1>1, WordsApart
<1>3. \A q \in TaskPages : q + 1 # Kernel + 11 /\ q + 2 # Kernel + 11
  BY <1>1, <1>2
<1>4. Kernel + 11 \in Addresses
  BY <1>1, WordsOfPages
<1> QED  BY <1>2, <1>3, <1>4

\* What AddLink does to the links
LEMMA AddLinkIs ==
  ASSUME SwitchInv, AddLink, NEW t \in TaskPages, t = task
  PROVE  /\ mem' \in [Addresses -> Words]
         /\ \A q \in Contexts : \A k \in 0 .. PageWords - 1 :
              k \notin {1, 2} /\ (q = Kernel => k # 11) => mem'[q + k] = mem[q + k]
         /\ next_task = 0 =>
              /\ next_task' = t
              /\ \A q \in TaskPages :
                   /\ mem'[q + 1] = IF q = t THEN t ELSE mem[q + 1]
                   /\ mem'[q + 2] = IF q = t THEN t ELSE mem[q + 2]
         /\ next_task # 0 =>
              /\ next_task' = next_task
              /\ \A q \in TaskPages :
                   /\ mem'[q + 1] = IF q = t THEN next_task
                                    ELSE IF q = mem[next_task + 2] THEN t ELSE mem[q + 1]
                   /\ mem'[q + 2] = IF q = t THEN mem[next_task + 2]
                                    ELSE IF q = next_task THEN t ELSE mem[q + 2]
<1>1. /\ SwitchTypes /\ RingIsLive /\ pc = "add" /\ t \in owned /\ t \notin Live
      /\ Live \subseteq TaskPages
  BY DEF AddLink, SwitchInv, Control, Live, SwitchTypes
<1>2. /\ TaskPages \subseteq Contexts /\ TaskPages \subseteq Nat /\ Kernel \in Contexts
      /\ Kernel \in Nat
      /\ Kernel \notin TaskPages /\ PageWords \in Nat /\ PageWords >= 20 /\ 0 \notin TaskPages
  BY PagesApart, Sizes DEF Contexts
<1>3. 0 \in 0 .. PageWords - 1 /\ 1 \in 0 .. PageWords - 1 /\ 2 \in 0 .. PageWords - 1
      /\ 11 \in 0 .. PageWords - 1
  BY <1>2
<1>4. /\ mem \in [Addresses -> Words] /\ Nat \subseteq Words
  BY <1>1 DEF SwitchTypes, Words
<1>5. CASE next_task = 0
  <2>1. mem' = [mem EXCEPT ![t + 2] = t, ![Kernel + 11] = t, ![t + 1] = t]
    BY <1>5, OtherFieldsAre DEF AddLink
  <2>2. t + 1 \in Addresses /\ t + 2 \in Addresses /\ Kernel + 11 \in Addresses
    BY <1>2, <1>3, WordsOfPages
  <2>3. mem' \in [Addresses -> Words]
    BY <1>2, <1>4, <2>1, <2>2
  <2>4. \A a \in Addresses :
          mem'[a] = IF a = t + 1 \/ a = t + 2 \/ a = Kernel + 11 THEN t ELSE mem[a]
    BY <1>4, <2>1, <2>2
  <2>5. next_task' = t
    BY <2>2, <2>4, OtherFieldsAre DEF next_task
  <2>6. ASSUME NEW q \in Contexts, NEW k \in 0 .. PageWords - 1, k \notin {1, 2},
               q = Kernel => k # 11
        PROVE  mem'[q + k] = mem[q + k]
    <3>1. q + k \in Addresses /\ q + k # t + 1 /\ q + k # t + 2 /\ q + k # Kernel + 11
      BY <1>2, <2>6, LinksApart, NextTaskApart, WordsOfPages
    <3> QED  BY <2>4, <3>1
  <2>7. ASSUME NEW q \in TaskPages
        PROVE  /\ mem'[q + 1] = IF q = t THEN t ELSE mem[q + 1]
               /\ mem'[q + 2] = IF q = t THEN t ELSE mem[q + 2]
    <3>1. /\ q + 1 \in Addresses /\ (q + 1 = t + 1 <=> q = t) /\ q + 1 # t + 2
          /\ q + 1 # Kernel + 11
      BY LinksApart, NextTaskApart
    <3>2. /\ q + 2 \in Addresses /\ (q + 2 = t + 2 <=> q = t) /\ q + 2 # t + 1
          /\ q + 2 # Kernel + 11
      BY LinksApart, NextTaskApart
    <3> QED  BY <2>4, <3>1, <3>2
  <2> QED  BY <1>5, <2>3, <2>5, <2>6, <2>7
<1>6. CASE next_task # 0
  <2>1. PICK n \in Live : n = next_task
    BY <1>1, <1>6 DEF RingIsLive
  <2>2. PICK l \in Live : l = mem[n + 2]
    BY <1>1, OtherFieldsAre DEF RingIsLive
  <2>3. /\ n \in TaskPages /\ l \in TaskPages /\ n # t /\ l # t
    BY <1>1
  <2>4. mem' = [mem EXCEPT ![t + 2] = l, ![l + 1] = t, ![n + 2] = t, ![t + 1] = n]
    BY <1>6, <2>1, <2>2, OtherFieldsAre DEF AddLink
  <2>5. t + 1 \in Addresses /\ t + 2 \in Addresses /\ l + 1 \in Addresses /\ n + 2 \in Addresses
    BY <1>2, <1>3, <2>3, WordsOfPages
  <2>6. mem' \in [Addresses -> Words]
    BY <1>2, <1>4, <2>3, <2>4, <2>5
  <2>7. \A a \in Addresses : mem'[a] = IF a = t + 1 THEN n
                                       ELSE IF a = n + 2 \/ a = l + 1 THEN t
                                       ELSE IF a = t + 2 THEN l ELSE mem[a]
    BY <1>4, <2>4, <2>5
  <2>8. next_task' = next_task
    <3>1. /\ Kernel + 11 \in Addresses /\ Kernel + 11 # t + 1 /\ Kernel + 11 # t + 2
          /\ Kernel + 11 # l + 1 /\ Kernel + 11 # n + 2
      BY <2>3, LinksApart, NextTaskApart
    <3> QED  BY <2>7, <3>1, OtherFieldsAre DEF next_task
  <2>9. ASSUME NEW q \in Contexts, NEW k \in 0 .. PageWords - 1, k \notin {1, 2},
               q = Kernel => k # 11
        PROVE  mem'[q + k] = mem[q + k]
    <3>1. /\ q + k \in Addresses /\ q + k # t + 1 /\ q + k # t + 2 /\ q + k # l + 1
          /\ q + k # n + 2
      BY <1>2, <2>3, <2>9, LinksApart, WordsOfPages
    <3> QED  BY <2>7, <3>1
  <2>10. ASSUME NEW q \in TaskPages
         PROVE  /\ mem'[q + 1] = IF q = t THEN n ELSE IF q = l THEN t ELSE mem[q + 1]
                /\ mem'[q + 2] = IF q = t THEN l ELSE IF q = n THEN t ELSE mem[q + 2]
    <3>1. /\ q + 1 \in Addresses /\ (q + 1 = t + 1 <=> q = t) /\ q + 1 # t + 2
          /\ (q + 1 = l + 1 <=> q = l) /\ q + 1 # n + 2
      BY <2>3, LinksApart, NextTaskApart
    <3>2. /\ q + 2 \in Addresses /\ (q + 2 = t + 2 <=> q = t) /\ q + 2 # t + 1
          /\ (q + 2 = n + 2 <=> q = n) /\ q + 2 # l + 1
      BY <2>3, LinksApart, NextTaskApart
    <3>3. mem'[q + 1] = IF q = t THEN n ELSE IF q = l THEN t ELSE mem[q + 1]
      BY <2>7, <3>1
    <3>4. mem'[q + 2] = IF q = t THEN l ELSE IF q = n THEN t ELSE mem[q + 2]
      BY <2>3, <2>7, <3>2
    <3> QED  BY <3>3, <3>4
  <2> QED  BY <1>6, <2>1, <2>2, <2>6, <2>8, <2>9, <2>10
<1> QED  BY <1>5, <1>6

\* The new task joins the ring.
LEMMA AddLinkIsRight ==
  ASSUME SwitchInv, AddLink
  PROVE  StepIsRight
<1>1. /\ SwitchTypes /\ RingIsLive /\ pc = "add" /\ task \in owned /\ current = 0
      /\ reg["ESP"] = Top(Kernel) \/ TaskRuns
  BY DEF AddLink, SwitchInv, Control
<1>2. PICK t \in TaskPages : t = task
  BY <1>1 DEF SwitchTypes
<1>3. /\ TaskPages \subseteq Contexts /\ Kernel \in Contexts /\ Kernel \notin TaskPages
      /\ PageWords \in Nat /\ PageWords >= 20 /\ 0 \notin TaskPages
  BY PagesApart, Sizes DEF Contexts
<1>4. /\ UNCHANGED <<free, owned, halted, reg, current, locals, called>> /\ task' = 0
      /\ pc' = IF PageOf(reg["ESP"]) = Kernel THEN "caller" ELSE "task"
  BY DEF AddLink, poolVars, history
<1>5. /\ mem' \in [Addresses -> Words]
      /\ \A q \in Contexts : \A k \in 0 .. PageWords - 1 :
           k \notin {1, 2} /\ (q = Kernel => k # 11) => mem'[q + k] = mem[q + k]
  BY <1>2, AddLinkIs
<1>6. /\ next_task = 0 =>
           /\ next_task' = t
           /\ \A q \in TaskPages : /\ nexts'[q] = IF q = t THEN t ELSE nexts[q]
                                   /\ previouss'[q] = IF q = t THEN t ELSE previouss[q]
      /\ next_task # 0 =>
           /\ next_task' = next_task
           /\ \A q \in TaskPages :
                /\ nexts'[q] = IF q = t THEN next_task
                               ELSE IF q = previouss[next_task] THEN t ELSE nexts[q]
                /\ previouss'[q] = IF q = t THEN previouss[next_task]
                                   ELSE IF q = next_task THEN t ELSE previouss[q]
  <2>1. \A q \in TaskPages : /\ nexts[q] = mem[q + 1] /\ nexts'[q] = mem'[q + 1]
                             /\ previouss[q] = mem[q + 2] /\ previouss'[q] = mem'[q + 2]
    BY OtherFieldsAre DEF nexts, previouss
  <2>2. next_task # 0 => next_task \in TaskPages
    BY <1>1 DEF RingIsLive, Live, SwitchTypes
  <2>3. CASE next_task = 0
    <3>1. /\ next_task' = t
          /\ \A q \in TaskPages :
                   /\ mem'[q + 1] = IF q = t THEN t ELSE mem[q + 1]
                   /\ mem'[q + 2] = IF q = t THEN t ELSE mem[q + 2]
      BY <1>2, <2>3, AddLinkIs
    <3> QED  BY <2>1, <2>3, <3>1
  <2>4. CASE next_task # 0
    <3>1. /\ next_task' = next_task
          /\ \A q \in TaskPages :
                   /\ mem'[q + 1] = IF q = t THEN next_task
                                    ELSE IF q = mem[next_task + 2] THEN t ELSE mem[q + 1]
                   /\ mem'[q + 2] = IF q = t THEN mem[next_task + 2]
                                    ELSE IF q = next_task THEN t ELSE mem[q + 2]
      BY <1>2, <2>4, AddLinkIs
    <3> QED  BY <2>1, <2>2, <2>4, <3>1
  <2> QED  BY <2>3, <2>4
<1>7. /\ \A q \in TaskPages : PageKept(q)
      /\ KernelKept
  <2>1. /\ PageWords - 4 \notin {1, 2} /\ PageWords - 4 # 11
        /\ \A k \in 3 .. 10 : k \notin {1, 2} /\ k # 11
    BY <1>3
  <2> QED  BY <1>3, <1>5, <2>1, OtherFieldsAre DEF PageKept, KernelKept
<1>8. /\ Live' = Live \union {t} /\ t \notin Live /\ Live \subseteq TaskPages
      /\ owned \subseteq TaskPages /\ owned' = owned
  BY <1>1, <1>2, <1>3, <1>4 DEF Live, SwitchTypes
<1>9. /\ next_task \in Live \union {0} /\ Linked(Live, nexts, previouss)
      /\ nexts \in [TaskPages -> Links] /\ previouss \in [TaskPages -> Links]
  BY <1>1, <1>8, RingIsLinked
<1>10. /\ next_task' \in Live' \union {0} /\ Linked(Live', nexts', previouss')
       /\ nexts' \in [TaskPages -> Links] /\ previouss' \in [TaskPages -> Links]
  <2>1. CASE next_task = 0
    <3>0. /\ nexts'[t] = t /\ previouss'[t] = t
          /\ \A p \in Live : nexts'[p] = nexts[p] /\ previouss'[p] = previouss[p]
      BY <1>6, <1>8, <2>1
    <3>1. Linked(Live \union {t}, nexts', previouss')
      BY <1>8, <1>9, <3>0, RingStart
    <3>2. /\ \A q \in TaskPages : nexts'[q] \in Links /\ previouss'[q] \in Links
      BY <1>6, <1>9, <2>1 DEF Links
    <3>3. nexts' \in [TaskPages -> Links] /\ previouss' \in [TaskPages -> Links]
      BY <3>2 DEF nexts, previouss
    <3> QED  BY <1>6, <1>8, <2>1, <3>1, <3>3
  <2>2. CASE next_task # 0
    <3>1. next_task \in Live
      BY <1>9, <2>2
    <3>2. \A p \in Live \union {t} :
           /\ nexts'[p] = IF p = t THEN next_task
                ELSE IF p = previouss[next_task] THEN t ELSE nexts[p]
           /\ previouss'[p] = IF p = t THEN previouss[next_task]
                              ELSE IF p = next_task THEN t ELSE previouss[p]
      BY <1>6, <1>8, <2>2
    <3>3. Linked(Live \union {t}, nexts', previouss')
      BY <1>8, <1>9, <3>1, <3>2, RingInsert
    <3>4. previouss[next_task] \in Live
      BY <1>9, <3>1 DEF Linked
    <3>5. /\ \A q \in TaskPages : nexts'[q] \in Links /\ previouss'[q] \in Links
      BY <1>6, <1>8, <1>9, <2>2, <3>1, <3>4 DEF Links
    <3>6. nexts' \in [TaskPages -> Links] /\ previouss' \in [TaskPages -> Links]
      BY <3>5 DEF nexts, previouss
    <3> QED  BY <1>6, <1>8, <2>2, <3>1, <3>3, <3>6
  <2> QED  BY <2>1, <2>2
<1>11. RingIsLive'
  BY <1>8, <1>10, RingWasLinked
<1>12. SwitchTypes'
  BY <1>1, <1>4, <1>5 DEF SwitchTypes, Links
<1>13. /\ reg["ESP"] = Top(Kernel) => pc' = "caller"
       /\ reg["ESP"] # Top(Kernel) => TaskRuns /\ pc' = "task" /\ next_task # 0
  <2>1. CASE reg["ESP"] = Top(Kernel)
    BY <1>4, <2>1, KernelStackIs
  <2>2. CASE reg["ESP"] # Top(Kernel)
    <3>1. TaskRuns
      BY <1>1, <2>2
    <3>2. PageOf(reg["ESP"]) = next_task /\ next_task \in TaskPages
      BY <1>1, <3>1, OnStack
    <3> QED  BY <1>3, <1>4, <2>2, <3>1, <3>2
  <2> QED  BY <2>1, <2>2
<1>14. Control'
  <2>1. CASE reg["ESP"] = Top(Kernel)
    BY <1>1, <1>4, <1>13, <2>1 DEF Control, Top, Kernel
  <2>2. CASE reg["ESP"] # Top(Kernel)
    <3>1. TaskRuns'
      BY <1>4, <1>6, <1>8, <1>13, <2>2 DEF TaskRuns, Top
    <3> QED  BY <1>1, <1>4, <1>13, <2>2, <3>1 DEF Control
  <2> QED  BY <2>1, <2>2
<1>15. StacksKept'
  <2>1. \A q \in owned \ {current} : StackKept(q)'
    <3> SUFFICES ASSUME NEW q \in owned \ {current}
                 PROVE  StackKept(q)'
      OBVIOUS
    <3>1. StackKept(q) /\ q \in TaskPages
      BY <1>1 DEF SwitchInv, StacksKept, StackKept, SwitchTypes
    <3> QED  BY <1>1, <1>4, <1>7, <3>1, StackFramed
  <2> QED  BY <1>4, <2>1 DEF StacksKept, StackKept
<1>16. InTaskCode' <=> InTaskCode
  BY <1>1, <1>4, <1>13 DEF InTaskCode, Top, Kernel
<1>17. KernelWaits'
  <2>1. CASE InTaskCode
    <3>1. KernelSaved
      BY <2>1 DEF SwitchInv, KernelWaits, KernelSaved
    <3>2. KernelSaved'
      BY <1>3, <1>4, <1>7, <3>1, KernelFramed
    <3> QED  BY <3>2 DEF KernelWaits, KernelSaved
  <2>2. CASE ~InTaskCode
    BY <1>4, <1>16, <2>2 DEF KernelWaits
  <2> QED  BY <2>1, <2>2
<1>18. TasksWait'
  <2>1. InTaskCode => next_task' = next_task
    BY <1>6, <1>13 DEF InTaskCode
  <2>2. ASSUME NEW q \in owned \ {current}, ~(InTaskCode' /\ q = next_task')
        PROVE  Waits(q)'
    <3>1. Waits(q) /\ q \in TaskPages
      BY <1>1, <1>16, <2>1, <2>2 DEF SwitchInv, TasksWait, SwitchTypes
    <3> QED  BY <1>1, <1>4, <1>7, <3>1, WaitsFramed
  <2> QED  BY <1>4, <2>2 DEF TasksWait
<1>19. RegistersStep
  BY <1>1, <1>4, <1>13 DEF RegistersStep
<1>20. Scheduled
  <2>1. /\ PageOf(reg["ESP"])' = PageOf(reg["ESP"])
    BY <1>4 DEF PageOf
  <2>2. /\ next_task = 0 =>
             /\ next_task' = t
             /\ nexts' = [nexts EXCEPT ![t] = t] /\ previouss' = [previouss EXCEPT ![t] = t]
        /\ next_task # 0 =>
             /\ next_task' = next_task
             /\ nexts' = [nexts EXCEPT ![previouss[next_task]] = t, ![t] = next_task]
             /\ previouss' = [previouss EXCEPT ![t] = previouss[next_task], ![next_task] = t]
    <3>1. CASE next_task = 0
      BY <1>6, <1>9, <1>10, <3>1
    <3>2. CASE next_task # 0
      <4>1. next_task \in TaskPages /\ previouss[next_task] \in TaskPages /\ next_task # t
            /\ previouss[next_task] # t
        BY <1>8, <1>9, <3>2 DEF Linked
      <4> QED  BY <1>6, <1>9, <1>10, <3>2, <4>1
    <3> QED  BY <3>1, <3>2
  <2>3. Scheduling!AddLink
    BY <1>1, <1>2, <1>4, <2>1, <2>2
       DEF Scheduling!AddLink, Scheduling!poolVars, Scheduling!ReturnFromAdd, nexts, previouss
  <2> QED  BY <2>3 DEF Scheduled, Scheduling!Next, Scheduling!KernelStep
<1> QED
  BY <1>11, <1>12, <1>14, <1>15, <1>17, <1>18, <1>19, <1>20 DEF StepIsRight, SwitchInv

-----------------------------------------------------------------------------
(***************************************************************************)
(* A task exits                                                            *)
(***************************************************************************)
\* What Unlink makes of the links and of next_task
LEMMA UnlinkIs ==
  ASSUME NEW m \in Machines, NEW t \in TaskPages, NEW behind \in TaskPages,
         NEW ahead \in TaskPages,
         m.mem[t + SchedulerField] = Kernel,
         m.mem[t + PreviousField] = behind, m.mem[t + NextField] = ahead,
         NEW n, n = Unlink(m, t)
  PROVE  /\ n \in Machines /\ n.reg = m.reg
         /\ n.mem[Kernel + 11] = IF ahead = t THEN 0 ELSE behind
         /\ \A q \in TaskPages :
              /\ n.mem[q + 1] = IF ahead # t /\ q = behind THEN ahead ELSE m.mem[q + 1]
              /\ n.mem[q + 2] = IF ahead # t /\ q = ahead THEN behind ELSE m.mem[q + 2]
         /\ \A q \in Contexts : \A k \in 0 .. PageWords - 1 :
              k \notin {1, 2} /\ (q = Kernel => k # 11) => n.mem[q + k] = m.mem[q + k]
<1>1. TaskPages \subseteq Nat /\ Nat \subseteq Words /\ TaskWords = 11 /\ 0 \in Words
  BY PagesApart DEF Contexts, Words, TaskWords
<1>2. PICK a1 \in Addresses, a2 \in Addresses, a3 \in Addresses :
        a1 = behind + 1 /\ a2 = ahead + 2 /\ a3 = Kernel + 11
  BY LinksApart, NextTaskApart
<1>7. /\ a1 \in Addresses /\ a2 \in Addresses /\ a3 \in Addresses
      /\ behind \in Words /\ ahead \in Words /\ 0 \in Words /\ m \in Machines
  BY <1>1, <1>2
<1>3. ASSUME NEW q \in TaskPages
      PROVE  /\ q + 1 \in Addresses /\ q + 1 # a3 /\ q + 1 # a2
             /\ q + 1 = a1 <=> q = behind
             /\ q + 2 \in Addresses /\ q + 2 # a3 /\ q + 2 # a1
             /\ q + 2 = a2 <=> q = ahead
  BY <1>2, LinksApart, NextTaskApart
<1>4. ASSUME NEW q \in Contexts, NEW k \in 0 .. PageWords - 1, k \notin {1, 2},
             q = Kernel => k # 11
      PROVE  q + k \in Addresses /\ q + k # a3 /\ q + k # a1 /\ q + k # a2
  BY <1>2, <1>4, LinksApart, NextTaskApart, WordsOfPages
<1>5. CASE ahead = t
  <2>1. n = MovMem(m, a3, 0)
    BY <1>1, <1>2, <1>5 DEF Unlink
  <2>2. /\ n \in Machines /\ n.reg = m.reg /\ n.mem[a3] = 0
        /\ \A x \in Addresses : x # a3 => n.mem[x] = m.mem[x]
    BY <1>7, <2>1 DEF MovMem, Machines
  <2> QED  BY <1>2, <1>3, <1>4, <1>5, <2>2
<1>6. CASE ahead # t
  <2>1. PICK m1 : m1 = MovMem(m, a1, ahead)
    OBVIOUS
  <2>2. /\ m1 \in Machines /\ m1.reg = m.reg /\ m1.mem[a1] = ahead
        /\ \A x \in Addresses : x # a1 => m1.mem[x] = m.mem[x]
    BY <1>7, <2>1 DEF MovMem, Machines
  <2>3. PICK m2 : m2 = MovMem(m1, a2, behind)
    OBVIOUS
  <2>4. /\ m2 \in Machines /\ m2.reg = m1.reg /\ m2.mem[a2] = behind
        /\ \A x \in Addresses : x # a2 => m2.mem[x] = m1.mem[x]
    BY <1>7, <2>2, <2>3 DEF MovMem, Machines
  <2>5. n = MovMem(m2, a3, behind)
    BY <1>1, <1>2, <1>6, <2>1, <2>3, OtherFieldsAre DEF Unlink
  <2>6. /\ n \in Machines /\ n.reg = m2.reg /\ n.mem[a3] = behind
        /\ \A x \in Addresses : x # a3 => n.mem[x] = m2.mem[x]
    BY <1>7, <2>4, <2>5 DEF MovMem, Machines
  <2>7. \A x \in Addresses : n.mem[x] = IF x = a3 \/ x = a2 THEN behind
                                        ELSE IF x = a1 THEN ahead ELSE m.mem[x]
    BY <2>2, <2>4, <2>6
  <2>8. n.mem[Kernel + 11] = behind
    BY <1>2, <2>6
  <2>9. ASSUME NEW q \in TaskPages
        PROVE  /\ n.mem[q + 1] = IF q = behind THEN ahead ELSE m.mem[q + 1]
               /\ n.mem[q + 2] = IF q = ahead THEN behind ELSE m.mem[q + 2]
    BY <1>3, <2>7
  <2>10. ASSUME NEW q \in Contexts, NEW k \in 0 .. PageWords - 1, k \notin {1, 2},
                q = Kernel => k # 11
         PROVE  n.mem[q + k] = m.mem[q + k]
    BY <1>4, <2>7, <2>10
  <2> QED  BY <1>6, <2>2, <2>4, <2>6, <2>8, <2>9, <2>10
<1> QED  BY <1>5, <1>6

\* What Exit does to the machine
LEMMA ExitIs ==
  ASSUME SwitchInv, Exit, NEW t \in TaskPages, t = next_task, NEW behind, behind = mem[t + 2],
         NEW ahead, ahead = mem[t + 1]
  PROVE  /\ pc' = "cleanup" /\ current' = t
         /\ reg' \in [Registers -> Words] /\ mem' \in [Addresses -> Words]
         /\ reg'["ESP"] = t + (PageWords - 3)
         /\ mem'[t + (PageWords - 1)] = Kernel /\ mem'[t + (PageWords - 2)] = t
         /\ next_task' = IF ahead = t THEN 0 ELSE behind
         /\ \A q \in TaskPages :
              /\ mem'[q + 1] = IF ahead # t /\ q = behind THEN ahead ELSE mem[q + 1]
              /\ mem'[q + 2] = IF ahead # t /\ q = ahead THEN behind ELSE mem[q + 2]
         /\ \A q \in Contexts : \A k \in 0 .. PageWords - 1 :
              q # t /\ k \notin {1, 2} /\ (q = Kernel => k # 11) => mem'[q + k] = mem[q + k]
<1>1. /\ SwitchTypes /\ TaskRuns /\ RingIsLive /\ pc = "task" /\ current = 0
  BY TaskCode DEF Exit
<1>2. /\ t \in Live /\ t \in owned /\ reg["ESP"] = t + (PageWords - 1 - Len(locals[t]))
      /\ PageOf(reg["ESP"]) = t
  BY <1>1, OnStack DEF TaskRuns
<1>3. /\ t \in Contexts /\ t \in Nat /\ t # Kernel /\ Kernel \in Contexts /\ Kernel \in Nat
      /\ PageWords \in Nat /\ PageWords >= 20 /\ TaskPages \subseteq Contexts
      /\ TaskPages \subseteq Nat /\ t # 0
  BY PagesApart, Sizes DEF Contexts
<1>4. reg["ESP"] = t + (PageWords - 1)
  <2>1. Len(locals[t]) = 0
    BY <1>2 DEF Exit
  <2> QED  BY <1>2, <1>3, <2>1
<1>5. mem[t + 0] = Kernel /\ mem[t + (PageWords - 1)] = CleanupTask
  <2>1. t + PageWords - 1 = t + (PageWords - 1) /\ t # current
    BY <1>1, <1>3
  <2> QED  BY <1>2, <2>1, OtherFieldsAre DEF SwitchInv, StacksKept
<1>6. behind \in Live /\ ahead \in Live /\ Live \subseteq TaskPages
  BY <1>1, <1>2, OtherFieldsAre DEF RingIsLive, Live, SwitchTypes
<1>7. PICK i \in 1 .. PageWords : i = PageWords
  BY <1>3
<1>8. /\ i - 1 \in 0 .. PageWords - 1 /\ i - 1 \in 1 .. PageWords /\ i - 2 \in 1 .. PageWords
      /\ i - 1 - 1 = i - 2 /\ i - 2 - 1 = i - 3
  BY <1>3, <1>7
<1>9. PICK m0 : m0 = AddEsp(Machine, 1)
  OBVIOUS
<1>10. m0 \in Machines /\ m0.mem = mem /\ m0.reg["ESP"] = t + i
  <2>1. /\ Machine \in Machines /\ Machine.mem = mem /\ Machine.reg["ESP"] = t + (PageWords - 1)
    BY <1>1, <1>4, MachineIs
  <2>2. PICK j \in Nat : j = PageWords - 1
    BY <1>3
  <2>3. m0 \in Machines /\ m0.mem = Machine.mem /\ m0.reg["ESP"] = t + (j + 1)
    BY <1>3, <1>9, <2>1, <2>2, EspUpIs
  <2> QED  BY <1>3, <1>7, <2>1, <2>2, <2>3
<1>11. PICK m1 : m1 = GetCurrentTask(m0, InC)
  OBVIOUS
<1>12. /\ m1 \in Machines /\ m1.reg["ESP"] = t + i /\ m1.reg["EAX"] = t
       /\ \A b \in Addresses : b # t + i - 1 => m1.mem[b] = mem[b]
  <2>1. InC \in Words
    BY LabelsApart DEF Labels
  <2> QED  BY <1>3, <1>10, <1>11, <2>1, GetCurrentTaskIs
<1>13. \A q \in Contexts : \A k \in 0 .. PageWords - 1 :
         q # t \/ k # i - 1 => m1.mem[q + k] = mem[q + k]
  <2> SUFFICES ASSUME NEW q \in Contexts, NEW k \in 0 .. PageWords - 1, q # t \/ k # i - 1
               PROVE  m1.mem[q + k] = mem[q + k]
    OBVIOUS
  <2>1. q + k \in Addresses
    BY WordsOfPages
  <2>2. q + k # t + (i - 1)
    BY <1>3, <1>8, WordsApart
  <2> QED  BY <1>3, <1>12, <2>1, <2>2
<1>14. /\ m1.mem[t + SchedulerField] = Kernel
       /\ m1.mem[t + PreviousField] = behind /\ m1.mem[t + NextField] = ahead
  <2>1. /\ 0 \in 0 .. PageWords - 1 /\ 0 # i - 1 /\ 1 \in 0 .. PageWords - 1 /\ 1 # i - 1
        /\ 2 \in 0 .. PageWords - 1 /\ 2 # i - 1
    BY <1>3, <1>7
  <2>2. /\ m1.mem[t + 0] = mem[t + 0] /\ m1.mem[t + 1] = mem[t + 1]
        /\ m1.mem[t + 2] = mem[t + 2]
    BY <1>3, <1>13, <2>1
  <2> QED  BY <1>5, <2>2, OtherFieldsAre
<1>15. PICK m2 : m2 = Unlink(m1, t)
  OBVIOUS
<1>16. /\ m2 \in Machines /\ m2.reg["ESP"] = t + i
       /\ m2.mem[Kernel + 11] = IF ahead = t THEN 0 ELSE behind
       /\ \A q \in TaskPages :
            /\ m2.mem[q + 1] = IF ahead # t /\ q = behind THEN ahead ELSE m1.mem[q + 1]
            /\ m2.mem[q + 2] = IF ahead # t /\ q = ahead THEN behind ELSE m1.mem[q + 2]
       /\ \A q \in Contexts : \A k \in 0 .. PageWords - 1 :
            k \notin {1, 2} /\ (q = Kernel => k # 11) => m2.mem[q + k] = m1.mem[q + k]
  <2>1. behind \in TaskPages /\ ahead \in TaskPages
    BY <1>6
  <2>2. /\ m2 \in Machines /\ m2.reg = m1.reg
        /\ m2.mem[Kernel + 11] = IF ahead = t THEN 0 ELSE behind
        /\ \A q \in TaskPages :
             /\ m2.mem[q + 1] = IF ahead # t /\ q = behind THEN ahead ELSE m1.mem[q + 1]
             /\ m2.mem[q + 2] = IF ahead # t /\ q = ahead THEN behind ELSE m1.mem[q + 2]
        /\ \A q \in Contexts : \A k \in 0 .. PageWords - 1 :
             k \notin {1, 2} /\ (q = Kernel => k # 11) => m2.mem[q + k] = m1.mem[q + k]
    <3>1. m1 \in Machines /\ t \in TaskPages
      BY <1>12
    <3> QED  BY <1>14, <1>15, <2>1, <3>1, UnlinkIs
  <2> QED  BY <1>12, <2>2
<1>17. PICK m3 : m3 = Push(m2, Kernel)
  OBVIOUS
<1>18. /\ m3 \in Machines /\ m3.reg["ESP"] = t + (i - 1) /\ m3.mem[t + (i - 1)] = Kernel
       /\ \A b \in Addresses : b # t + (i - 1) => m3.mem[b] = m2.mem[b]
  <2>1. Kernel \in Words
    BY <1>3 DEF Words
  <2> QED  BY <1>3, <1>16, <1>17, <2>1, PushAt
<1>19. PICK m4 : m4 = Push(m3, t)
  OBVIOUS
<1>20. /\ m4 \in Machines /\ m4.reg["ESP"] = t + (i - 2) /\ m4.mem[t + (i - 2)] = t
       /\ \A b \in Addresses : b # t + (i - 2) => m4.mem[b] = m3.mem[b]
  <2>1. t \in Words
    BY <1>3 DEF Words
  <2>2. PICK j \in 1 .. PageWords : j = i - 1
    BY <1>8
  <2>3. /\ m4 \in Machines /\ m4.reg["ESP"] = t + (j - 1) /\ m4.mem[t + (j - 1)] = t
        /\ \A b \in Addresses : b # t + (j - 1) => m4.mem[b] = m3.mem[b]
    <3>1. /\ m3 \in Machines /\ t \in Contexts /\ j \in 1 .. PageWords
          /\ m3.reg["ESP"] = t + j /\ t \in Words
      BY <1>3, <1>18, <2>1, <2>2
    <3> QED  BY <1>19, <3>1, PushAt
  <2> QED  BY <1>8, <2>2, <2>3
<1>21. PICK m5 : m5 = Push(m4, InC)
  OBVIOUS
<1>22. /\ m5 \in Machines /\ m5.reg["ESP"] = t + (i - 3)
       /\ \A b \in Addresses : b # t + (i - 3) => m5.mem[b] = m4.mem[b]
  <2>1. InC \in Words
    BY LabelsApart DEF Labels
  <2>2. PICK j \in 1 .. PageWords : j = i - 2
    BY <1>8
  <2>3. /\ m5 \in Machines /\ m5.reg["ESP"] = t + (j - 1)
        /\ \A b \in Addresses : b # t + (j - 1) => m5.mem[b] = m4.mem[b]
    <3>1. /\ m4 \in Machines /\ t \in Contexts /\ j \in 1 .. PageWords
          /\ m4.reg["ESP"] = t + j /\ InC \in Words
      BY <1>3, <1>20, <2>1, <2>2
    <3> QED  BY <1>21, <3>1, PushAt
  <2> QED  BY <1>8, <2>2, <2>3
<1>23. /\ reg' = m5.reg /\ mem' = m5.mem /\ current' = t /\ pc' = Where(Word(Machine, 0))
  BY <1>9, <1>11, <1>12, <1>14, <1>15, <1>17, <1>19, <1>21 DEF Exit, Become
<1>24. pc' = "cleanup"
  <2>1. Word(Machine, 0) = mem[t + (PageWords - 1) + 0]
    BY <1>1, <1>4, MachineIs DEF Word
  <2>2. t + (PageWords - 1) + 0 = t + (PageWords - 1)
    BY <1>3
  <2> QED  BY <1>5, <1>23, <2>1, <2>2, LabelsApart
<1>25. \A q \in Contexts : \A k \in 0 .. PageWords - 1 :
         q # t \/ k < i - 3 => m5.mem[q + k] = m2.mem[q + k]
  <2> SUFFICES ASSUME NEW q \in Contexts, NEW k \in 0 .. PageWords - 1, q # t \/ k < i - 3
               PROVE  m5.mem[q + k] = m2.mem[q + k]
    OBVIOUS
  <2>1. q + k \in Addresses
    BY WordsOfPages
  <2>2. /\ i - 1 \in 0 .. PageWords - 1 /\ i - 2 \in 0 .. PageWords - 1
        /\ i - 3 \in 0 .. PageWords - 1
    BY <1>3, <1>7
  <2>3. k # i - 1 \/ q # t
    BY <1>3, <1>7
  <2>4. k # i - 2 \/ q # t
    BY <1>3, <1>7
  <2>5. k # i - 3 \/ q # t
    BY <1>3, <1>7
  <2>6. q + k # t + (i - 1) /\ q + k # t + (i - 2) /\ q + k # t + (i - 3)
    BY <1>3, <2>2, <2>3, <2>4, <2>5, WordsApart
  <2> QED  BY <1>18, <1>20, <1>22, <2>1, <2>6
<1>26. mem'[t + (PageWords - 1)] = Kernel /\ mem'[t + (PageWords - 2)] = t
  <2>1. t + (i - 1) \in Addresses /\ t + (i - 2) \in Addresses
    <3>1. i - 1 \in 0 .. PageWords - 1 /\ i - 2 \in 0 .. PageWords - 1
      BY <1>3, <1>7
    <3> QED  BY <1>3, <3>1, WordsOfPages
  <2>2. /\ t + (i - 1) # t + (i - 2) /\ t + (i - 1) # t + (i - 3) /\ t + (i - 2) # t + (i - 3)
    BY <1>3
  <2> QED  BY <1>7, <1>18, <1>20, <1>22, <1>23, <2>1, <2>2
<1>27. next_task' = IF ahead = t THEN 0 ELSE behind
  <2>1. 11 \in 0 .. PageWords - 1
    BY <1>3
  <2>2. m5.mem[Kernel + 11] = m2.mem[Kernel + 11]
    BY <1>3, <1>25, <2>1
  <2> QED  BY <1>16, <1>23, <2>2, OtherFieldsAre DEF next_task
<1>28. ASSUME NEW q \in TaskPages
       PROVE  /\ mem'[q + 1] = IF ahead # t /\ q = behind THEN ahead ELSE mem[q + 1]
              /\ mem'[q + 2] = IF ahead # t /\ q = ahead THEN behind ELSE mem[q + 2]
  <2>1. /\ q \in Contexts /\ 1 \in 0 .. PageWords - 1 /\ 1 < i - 3 /\ 1 # i - 1
        /\ 2 \in 0 .. PageWords - 1 /\ 2 < i - 3 /\ 2 # i - 1
    BY <1>3, <1>7
  <2>2. /\ m5.mem[q + 1] = m2.mem[q + 1] /\ m5.mem[q + 2] = m2.mem[q + 2]
        /\ m1.mem[q + 1] = mem[q + 1] /\ m1.mem[q + 2] = mem[q + 2]
    BY <1>13, <1>25, <2>1
  <2> QED  BY <1>16, <1>23, <2>2
<1>29. ASSUME NEW q \in Contexts, NEW k \in 0 .. PageWords - 1,
              q # t, k \notin {1, 2}, q = Kernel => k # 11
       PROVE  mem'[q + k] = mem[q + k]
  BY <1>13, <1>16, <1>23, <1>25, <1>29
<1>30. /\ reg'["ESP"] = t + (PageWords - 3)
       /\ reg' \in [Registers -> Words] /\ mem' \in [Addresses -> Words]
  BY <1>7, <1>22, <1>23 DEF Machines
<1> QED  BY <1>23, <1>24, <1>26, <1>27, <1>28, <1>29, <1>30

\* The task leaves the ring.
LEMMA ExitIsRight ==
  ASSUME SwitchInv, Exit
  PROVE  StepIsRight
<1>1. /\ SwitchTypes /\ TaskRuns /\ RingIsLive /\ pc = "task" /\ current = 0 /\ task = 0
      /\ InTaskCode /\ KernelSaved
  BY TaskCode DEF Exit
<1>2. PICK t \in TaskPages : t = next_task
  BY <1>1, OnStack
<1>3. PICK behind : behind = mem[t + 2]
  OBVIOUS
<1>4. PICK ahead : ahead = mem[t + 1]
  OBVIOUS
<1>5. /\ pc' = "cleanup" /\ current' = t
      /\ reg' \in [Registers -> Words] /\ mem' \in [Addresses -> Words]
      /\ reg'["ESP"] = t + (PageWords - 3)
      /\ mem'[t + (PageWords - 1)] = Kernel /\ mem'[t + (PageWords - 2)] = t
      /\ next_task' = IF ahead = t THEN 0 ELSE behind
      /\ \A q \in TaskPages :
           /\ mem'[q + 1] = IF ahead # t /\ q = behind THEN ahead ELSE mem[q + 1]
           /\ mem'[q + 2] = IF ahead # t /\ q = ahead THEN behind ELSE mem[q + 2]
      /\ \A q \in Contexts : \A k \in 0 .. PageWords - 1 :
           q # t /\ k \notin {1, 2} /\ (q = Kernel => k # 11) => mem'[q + k] = mem[q + k]
  BY <1>2, <1>3, <1>4, ExitIs
<1>6. UNCHANGED <<free, owned, halted, task, locals, called>>
  BY DEF Exit, poolVars, history
<1>7. /\ TaskPages \subseteq Contexts /\ Kernel \in Contexts /\ Kernel \notin TaskPages
      /\ t \in Contexts /\ t \in Nat /\ PageWords \in Nat /\ PageWords >= 20
      /\ 0 \notin TaskPages
  BY PagesApart, Sizes DEF Contexts
<1>8. /\ \A q \in TaskPages : q # t => PageKept(q)
      /\ KernelKept
  <2>1. /\ PageWords - 4 \notin {1, 2} /\ PageWords - 4 # 11
        /\ \A k \in 3 .. 10 : k \notin {1, 2} /\ k # 11
    BY <1>7
  <2>2. \A q \in TaskPages : q # t => PageKept(q)
    BY <1>5, <1>7, OtherFieldsAre DEF PageKept
  <2>3. KernelKept
    BY <1>5, <1>7, <2>1 DEF KernelKept
  <2> QED  BY <2>2, <2>3
<1>9. /\ Live' = Live \ {t} /\ t \in Live /\ Live \subseteq TaskPages
      /\ owned \subseteq TaskPages /\ owned' = owned /\ t \in owned
  BY <1>1, <1>2, <1>5, <1>6, <1>7 DEF Live, SwitchTypes, TaskRuns
<1>10. /\ nexts \in [TaskPages -> Links] /\ previouss \in [TaskPages -> Links]
       /\ Linked(Live, nexts, previouss)
  BY <1>1, <1>9, RingIsLinked
<1>11. /\ \A q \in TaskPages : /\ nexts[q] = mem[q + 1] /\ nexts'[q] = mem'[q + 1]
                               /\ previouss[q] = mem[q + 2] /\ previouss'[q] = mem'[q + 2]
       /\ behind = previouss[t] /\ ahead = nexts[t]
  BY <1>3, <1>4, OtherFieldsAre DEF nexts, previouss
<1>12. /\ behind \in Live /\ ahead \in Live
       /\ previouss[ahead] = t /\ nexts[behind] = t
       /\ ahead # t => behind # t
  BY <1>9, <1>10, <1>11 DEF Linked
<1>13. \A q \in TaskPages :
         /\ nexts'[q] = IF q = behind THEN ahead ELSE nexts[q]
         /\ previouss'[q] = IF q = ahead THEN behind ELSE previouss[q]
  <2>1. CASE ahead = t
    <3>1. behind = t
      BY <1>12, <1>11, <2>1
    <3>2. nexts[t] = t /\ previouss[t] = t
      BY <1>11, <2>1, <3>1
    <3>3. \A q \in TaskPages : nexts'[q] = nexts[q] /\ previouss'[q] = previouss[q]
      BY <1>5, <1>11, <2>1
    <3> QED  BY <2>1, <3>1, <3>2, <3>3
  <2>2. CASE ahead # t
    BY <1>5, <1>11, <2>2
  <2> QED  BY <2>1, <2>2
<1>14. RingIsLive'
  <2>1. \A q \in Live \ {t} : /\ nexts'[q] = IF q = previouss[t] THEN nexts[t] ELSE nexts[q]
                              /\ previouss'[q] = IF q = nexts[t] THEN previouss[t]
                                   ELSE previouss[q]
    BY <1>9, <1>11, <1>13
  <2>2. Linked(Live', nexts', previouss')
    BY <1>9, <1>10, <2>1, RingRemove
  <2>3. next_task' \in Live' \union {0}
    BY <1>5, <1>9, <1>12
  <2>4. nexts' \in [TaskPages -> Links] /\ previouss' \in [TaskPages -> Links]
    <3>1. \A q \in TaskPages : nexts'[q] \in Links /\ previouss'[q] \in Links
      BY <1>9, <1>10, <1>12, <1>13 DEF Links
    <3> QED  BY <3>1 DEF nexts, previouss
  <2> QED  BY <1>9, <2>2, <2>3, <2>4, RingWasLinked
<1>15. SwitchTypes'
  BY <1>1, <1>5, <1>6 DEF SwitchTypes, Links
<1>16. Control'
  <2>1. /\ Top(t) - 2 = t + (PageWords - 3)
        /\ Top(t) - 1 = t + (PageWords - 2) /\ Top(t) = t + (PageWords - 1)
    BY <1>7 DEF Top
  <2>2. /\ reg'["ESP"] = Top(t) - 2 /\ mem'[Top(t) - 1] = t /\ mem'[Top(t)] = Kernel
    BY <1>5, <2>1
  <2>3. /\ pc' = "cleanup" /\ current' = t /\ t \in owned' /\ task' = 0
    BY <1>1, <1>5, <1>6, <1>9
  <2>4. /\ reg'["ESP"] = Top(current)' - 2 /\ mem'[Top(current)' - 1] = current'
        /\ mem'[Top(current)'] = Kernel
    BY <2>2, <2>3 DEF Top
  <2> QED  BY <2>3, <2>4 DEF Control, Top, Kernel
<1>17. StacksKept'
  <2>1. \A q \in owned \ {t} : StackKept(q)'
    <3> SUFFICES ASSUME NEW q \in owned \ {t}
                 PROVE  StackKept(q)'
      OBVIOUS
    <3>1. StackKept(q) /\ q \in TaskPages /\ q # t
      BY <1>1, <1>7, <1>9 DEF SwitchInv, StacksKept, StackKept
    <3> QED  BY <1>1, <1>6, <1>8, <3>1, StackFramed
  <2> QED  BY <1>5, <1>6, <2>1 DEF StacksKept, StackKept
<1>18. KernelSaved'
  BY <1>1, <1>6, <1>8, KernelFramed
<1>19. TasksWait'
  <2>1. \A q \in owned \ {t} : Waits(q)'
    <3> SUFFICES ASSUME NEW q \in owned \ {t}
                 PROVE  Waits(q)'
      OBVIOUS
    <3>1. Waits(q) /\ q \in TaskPages /\ q # t
      BY <1>1, <1>2, <1>7, <1>9 DEF SwitchInv, TasksWait
    <3> QED  BY <1>1, <1>6, <1>8, <3>1, WaitsFramed
  <2> QED  BY <1>5, <1>6, <2>1 DEF TasksWait
<1>20. RegistersStep
  BY <1>5 DEF RegistersStep
<1>21. Scheduled
  <2>1. PageOf(reg["ESP"]) = t
    BY <1>1, <1>2, OnStack
  <2>2. PageOf(reg["ESP"])' = t
    <3>1. PageWords - 3 \in 0 .. PageWords - 1
      BY <1>7
    <3>2. PageOf(t + (PageWords - 3)) = t
      BY <1>7, <3>1, PageOfWord
    <3> QED  BY <1>5, <3>2 DEF PageOf
  <2>3. /\ ahead = t => next_task' = 0 /\ UNCHANGED <<nexts, previouss>>
        /\ ahead # t => /\ nexts' = [nexts EXCEPT ![behind] = ahead]
                        /\ previouss' = [previouss EXCEPT ![ahead] = behind]
                        /\ next_task' = behind
    <3>1. /\ DOMAIN nexts = TaskPages /\ DOMAIN nexts' = TaskPages
          /\ DOMAIN previouss = TaskPages /\ DOMAIN previouss' = TaskPages
          /\ nexts = [q \in TaskPages |-> nexts[q]] /\ nexts' = [q \in TaskPages |-> nexts'[q]]
          /\ previouss = [q \in TaskPages |-> previouss[q]]
          /\ previouss' = [q \in TaskPages |-> previouss'[q]]
      BY DEF nexts, previouss
    <3>2. CASE ahead = t
      <4>1. \A q \in TaskPages : nexts'[q] = nexts[q] /\ previouss'[q] = previouss[q]
        BY <1>5, <1>11, <3>2
      <4> QED  BY <1>5, <3>1, <3>2, <4>1
    <3>3. CASE ahead # t
      BY <1>5, <1>9, <1>10, <1>12, <1>13, <3>1, <3>3
    <3> QED  BY <3>2, <3>3
  <2>4. /\ mem[t + NextField] = ahead /\ mem[t + PreviousField] = behind
    BY <1>3, <1>4, OtherFieldsAre
  <2>5. Scheduling!Unlink
    BY <2>1, <2>3, <1>11 DEF Scheduling!Unlink, nexts, previouss
  <2>6. Scheduling!Exit
    BY <1>1, <1>5, <1>6, <2>1, <2>2, <2>5 DEF Scheduling!Exit, Scheduling!poolVars
  <2> QED  BY <2>6 DEF Scheduled, Scheduling!Next
<1> QED
  BY <1>14, <1>15, <1>16, <1>17, <1>18, <1>19, <1>20, <1>21
     DEF StepIsRight, SwitchInv, KernelWaits, KernelSaved

-----------------------------------------------------------------------------
(***************************************************************************)
(* The theorems                                                            *)
(***************************************************************************)
\* At the start nothing is owned and the kernel's own code runs.
LEMMA InitIsRight ==
  ASSUME SwitchInit
  PROVE  SwitchInv /\ Scheduling!Init
<1> USE DEF SwitchInit
<1>1. /\ TaskPages \subseteq Contexts /\ Kernel \in Contexts /\ Kernel \in Nat
      /\ PageWords \in Nat /\ PageWords >= 20
      /\ 1 \in 0 .. PageWords - 1 /\ 2 \in 0 .. PageWords - 1 /\ 11 \in 0 .. PageWords - 1
  BY PagesApart, Sizes DEF Contexts
<1>2. mem \in [Addresses -> Words] /\ \A a \in Addresses : mem[a] = 0
  BY DEF Words
<1>3. /\ next_task = 0
      /\ \A p \in TaskPages : mem[p + NextField] = 0 /\ mem[p + PreviousField] = 0
  <2>1. Kernel + 11 \in Addresses /\ \A p \in TaskPages : p + 1 \in Addresses
          /\ p + 2 \in Addresses
    BY LinksApart, NextTaskApart
  <2> QED  BY <1>2, <2>1, OtherFieldsAre DEF next_task
<1>4. reg \in [Registers -> Words] /\ reg["ESP"] = Top(Kernel)
  <2>1. Computed(Kernel, 0) \in [Registers -> Words]
    <3>1. \A r \in Registers : RegisterField[r] \in Int
      BY FieldsAre
    <3>2. \A i \in Int : Content(Kernel, i, 0) \in Words
      BY <1>1 DEF Content, Words
    <3> QED  BY <3>1, <3>2 DEF Computed
  <2>2. Kernel + PageWords - 1 \in Words /\ "ESP" \in Registers
    BY <1>1, RegistersAre DEF Words
  <2> QED  BY <2>1, <2>2 DEF Top
<1>5. SwitchTypes
  <2>1. /\ locals \in [TaskPages -> Seq(Int)] /\ \A p \in TaskPages : Len(locals[p]) <= Locals
    <3>1. <<>> \in Seq(Int) /\ Len(<<>>) = 0
      BY EmptySeq
    <3> QED  BY <3>1, Sizes
  <2>2. called \in [Contexts -> [Registers -> Words] \union {<<>>}]
    BY DEF Contexts
  <2> QED  BY <1>2, <1>4, <2>1, <2>2 DEF SwitchTypes, Links
<1>6. RingIsLive
  BY <1>3 DEF RingIsLive, Live, Links
<1>7. Control
  BY <1>4 DEF Control
<1>8. StacksKept /\ KernelWaits /\ TasksWait
  BY DEF StacksKept, KernelWaits, TasksWait, InTaskCode
<1>9. Scheduling!Init
  <2>1. PageOf(reg["ESP"]) = Kernel
    BY <1>4, KernelStackIs
  <2> QED  BY <1>3, <2>1 DEF Scheduling!Init
<1> QED  BY <1>5, <1>6, <1>7, <1>8, <1>9 DEF SwitchInv

\* Whatever step is taken
LEMMA StepsAreRight ==
  ASSUME SwitchInv, SwitchNext
  PROVE  StepIsRight
<1>1. CASE TaskWorks
  <2>1. CASE \E g \in {0, 1} : Compute(g) \/ PushLocal(g)
    BY <2>1, ComputeIsRight, PushLocalIsRight
  <2>2. CASE PopLocal
    BY <2>2, PopLocalIsRight
  <2> QED  BY <1>1, <2>1, <2>2 DEF TaskWorks
<1>2. CASE \E p \in TaskPages : AddAllocate(p)
  BY <1>2, AddAllocateIsRight
<1>3. CASE AddOutOfMemory \/ Run \/ RunReturns
  BY <1>3, RunIsRight
<1>4. CASE AddLink
  BY <1>4, AddLinkIsRight
<1>5. CASE Resume
  BY <1>5, ResumeIsRight
<1>6. CASE Advance
  BY <1>6, AdvanceIsRight
<1>7. CASE Yield
  BY <1>7, YieldIsRight
<1>8. CASE Exit
  BY <1>8, ExitIsRight
<1>9. CASE LeaveStack
  BY <1>9, LeaveStackIsRight
<1>10. CASE Deallocate
  BY <1>10, DeallocateIsRight
<1> QED
  BY <1>1, <1>2, <1>3, <1>4, <1>5, <1>6, <1>7, <1>8, <1>9, <1>10 DEF SwitchNext

\* A step that changes nothing
LEMMA StutterIsRight ==
  ASSUME SwitchInv, UNCHANGED switchVars
  PROVE  SwitchInv' /\ Scheduled
<1> USE DEF switchVars, poolVars, history
<1>1. SwitchTypes' /\ StacksKept'
  BY DEF SwitchInv, SwitchTypes, StacksKept
<1>2. RingIsLive'
  BY DEF SwitchInv, RingIsLive, Live, next_task
<1>3. Control'
  BY DEF SwitchInv, Control, TaskRuns, Live, next_task
<1>4. KernelWaits'
  BY DEF SwitchInv, KernelWaits, InTaskCode, Saved
<1>5. TasksWait'
  BY DEF SwitchInv, TasksWait, InTaskCode, Waits, Fresh, Yielded, Saved, next_task
<1>6. Scheduled
  <2>1. LinksKept /\ next_task' = next_task
    BY DEF LinksKept, next_task
  <2>2. PageOf(reg["ESP"])' = PageOf(reg["ESP"])
    BY DEF PageOf
  <2> QED  BY <2>1, <2>2, QuietStep
<1> QED  BY <1>1, <1>2, <1>3, <1>4, <1>5, <1>6 DEF SwitchInv

\* The invariant holds of every behaviour, for pages of any size, any number
\* of tasks and any depth of their stacks.
THEOREM SwitchInvariant == SwitchSpec => []SwitchInv
<1>1. SwitchInit => SwitchInv
  BY InitIsRight
<1>2. SwitchInv /\ [SwitchNext]_switchVars => SwitchInv'
  BY StepsAreRight, StutterIsRight DEF StepIsRight
<1> QED  BY <1>1, <1>2, PTL DEF SwitchSpec

\* No switch, no new task, no exit and no free page disturbs what another task
\* keeps on its stack, the address of _cleanup_task at its top, or its pointer
\* to the scheduler.
THEOREM SwitchKeepsStacks == SwitchSpec => []StacksKept
<1>1. SwitchInv => StacksKept
  BY DEF SwitchInv
<1> QED  BY <1>1, SwitchInvariant, PTL

\* A task comes back from scheduler_yield with every register as it left it;
\* scheduler_run comes back from _resume_task with those the calling
\* convention has a function preserve, also when the task has exited and
\* _dealloc_and_jump_to_task was what returned.
THEOREM SwitchKeepsRegisters == SwitchSpec => RegistersKept
<1>1. SwitchInv /\ [SwitchNext]_switchVars => [RegistersStep]_switchVars
  BY StepsAreRight DEF StepIsRight
<1>2. RegistersKept <=> [][RegistersStep]_switchVars
  BY PTL DEF RegistersKept, RegistersStep
<1> QED  BY <1>1, <1>2, SwitchInvariant, PTL DEF SwitchSpec

\* Instruction by instruction the routines of scheduler-helper.s and the links
\* in memory do what Scheduler says of them in one step each: what is proved of
\* Scheduler's steps holds of these.
THEOREM SwitchImplementsScheduler == SwitchSpec => ImplementsScheduler
<1>1. SwitchInit => Scheduling!Init
  BY InitIsRight
<1>2. SwitchInv /\ [SwitchNext]_switchVars => [Scheduling!Next]_Scheduling!vars
  BY StepsAreRight, StutterIsRight DEF StepIsRight, Scheduled
<1> QED  BY <1>1, <1>2, SwitchInvariant, PTL DEF SwitchSpec, ImplementsScheduler
=============================================================================
