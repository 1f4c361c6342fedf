------------------------------- MODULE Kernel -------------------------------
(***************************************************************************)
(* The kernel from `start` of src/loader.s through kmain of src/kernel.c   *)
(* to the calls it makes once it runs, with the descriptor tables of       *)
(* memory_init_gdt and interrupts_init, and the way from an exception      *)
(* through the stubs of src/isrs.s to panic.  It composes Console and      *)
(* Serial, which every routine here shares.                                *)
(*                                                                         *)
(* `at` is the routine the processor is about to execute.  An exception or *)
(* an NMI may come before each step; maskable interrupts may not, as start *)
(* executes CLI and nothing calls interrupts_enable.  The allocator behind *)
(* memory_detect is module Windows; of it only the entries of the kernel's *)
(* page table it takes are seen here.                                      *)
(***************************************************************************)
EXTENDS Console, Serial, FiniteSets, SequencesExt

CONSTANTS
  PageSize,         \* bytes of a page, more than the flag bits of an entry
  NumEntries,       \* entries of kernel_page_table
  KernelEnds,       \* physical addresses linker.ld may give the symbol `end`
  HalfWord,         \* 2^16: a handler's address is two half words
  IsrBase,          \* address of isr0; stubs are a byte long
  Vectors,          \* exceptions that occur
  MaxNesting,       \* bound: exceptions taken one inside the other
  Printed,          \* letters the kernel prints
  PanicLetter,      \* stands for the text of a panic's message
  DumpLetter,       \* stands for a line of console_dump_registers
  DumpLines         \* lines console_dump_registers prints

ErrorCodeVectors == {8, 10, 11, 12, 13, 14, 17}
NMI                == 2
DeviceNotAvailable == 7
PageFault          == 14
GeneralProtection  == 13

Absent   == -1
NoVector == -1

ASSUME KernelAssumption ==
  /\ PageSize \in Nat /\ PageSize > 4
  /\ NumEntries \in Nat
  /\ KernelEnds \subseteq Nat
  /\ \A e \in KernelEnds : e > PageSize /\ e <= NumEntries * PageSize
  /\ IsrBase \in Nat /\ HalfWord \in Nat \ {0} /\ IsrBase + 31 < HalfWord * HalfWord
  \* #AC (17) occurs at privilege level 3 only, and all of src/ runs at 0
  /\ Vectors \subseteq (0 .. 31) \ {17}
  /\ Printed \union {PanicLetter, DumpLetter} \subseteq Letters
  /\ MaxNesting \in Nat \ {0}
  \* 1 + 13 lines on a screen of 25
  /\ DumpLines \in Nat /\ DumpLines + 2 <= ROWS

VARIABLES
  at,
  kernel_end,       \* `end` - 0xC0000000
  has_fpu,          \* capabilities_has_fpu()
  kernel_page_table,\* entry -> frame, or Absent
  cr0,              \* flags set in CR0
  nmi_off,          \* NMI_INTERRUPTS_OFF is set at NMI_PORT
  gdt, gdtr,        \* the array of memory.c, and what LGDT loaded
  idt, idtr,        \* the array of interrupts.c, and what LIDT loaded
  segments,         \* selector in CS, and in the five other segment registers
  trap,             \* the last exception, and the struct registers of its handler
  nesting,          \* exceptions not returned from
  printed           \* characters of its text panic has printed

tables     == <<gdt, gdtr, idt, idtr, segments>>
machine    == <<kernel_end, has_fpu, kernel_page_table, cr0, nmi_off, tables>>
panicVars  == <<trap, nesting, printed>>
kernelVars == <<at, machine, panicVars, consoleVars, uart>>

-----------------------------------------------------------------------------
(***************************************************************************)
(* Segment descriptors: struct gdt_entry, and what the processor makes of  *)
(* one.                                                                    *)
(***************************************************************************)
KernelCode == 8     \* SEGMENT_KERNEL_CODE
KernelData == 16    \* SEGMENT_KERNEL_DATA

SetLimit(limit) ==
  [limit_lower |-> limit % 65536, limit_high |-> (limit \div 65536) % 16]

\* limit is 0xFFFFFFFF in the code; its upper bits are cut off, and eight of
\* them are here already.
GdtEntry(type, dpl) ==
  [limit |-> SetLimit(16777215), base |-> 0, present |-> TRUE, size |-> "32bit",
   granularity |-> "4K", descriptor_type |-> "codedata", type |-> type, dpl |-> dpl]

NullEntry ==
  [limit |-> SetLimit(0), base |-> 0, present |-> FALSE, size |-> "16bit",
   granularity |-> "byte", descriptor_type |-> "system", type |-> "data", dpl |-> 0]

\* Mutant of Gdt: code and data swapped.
GdtSwapped == <<NullEntry, GdtEntry("data", 0), GdtEntry("code", 0),
                           GdtEntry("code", 3), GdtEntry("data", 3)>>

Gdt == <<NullEntry, GdtEntry("code", 0), GdtEntry("data", 0),
                    GdtEntry("code", 3), GdtEntry("data", 3)>>

FakeGdt == <<NullEntry, GdtEntry("code", 0), GdtEntry("data", 0)>>

\* The descriptor a selector selects, NullEntry if it is behind the limit
Descriptor(selector) ==
  LET table == IF gdtr.first = "fake_gdt" THEN FakeGdt ELSE gdt
      index == selector \div 8 + 1
  IN  IF selector + 7 <= gdtr.limit /\ index <= Len(table) THEN table[index] ELSE NullEntry

\* A present segment of the type that is all of the 4 GB
Flat(d, type) ==
  /\ d.present /\ d.type = type /\ d.descriptor_type = "codedata" /\ d.size = "32bit"
  /\ d.base = 0 /\ d.granularity = "4K"
  /\ d.limit.limit_high * 65536 + d.limit.limit_lower = 1048575

-----------------------------------------------------------------------------
(***************************************************************************)
(* Interrupt gates: union idt_entry, and what the processor makes of one.  *)
(***************************************************************************)
Isr(v) == IsrBase + v

ZeroGate == [offset_lower |-> 0, offset_upper |-> 0, selector |-> 0, present |-> FALSE]

\* Mutant of SetupInterruptGate: the upper half is not shifted down.
SetupGateUnshifted(handler) ==
  [offset_lower |-> handler % HalfWord, offset_upper |-> handler % HalfWord,
   selector |-> KernelCode, present |-> TRUE]

SetupInterruptGate(handler) ==
  [offset_lower |-> handler % HalfWord, offset_upper |-> (handler \div HalfWord) % HalfWord,
   selector |-> KernelCode, present |-> TRUE]

\* Entries 32 to 255 stay zero, and are left out.
Idt == [v \in 0 .. 31 |-> SetupInterruptGate(Isr(v))]

\* The last word pushed is on top; the words are named for what they hold.
PushA == <<"eax", "ecx", "edx", "ebx", "esp", "ebp", "esi", "edi">>

\* Mutant of StubsWithErrorCode: #DF's stub pushes a 0 as others do.
StubsWithoutDF == {10, 11, 12, 13, 14}

\* The vectors of GEN_ISR_WITH_ERR
StubsWithErrorCode == {8, 10, 11, 12, 13, 14}

\* What the processor, isr<v> and asm_general_isr push
StackAt(v) ==
  <<"eflags", "cs", "eip">>
  \o (IF v \in ErrorCodeVectors   THEN <<"error_code">> ELSE <<>>)
  \o (IF v \in StubsWithErrorCode THEN <<>> ELSE <<"zero">>)
  \o <<"vector">> \o PushA \o <<"ds">>

\* struct registers, from the lowest address upwards
RegisterFields ==
  <<"ds", "edi", "esi", "ebp", "esp", "ebx", "edx", "ecx", "eax",
    "interrupt_no", "error_code", "eip", "cs", "eflags">>

\* The regs of _general_isr: it finds its fields on the stack.
Regs(v) ==
  [f \in ToSet(RegisterFields) |->
     Reverse(StackAt(v))[CHOOSE i \in 1 .. Len(RegisterFields) : RegisterFields[i] = f]]

\* The page that holds the word below address a is mapped.
StackMapped(a) ==
  \A byte \in a - 4 .. a - 1 : kernel_page_table[byte \div PageSize] # Absent

\* The handler runs if its gate and its code segment are there.
Delivered(v) ==
  /\ 8 * v + 7 <= idtr.limit
  /\ idtr.first = "idt" /\ idt[v].present
  /\ Flat(Descriptor(idt[v].selector), "code")
  /\ idt[v].offset_upper * HalfWord + idt[v].offset_lower = Isr(v)

\* A triple fault resets the machine.
Trap(v) ==
  /\ IF Delivered(v)
     THEN at' = "panic" /\ trap' = [raised |-> v, regs |-> Regs(v)]
     ELSE at' = "reset" /\ UNCHANGED trap
  /\ nesting' = nesting + 1
  /\ UNCHANGED printed

\* Something goes wrong at the step the processor is about to execute; HLT
\* ends with an NMI only.
Exception(v) ==
  /\ at # "reset" /\ nesting < MaxNesting
  /\ at = "halted" => v = NMI
  /\ v = NMI => ~nmi_off
  /\ Trap(v)
  /\ UNCHANGED <<machine, consoleVars, uart>>

KernelInit ==
  /\ ConsoleInit /\ UartInit
  /\ at = "start"
  /\ kernel_end \in KernelEnds /\ has_fpu \in BOOLEAN
  /\ kernel_page_table = [e \in 0 .. NumEntries - 1 |-> Absent]
  /\ cr0 = {"PE"} /\ nmi_off = FALSE
  /\ gdt = <<NullEntry>> /\ gdtr = [first |-> "boot_loader", limit |-> -1]
  /\ idt = [v \in 0 .. 31 |-> ZeroGate] /\ idtr = [first |-> "boot_loader", limit |-> -1]
  /\ segments = [code |-> 0, data |-> 0]
  /\ trap = [raised |-> NoVector] /\ nesting = 0 /\ printed = 0

-----------------------------------------------------------------------------
(***************************************************************************)
(* src/loader.s                                                            *)
(***************************************************************************)
Start ==
  /\ at = "start" /\ at' = "map_kernel_loop"
  /\ gdtr' = [first |-> "fake_gdt", limit |-> 8 * Len(FakeGdt) - 1]
  /\ segments' = [segments EXCEPT !.data = KernelData]
  /\ UNCHANGED <<kernel_end, has_fpu, kernel_page_table, cr0, nmi_off, gdt, idt, idtr,
                 panicVars, consoleVars, uart>>

\* Mutant of MapsEntry: the loop ends a page early.
MapsEntryBefore(entry) == entry = 0 \/ (entry + 1) * PageSize + 3 < kernel_end

\* The loop compares the next entry, its flags included, with `end`.
MapsEntry(entry) == entry = 0 \/ entry * PageSize + 3 < kernel_end

MapKernelLoop ==
  /\ at = "map_kernel_loop" /\ at' = "enable_paging"
  /\ kernel_page_table' =
       [e \in 0 .. NumEntries - 1 |-> IF MapsEntry(e) THEN e ELSE Absent]
  /\ UNCHANGED <<kernel_end, has_fpu, cr0, nmi_off, tables, panicVars, consoleVars, uart>>

\* The table becomes that of the first 4 MB and of those at 0xC0000000.
EnablePaging ==
  /\ at = "enable_paging" /\ at' = "higher_half_start"
  /\ cr0' = cr0 \union {"PE", "PG"}
  /\ segments' = [segments EXCEPT !.code = KernelCode]
  /\ UNCHANGED <<kernel_end, has_fpu, kernel_page_table, nmi_off, gdt, gdtr, idt, idtr,
                 panicVars, consoleVars, uart>>

\* linker.ld: the stack begins at `end`.
HigherHalfStart ==
  /\ at = "higher_half_start"
  /\ IF StackMapped(kernel_end)
     THEN at' = "interrupts_disable" /\ UNCHANGED panicVars
     ELSE Trap(PageFault)
  /\ UNCHANGED <<machine, consoleVars, uart>>

-----------------------------------------------------------------------------
(***************************************************************************)
(* kmain                                                                   *)
(***************************************************************************)
InterruptsDisable(next_step) ==
  /\ nmi_off' = TRUE /\ at' = next_step
  /\ UNCHANGED <<kernel_end, has_fpu, kernel_page_table, cr0, tables, panicVars,
                 consoleVars, uart>>

FpuInit ==
  /\ at = "fpu_init" /\ at' = "finit"
  /\ cr0' = cr0 \union {"NE", IF has_fpu THEN "MP" ELSE "EM"}
  /\ UNCHANGED <<kernel_end, has_fpu, kernel_page_table, nmi_off, tables, panicVars,
                 consoleVars, uart>>

\* FINIT with EM set is an exception.
Finit ==
  /\ at = "finit"
  /\ IF "EM" \in cr0
     THEN Trap(DeviceNotAvailable)
     ELSE at' = "screen_clear" /\ UNCHANGED panicVars
  /\ UNCHANGED <<machine, consoleVars, uart>>

KmainScreenClear ==
  /\ at = "screen_clear" /\ at' = "memory_init_gdt"
  /\ ScreenClear
  /\ UNCHANGED <<machine, panicVars, uart>>

MemoryInitGdt ==
  /\ at = "memory_init_gdt" /\ at' = "gdt_set"
  /\ gdt' = Gdt
  /\ UNCHANGED <<kernel_end, has_fpu, kernel_page_table, cr0, nmi_off, gdtr, idt, idtr,
                 segments, panicVars, consoleVars, uart>>

GdtSet ==
  /\ at = "gdt_set" /\ at' = "interrupts_init"
  /\ gdtr' = [first |-> "gdt", limit |-> 8 * 5 - 1]
  /\ UNCHANGED <<kernel_end, has_fpu, kernel_page_table, cr0, nmi_off, gdt, idt, idtr,
                 segments, panicVars, consoleVars, uart>>

InterruptsInit ==
  /\ at = "interrupts_init" /\ at' = "idt_set"
  /\ idt' = Idt
  /\ UNCHANGED <<kernel_end, has_fpu, kernel_page_table, cr0, nmi_off, gdt, gdtr, idtr,
                 segments, panicVars, consoleVars, uart>>

IdtSet ==
  /\ at = "idt_set" /\ at' = "protected_mode_start"
  /\ idtr' = [first |-> "idt", limit |-> 8 * 256 - 1]
  /\ UNCHANGED <<kernel_end, has_fpu, kernel_page_table, cr0, nmi_off, gdt, gdtr, idt,
                 segments, panicVars, consoleVars, uart>>

\* Loading a selector of no usable descriptor is an exception.
ProtectedModeStart ==
  /\ at = "protected_mode_start"
  /\ IF Flat(Descriptor(KernelData), "data") /\ Flat(Descriptor(KernelCode), "code")
     THEN /\ at' = "serial_init"
          /\ segments' = [code |-> KernelCode, data |-> KernelData]
          /\ UNCHANGED panicVars
     ELSE Trap(GeneralProtection) /\ UNCHANGED segments
  /\ UNCHANGED <<kernel_end, has_fpu, kernel_page_table, cr0, nmi_off, gdt, gdtr, idt, idtr,
                 consoleVars, uart>>

KmainSerialInit ==
  /\ at = "serial_init" /\ at' = "memory_detect"
  /\ SerialInit
  /\ UNCHANGED <<machine, panicVars, consoleVars>>

FreeEntries == {e \in 0 .. NumEntries - 1 : kernel_page_table[e] = Absent}

\* memory_detect takes the first two free entries for its windows and, given
\* a memory map, leaves them mapped to frame 0; without two it panics.
MemoryDetect ==
  /\ at = "memory_detect"
  /\ IF Cardinality(FreeEntries) < 2
     THEN at' = "panic" /\ UNCHANGED kernel_page_table
     ELSE /\ at' = "running"
          /\ \E S \in SUBSET FreeEntries, has_memory_map \in BOOLEAN :
               /\ Cardinality(S) = 2 /\ \A e \in S, f \in FreeEntries \ S : e < f
               /\ kernel_page_table' =
                    [e \in 0 .. NumEntries - 1 |->
                       IF e \in S /\ has_memory_map THEN 0 ELSE kernel_page_table[e]]
  /\ UNCHANGED <<kernel_end, has_fpu, cr0, nmi_off, tables, panicVars, consoleVars, uart>>

KmainStep ==
  \/ at = "interrupts_disable" /\ InterruptsDisable("fpu_init")
  \/ FpuInit \/ Finit \/ KmainScreenClear
  \/ MemoryInitGdt \/ GdtSet \/ InterruptsInit \/ IdtSet \/ ProtectedModeStart
  \/ KmainSerialInit \/ MemoryDetect

-----------------------------------------------------------------------------
(***************************************************************************)
(* The kernel runs: kmain's console_write_string, and what a kernel that   *)
(* goes on may call.                                                       *)
(***************************************************************************)
ConsoleCall ==
  /\ at = "running"
  /\ ConsoleCalls(Printed)
  /\ UNCHANGED <<at, machine, panicVars, uart>>

SerialCall ==
  /\ at = "running" /\ at' = "serial_write_char"
  /\ UNCHANGED <<machine, panicVars, consoleVars, uart>>

SerialReturn ==
  /\ at = "serial_write_char" /\ at' = "running"
  /\ \E c \in Bytes : SerialWriteChar(c)
  /\ UNCHANGED <<machine, panicVars, consoleVars>>

\* A ROSE_ASSERT fails, or memory is exhausted.
PanicCalled ==
  /\ at = "running" /\ at' = "panic"
  /\ UNCHANGED <<machine, panicVars, consoleVars, uart>>

-----------------------------------------------------------------------------
(***************************************************************************)
(* panic                                                                   *)
(***************************************************************************)
PanicText ==
  <<PanicLetter, "newline">>
  \o [i \in 1 .. 2 * DumpLines |-> IF i % 2 = 1 THEN DumpLetter ELSE "newline"]

PanicReset ==
  /\ at = "panic" /\ at' = "panic_print"
  /\ ConsoleReset
  /\ printed' = 0
  /\ UNCHANGED <<machine, trap, nesting, uart>>

PanicPrint ==
  /\ at = "panic_print" /\ printed < Len(PanicText)
  /\ ConsoleWriteChar(PanicText[printed + 1])
  /\ printed' = printed + 1
  /\ UNCHANGED <<at, machine, trap, nesting, uart>>

PanicPrinted ==
  /\ at = "panic_print" /\ printed = Len(PanicText)
  /\ InterruptsDisable("panic_halt")

PanicHalt ==
  /\ at = "panic_halt" /\ at' = "halted"
  /\ UNCHANGED <<machine, panicVars, consoleVars, uart>>

PanicStep == PanicReset \/ PanicPrint \/ PanicPrinted \/ PanicHalt

-----------------------------------------------------------------------------
\* What the kernel does without being called
KernelStep ==
  \/ Start \/ MapKernelLoop \/ EnablePaging \/ HigherHalfStart
  \/ KmainStep \/ SerialReturn \/ PanicStep

KernelNext ==
  \/ KernelStep
  \/ ConsoleCall \/ SerialCall \/ PanicCalled
  \/ \E v \in Vectors : Exception(v)
  \/ Transmit /\ UNCHANGED <<at, machine, panicVars, consoleVars>>

\* The processor goes on, and so does the transmitter.
KernelFairness ==
  /\ WF_kernelVars(KernelStep)
  /\ WF_kernelVars(Transmit /\ UNCHANGED <<at, machine, panicVars, consoleVars>>)

KernelSpec == KernelInit /\ [][KernelNext]_kernelVars /\ KernelFairness

-----------------------------------------------------------------------------
(***************************************************************************)
(* Properties                                                              *)
(***************************************************************************)
KernelTypeOK ==
  /\ ConsoleTypeOK
  /\ uart \in UartType
  /\ kernel_page_table \in [0 .. NumEntries - 1 -> 0 .. NumEntries - 1 \union {Absent}]
  /\ cr0 \subseteq {"PE", "PG", "MP", "EM", "NE"}
  /\ nesting \in 0 .. MaxNesting /\ printed \in 0 .. Len(PanicText)

\* Once paging is on, every byte of the kernel's image and stack is mapped to
\* itself, memory_detect's windows notwithstanding, except the last bytes of
\* an image that ends one to three bytes into a page: loader.s's comment on
\* "the page containing the end of the kernel" does not hold of these.
ImageMapped ==
  "PG" \in cr0 =>
    \A byte \in 0 .. kernel_end - 1 :
      \/ kernel_page_table[byte \div PageSize] = byte \div PageSize
      \/ kernel_end % PageSize \in 1 .. 3 /\ byte >= kernel_end - (kernel_end % PageSize)

\* At every step the selectors in the segment registers, and those a gate
\* will load, select flat segments of the right kind in the table in force,
\* while that table is replaced under them and filled in.
SegmentsServe ==
  /\ segments.code # 0 => Flat(Descriptor(segments.code), "code")
  /\ segments.data # 0 => Flat(Descriptor(segments.data), "data")
  /\ idtr.first = "idt" => \A v \in 0 .. 31 : Flat(Descriptor(idt[v].selector), "code")

\* Once interrupts_init has run, no exception resets the machine: every one
\* reaches panic.  Before, an NMI, a missing FPU (FINIT is executed whether
\* there is one or not) and an image whose last bytes are unmapped do.
ExceptionsPanic == [][at' = "reset" => idtr.first # "idt"]_kernelVars

\* A kernel that halted in panic shows panic's message in the first row and
\* the registers below it, whatever was on the screen and wherever the
\* exception struck, one in panic itself included; and the handler was given
\* the exception's number and the interrupted context.
PanicIsShown ==
  at = "halted" =>
    /\ Shown[0][0] = PanicLetter
    /\ \A y \in 1 .. DumpLines : Shown[y][0] = DumpLetter
    /\ \A y \in 0 .. ROWS - 1, x \in 1 .. COLS - 1 : Shown[y][x] = Blank
    /\ trap.raised # NoVector =>
         /\ trap.regs.interrupt_no = "vector"
         /\ trap.regs.error_code =
              IF trap.raised \in ErrorCodeVectors THEN "error_code" ELSE "zero"
         /\ \A f \in ToSet(RegisterFields) \ {"interrupt_no", "error_code"} :
              trap.regs[f] = f

\* A byte goes to a port that is set up as serial_init's comments say, and
\* behind the bytes written before: none is dropped for a full transmitter
\* or taken for a divisor.
SerialBytesArrive ==
  [][SerialReturn =>
       /\ Programmed
       /\ \E c \in Bytes : uart'.fifo = Append(uart.fifo, c)]_kernelVars

\* The boot ends, a panic halts, and a write to the serial port returns, as
\* long as the transmitter sends; a reset, which ExceptionsPanic confines to
\* the time before interrupts_init, counts as an end.  And panic's HLT is for
\* good: its caller does not expect it back (kernel.c:82-83).
KernelSettles ==
  /\ at # "running" ~> at \in {"running", "halted", "reset"}
  /\ [][at = "halted" => at' = "halted"]_kernelVars
=============================================================================
