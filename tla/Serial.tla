------------------------------- MODULE Serial -------------------------------
(***************************************************************************)
(* The serial port: src/serial.c and the device behind COM1_PORT it drives *)
(* with io_outb and io_inb of src/io.s.  A register is its distance from   *)
(* COM1_PORT.  Bit 7 of register 3, DLAB, turns registers 0 and 1 into the *)
(* two halves of the baud rate divisor.  The device sends while the        *)
(* processor runs; what it receives is left out, as the code reads none.   *)
(***************************************************************************)
EXTENDS Integers, Sequences

CONSTANTS
  Bytes,            \* characters written to the port
  FifoSize          \* bytes the transmitter's FIFO holds, 16 in a 16550

ASSUME SerialAssumption ==
  /\ Bytes \subseteq 0 .. 255
  /\ FifoSize \in Nat \ {0}

VARIABLE
  uart              \* registers and FIFO of the device

UartType ==
  [ier : 0 .. 255, fcr : 0 .. 255, lcr : 0 .. 255, mcr : 0 .. 255,
   divisor : [{"low", "high"} -> 0 .. 255], fifo : Seq(Bytes)]

\* Some baud rate, interrupts on, a byte of the firmware still to be sent;
\* DLAB is clear, as after a reset of the device.
UartInit ==
  \E b \in Bytes :
    uart = [ier |-> 15, fcr |-> 0, lcr |-> 7, mcr |-> 0,
            divisor |-> [low |-> 12, high |-> 1], fifo |-> <<b>>]

-----------------------------------------------------------------------------
(***************************************************************************)
(* The device                                                              *)
(***************************************************************************)
DLAB(u)  == u.lcr >= 128
Depth(u) == IF u.fcr % 2 = 1 THEN FifoSize ELSE 1

\* A byte for a full transmitter is lost.
Queue(u, b) ==
  IF Len(u.fifo) < Depth(u) THEN [u EXCEPT !.fifo = Append(@, b)] ELSE u

\* While DLAB is set registers 0 and 1 are the divisor.
ToDivisor(u, register, value) ==
  [u EXCEPT !.divisor[IF register = 0 THEN "low" ELSE "high"] = value]

\* Bit 2 of register 2 empties the transmitter.
ToRegister(u, register, value) ==
  CASE register = 0 -> Queue(u, value)
    [] register = 1 -> [u EXCEPT !.ier = value]
    [] register = 2 -> [u EXCEPT !.fcr = value,
                                 !.fifo = IF (value \div 4) % 2 = 1 THEN <<>> ELSE @]
    [] register = 3 -> [u EXCEPT !.lcr = value]
    [] register = 4 -> [u EXCEPT !.mcr = value]

\* The device after io_outb(COM1_PORT + register, value)
Out(u, register, value) ==
  IF DLAB(u) /\ register \in {0, 1} THEN ToDivisor(u, register, value)
                                   ELSE ToRegister(u, register, value)

\* Bit 5 of register 5
TransmitterEmpty(u) == u.fifo = <<>>

\* The oldest byte leaves on the line.
Transmit ==
  /\ uart.fifo # <<>>
  /\ uart' = [uart EXCEPT !.fifo = Tail(@)]

-----------------------------------------------------------------------------
(***************************************************************************)
(* src/serial.c                                                            *)
(***************************************************************************)

\* Eight bits, no parity, one stop bit
LineControl == 3

\* The io_outbs of serial_init, each on the device the last one left
SerialInit ==
  LET u1 == Out(uart, 1, 0)
      u2 == Out(u1, 3, 128)
      u3 == Out(u2, 0, 3)
      u4 == Out(u3, 1, 0)
      u5 == Out(u4, 3, LineControl)
      u6 == Out(u5, 2, 199)
  IN  uart' = Out(u6, 4, 11)

\* Mutant of IsTransmitEmpty: the byte is written whatever the transmitter does.
NoWait == TRUE

\* Mutant of IsTransmitEmpty: a bit of the status register nothing ever sets.
WrongStatusBit == FALSE

IsTransmitEmpty == TransmitterEmpty(uart)

\* The end of _write_char_to_serial: its loop left, the byte is written.
SerialWriteChar(c) ==
  /\ IsTransmitEmpty
  /\ uart' = Out(uart, 0, c)

-----------------------------------------------------------------------------
(***************************************************************************)
(* What serial_init's comments say the port is set to: interrupts off, a   *)
(* divisor of 3 (38400 baud), eight bits, no parity, one stop bit, FIFO    *)
(* enabled, RTS and DSR set.                                               *)
(***************************************************************************)
Programmed ==
  /\ uart.ier = 0
  /\ uart.divisor = [low |-> 3, high |-> 0]
  /\ uart.lcr = 3
  /\ uart.fcr = 199
  /\ uart.mcr = 11
=============================================================================
