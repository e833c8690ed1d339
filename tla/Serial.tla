------------------------------- MODULE Serial -------------------------------
(***************************************************************************)
(* The serial port of kernel/serial.c: init_serial_com writes the          *)
(* registers of a 16550 UART, and serial_putchar polls the line status     *)
(* before it writes a character that serial_printf (kernel/print.c) has    *)
(* formatted; text is what vprintfmt (module PrintFmt) makes of the format *)
(* of one line.                                                            *)
(*                                                                         *)
(* The UART is external.  Its registers 0 and 1 are the divisor while bit  *)
(* 7 of the line control is set; what is written to register 0 otherwise   *)
(* waits in the transmitter's FIFO, or is lost when that is full.          *)
(***************************************************************************)
EXTENDS Integers, Sequences

CONSTANTS Texts,    \* lines to be logged
          FifoSize  \* characters that the transmitter holds: 16

Stale == "stale"       \* a character that the BIOS has left in the transmitter

ASSUME SerialAssumption == /\ FifoSize \in Nat \ {0}
                           /\ Texts \subseteq Seq(STRING \ {Stale})

VARIABLES text,   \* the line to be logged
          done,   \* registers that init_serial_com has written
          count,  \* n of serial_printf: the characters that putchar has written
          uart,   \* the UART
          shown   \* what the terminal has received

serialVars == <<text, done, count, uart, shown>>

Spoilt == "spoilt" \* one that was sent with another speed or format

Divisor == <<3, 0>>  \* 38400 baud, low and high byte
EightN1 == 3

(* init_serial_com: offsets from port, and values.                         *)
Registers ==
    <<<<1, 0>>, <<3, 128>>, <<0, 3>>, <<1, 0>>, <<3, 3>>, <<2, 199>>, <<4, 11>>>>

-----------------------------------------------------------------------------
(* The UART                                                                *)

Transmit(ch) ==
    IF Len(uart.fifo) < (IF uart.deep THEN FifoSize ELSE 1)
    THEN [uart EXCEPT !.fifo = Append(@, ch)]
    ELSE uart

UartWrite(offset, val) ==
    CASE offset = 0 /\ uart.dlab  -> [uart EXCEPT !.divisor[1] = val]
      [] offset = 0 /\ ~uart.dlab -> Transmit(val)
      [] offset = 1 /\ uart.dlab  -> [uart EXCEPT !.divisor[2] = val]
      [] offset = 1 /\ ~uart.dlab -> [uart EXCEPT !.ier = val]
      [] offset = 2 -> [uart EXCEPT !.deep = (val % 2 = 1),
                                    !.fifo = IF (val \div 4) % 2 = 1 THEN <<>> ELSE @]
      [] offset = 3 -> [uart EXCEPT !.dlab = (val >= 128), !.format = val % 128]
      [] offset = 4 -> uart

is_transmit_empty == uart.fifo = <<>>

(* The next character has gone over the line.                              *)
Send == /\ uart.fifo # <<>>
        /\ LET ch == Head(uart.fifo)
               seen == IF uart.divisor = Divisor /\ uart.format = EightN1
                       THEN ch ELSE Spoilt
           IN  shown' = IF ch = Stale THEN shown ELSE Append(shown, seen)
        /\ uart' = [uart EXCEPT !.fifo = Tail(@)]
        /\ UNCHANGED <<text, done, count>>

-----------------------------------------------------------------------------
(* What the BIOS leaves: another speed and format, the latch selected or   *)
(* not, a character on its way or none.                                    *)
SerialInit == /\ text \in Texts
              /\ done = 0
              /\ count = 0
              /\ \E dlab \in BOOLEAN, fifo \in {<<>>, <<Stale>>} :
                    uart = [dlab |-> dlab, divisor |-> <<1, 0>>, format |-> 0,
                            ier |-> 15, deep |-> FALSE, fifo |-> fifo]
              /\ shown = <<>>

init_serial == /\ done < Len(Registers)
               /\ uart' = UartWrite(Registers[done + 1][1], Registers[done + 1][2])
               /\ done' = done + 1
               /\ UNCHANGED <<text, count, shown>>

(* Mutant: the status is not asked for.                                    *)
PutcharUnpolled(ch) == uart' = UartWrite(0, ch)

(* The loop of write_serial ends when the transmitter is empty.            *)
serial_putchar(ch) == is_transmit_empty /\ uart' = UartWrite(0, ch)

(* vprintfmt hands serial_printf's putchar the text character by character *)
(* and its n to count them, which is what serial_printf returns.           *)
putchar == /\ done = Len(Registers) /\ count < Len(text)
           /\ serial_putchar(text[count + 1])
           /\ count' = count + 1
           /\ UNCHANGED <<text, done, shown>>

SerialNext == init_serial \/ putchar \/ Send

(* The kernel does nothing else while it logs, and the UART sends.         *)
SerialFairness == /\ WF_serialVars(init_serial \/ putchar)
                  /\ WF_serialVars(Send)

SerialSpec == SerialInit /\ [][SerialNext]_serialVars /\ SerialFairness

-----------------------------------------------------------------------------
(* init_serial_com leaves the UART as write_serial needs it, whatever the  *)
(* BIOS did, and polling loses no character: the port implements LogLine.  *)
LineSpec == INSTANCE LogLine
LogDelivered == LineSpec!LineSpec
=============================================================================
