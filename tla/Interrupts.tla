------------------------------ MODULE Interrupts -------------------------------
(***************************************************************************)
(* main, from the GDT to its hlt, one assignment or instruction at a time, *)
(* and the interrupts that arrive once they are enabled.  Every handler    *)
(* panics: it prints with the drawer main may just be using, and halts.    *)
(***************************************************************************)
EXTENDS Integers, Sequences

CONSTANTS
  MessageColumns, MessageLines,  \* characters of a line of the screen, lines
  EnabledLength,                 \* characters of "Enabled Interrupts"
  Irqs                           \* vectors at which interrupts arrive: nobody
                                 \* programs the interrupt controller

(* The last message fits in a line, with room for one more character; what *)
(* two characters and one stand for does too.                              *)
ASSUME InterruptsAssumption ==
  /\ MessageColumns \in Nat /\ MessageLines \in Nat
  /\ EnabledLength \in Nat /\ Irqs \subseteq Nat
  /\ MessageColumns > 2 /\ MessageColumns > EnabledLength /\ MessageLines > 0

DoubleFault == 8
GeneralProtectionFault == 13
PageFault == 14
Handled == {DoubleFault, GeneralProtectionFault, PageFault}

Vectors == Irqs \union Handled

VARIABLES
  code,    \* what main, and the handlers that interrupt it, have still to
           \* execute, the handler that runs first
  cursor,  \* the drawer's cursor, in characters and lines
  gdt,     \* descriptors at the selectors 0x08 and 0x10
  gates,   \* the gate of each vector
  cpu,     \* gdtr, cs, ss and idtr: whose they are; interrupts: the IF flag
  status   \* "running", or "garbage": an interrupt went through a gate that
           \* holds what its page held before

processor == <<code, cursor, gdt, gates, cpu, status>>

-------------------------------------------------------------------------------
(* putString, between whose assignments an interrupt may come.             *)
Glyphs(n) == [i \in 1 .. 4 * n |-> <<"draw", "move", "wrap", "scroll">>[((i - 1) % 4) + 1]]
LineBreak == <<"newline", "scroll">>

Line == Glyphs(2) \o LineBreak

InstallISR == <<"gate 14", "gate 8", "gate 13">>

SetupGDT == <<"memset", "entries", "lgdt", "data segments", "code segment">>

(* Mutants: sti before the line above it; lidt before the gates.           *)
SetupIDTEarlySti == InstallISR \o Line \o <<"lidt", "sti">> \o Line \o Glyphs(EnabledLength)
SetupIDTEarlyLidt == <<"lidt">> \o InstallISR \o Line \o Line \o <<"sti">> \o Glyphs(EnabledLength)

SetupIDT == InstallISR \o Line \o <<"lidt">> \o Line \o <<"sti">> \o Glyphs(EnabledLength)

Main == SetupGDT \o Line \o SetupIDT \o <<"hlt", "ret">>

(* Mutant: the message is printed without a hlt behind it.                 *)
PanicReturns == LineBreak \o LineBreak \o Glyphs(1) \o LineBreak \o <<"iret">>

(* The handlers, which all call Panic: two line breaks, a message, and one *)
(* hlt.                                                                    *)
Panic == LineBreak \o LineBreak \o Glyphs(1) \o LineBreak \o <<"hlt", "iret">>

(* The gates are of a type that disables interrupts.                       *)
GateDisablesNot(flag) == flag
GateDisables(flag) == FALSE

-------------------------------------------------------------------------------
(* _start has left the cursor anywhere at the begin of a line.  Interrupts *)
(* are off: the firmware leaves them so when its services end.  The pages  *)
(* of the two tables hold what they held before: gates that are not        *)
(* present, or anything.                                                   *)
InterruptsInit ==
  /\ code = <<Main>>
  /\ cursor \in [x : {0}, y : 0 .. MessageLines - 1]
  /\ gdt = [code |-> "unknown", data |-> "unknown"]
  /\ gates \in [Vectors -> {"absent", "garbage"}]
  /\ cpu = [gdtr |-> "firmware", cs |-> "firmware", ss |-> "firmware",
            idtr |-> "firmware", interrupts |-> FALSE]
  /\ status = "running"

Now(op) ==
  /\ status = "running" /\ Head(code[1]) = op
  /\ code' = [code EXCEPT ![1] = Tail(@)]

(* putChar, whose glyph does not matter here.                              *)
Draw == Now("draw") /\ UNCHANGED <<cursor, gdt, gates, cpu, status>>

NextLine(at) == [x |-> 0, y |-> at.y + 1]

Wrapped(at) == IF at.x + 1 > MessageColumns THEN NextLine(at) ELSE at

ScrolledBack(at) == IF at.y + 1 > MessageLines THEN [at EXCEPT !.y = @ - 1] ELSE at

MoveCursor ==
  /\ \/ Now("move") /\ cursor' = [cursor EXCEPT !.x = @ + 1]
     \/ Now("wrap") /\ cursor' = Wrapped(cursor)
     \/ Now("newline") /\ cursor' = NextLine(cursor)
     \/ Now("scroll") /\ cursor' = ScrolledBack(cursor)
  /\ UNCHANGED <<gdt, gates, cpu, status>>

FillGDT ==
  /\ \/ Now("memset") /\ gdt' = [code |-> "null", data |-> "null"]
     \/ Now("entries") /\ gdt' = [code |-> "code", data |-> "data"]
  /\ UNCHANGED <<cursor, gates, cpu, status>>

InstallGate ==
  /\ \E vector \in Handled :
       /\ Now(CASE vector = 8 -> "gate 8" [] vector = 13 -> "gate 13" [] vector = 14 -> "gate 14")
       /\ gates' = [gates EXCEPT ![vector] = "handler"]
  /\ UNCHANGED <<cursor, gdt, cpu, status>>

SetRegister ==
  /\ \/ Now("lgdt") /\ cpu' = [cpu EXCEPT !.gdtr = "kernel"]
     \/ Now("data segments") /\ cpu' = [cpu EXCEPT !.ss = gdt.data]
     \/ Now("code segment") /\ cpu' = [cpu EXCEPT !.cs = gdt.code]
     \/ Now("lidt") /\ cpu' = [cpu EXCEPT !.idtr = "kernel"]
     \/ Now("sti") /\ cpu' = [cpu EXCEPT !.interrupts = TRUE]
  /\ UNCHANGED <<cursor, gdt, gates, status>>

(* hlt waits for an interrupt; the code behind it is what it returns to.   *)
Waits == Head(code[1]) = "hlt"

(* A gate that is not present raises a general protection fault.           *)
Taken(vector) == IF gates[vector] = "absent" THEN gates[GeneralProtectionFault] ELSE gates[vector]

Deliver(vector) ==
  /\ status = "running" /\ cpu.interrupts
  /\ IF Taken(vector) = "handler"
     THEN /\ code' = <<Panic>> \o IF Waits THEN [code EXCEPT ![1] = Tail(@)] ELSE code
          /\ cpu' = [cpu EXCEPT !.interrupts = GateDisables(@)]
          /\ UNCHANGED status
     ELSE status' = "garbage" /\ UNCHANGED <<code, cpu>>
  /\ UNCHANGED <<cursor, gdt, gates>>

(* The processor executes the code it is in.                               *)
Execute == Draw \/ MoveCursor \/ FillGDT \/ InstallGate \/ SetRegister

InterruptsNext == Execute \/ \E vector \in Irqs : Deliver(vector)

InterruptsSpec == InterruptsInit /\ [][InterruptsNext]_processor /\ WF_processor(Execute)

-------------------------------------------------------------------------------
Panicking == Len(code) > 1

(* A panic, or main, has nothing left to do but wait.                      *)
Halted == status = "running" /\ Waits

(* Types of the cursor and the processor's state.                          *)
InterruptsTypeOK ==
  /\ cursor \in [x : 0 .. MessageColumns, y : 0 .. MessageLines]
  /\ gdt \in [code : {"unknown", "null", "code"}, data : {"unknown", "null", "data"}]
  /\ gates \in [Vectors -> {"absent", "garbage", "handler"}]
  /\ cpu.interrupts \in BOOLEAN /\ status \in {"running", "garbage"}
  /\ Len(code) \in 1 .. 2

(* Neither main nor a handler returns: behind the call of main in          *)
(* init_stack is no code (init_stack.asm:6), and a handler would pop an    *)
(* error code that an interrupt does not push.                             *)
NothingReturns == Head(code[1]) \notin {"ret", "iret"}

(* Handlers print with the cursor main is just moving (print.cpp:18-42).   *)
(* That never draws outside of the screen, because all that is printed     *)
(* with interrupts on is shorter than a line, so no interrupt comes        *)
(* between the end of a line and the scroll; and the handler's message is  *)
(* the last one, as it does not return.                                    *)
DrawsOnScreen ==
  /\ InterruptsTypeOK /\ NothingReturns
  /\ status = "running" /\ Head(code[1]) = "draw" =>
       cursor.x < MessageColumns /\ cursor.y < MessageLines

(* The descriptors a table register leads to are there before it is loaded,*)
(* the segments and the handlers before interrupts are enabled             *)
(* (gdt.cpp:14-41, idt.cpp:43-48, loadGDT.asm:4-15).                       *)
TablesFilledBeforeUse ==
  /\ cpu.gdtr = "kernel" => gdt = [code |-> "code", data |-> "data"]
  /\ cpu.idtr = "kernel" => \A vector \in Handled : gates[vector] = "handler"
  /\ cpu.interrupts => cpu.idtr = "kernel" /\ cpu.cs = "code" /\ cpu.ss = "data"

(* "CPU is halted" (panic.cpp:8): behind the hlt of a panic nothing runs   *)
(* any more, although it is not in a loop, as the gates disable interrupts.*)
PanicIsFinal == [][~(Panicking /\ Halted)]_processor

(* main gets to its hlt, or the interrupt that stopped it gets to one, if  *)
(* no interrupt goes through garbage; and then it stays.                   *)
EndsHalted == <>[]Halted \/ <>(status = "garbage")

===============================================================================
