----------------------------- MODULE Cdm16Machine -----------------------------
(***************************************************************************)
(* The CdM-16 as its programmer sees it: whole instructions, interrupts     *)
(* between two of them, and exceptions that leave the instruction undone so *)
(* that it can be executed again once the handler returns.                  *)
(*                                                                          *)
(* Abstracted from the instruction set that docs/cdm16/cdm16-overview.md    *)
(* lists; Cdm16Clock implements it.                                         *)
(***************************************************************************)
EXTENDS Naturals

CONSTANTS WordSize, ByteSize, Registers, Programs, Interrupts, Externals

VARIABLES
    image,          \* which of the programs is in the program memory
    machine,        \* cpu: pc, sp, ps, regs; ram; pending: the exception to enter, or 0;
                    \* startup: the reset vector is to be taken
    status

vars == <<image, machine, status>>

rom(a) == Programs[image][(a \div 2) + 1]

Plus(a, b) == (a + b) % WordSize
Minus(a, b) == (a + WordSize - b) % WordSize

InterruptBit == WordSize \div 2
Carry(c) == (c.ps \div 8) % 2 = 1
WithCarry(c, b) == c.ps - (c.ps % 16) + (IF b THEN 8 ELSE 0)

\* Memory is 0 where nothing was written.
At(ram, a) == IF a \in DOMAIN ram THEN ram[a] ELSE 0
StoreByte(ram, a, v) ==
    [x \in DOMAIN ram \cup {a} |-> IF x = a THEN v % ByteSize ELSE ram[x]]
Load(ram, a) == At(ram, a) + ByteSize * At(ram, Plus(a, 1))
Store(ram, a, v) == StoreByte(StoreByte(ram, a, v), Plus(a, 1), v \div ByteSize)

Push(m, v) ==
    [m EXCEPT !.cpu.sp = Minus(@, 2), !.ram = Store(@, Minus(m.cpu.sp, 2), v)]
Top(m) == Load(m.ram, m.cpu.sp)
Pop(m) == [m EXCEPT !.cpu.sp = Plus(@, 2)]
Goto(m, a) == [m EXCEPT !.cpu.pc = a]
SetSp(m, a) == [m EXCEPT !.cpu.sp = a]
SetPs(m, v) == [m EXCEPT !.cpu.ps = v]
SetReg(m, r, v) == [m EXCEPT !.cpu.regs[r] = v]
AddTo(m, r, a, b) ==
    SetPs(SetReg(m, r, (a + b) % WordSize), WithCarry(m.cpu, a + b >= WordSize))

\* Through a vector: its first word is the new pc, its second the new ps.
Through(m, n) == SetPs(Goto(m, rom(4 * n).num), rom(4 * n + 2).num)
Enter(m, n) == Through(Push(Push(m, m.cpu.ps), m.cpu.pc), n)

-------------------------------------------------------------------------------
Inst == rom(machine.cpu.pc)

\* The effect of i on m, whose pc is already behind the first word of i; arg is
\* the word that follows.
Effect(i, m) ==
    LET arg == rom(m.cpu.pc).num
        skip == Goto(m, Plus(m.cpu.pc, 2))
        d == m.cpu.regs[i.rd]
        s == m.cpu.regs[i.rs]
        there == Plus(m.cpu.pc, 2 * i.num)
    IN
    CASE i.op = "jsr" -> Goto(Push(m, skip.cpu.pc), arg)
      [] i.op = "jsrr" -> Goto(Push(m, m.cpu.pc), d)
      [] i.op = "jsr_rel" -> Goto(Push(m, m.cpu.pc), there)
      [] i.op = "bcs_abs" -> IF Carry(m.cpu) THEN Goto(m, arg) ELSE skip
      [] i.op = "bcs_rel" -> IF Carry(m.cpu) THEN Goto(m, there) ELSE m
      [] i.op = "rti" -> LET back == Pop(Goto(m, Top(m))) IN Pop(SetPs(back, Top(back)))
      [] i.op = "int" -> Enter(m, i.num)
      [] i.op = "reset" -> Through(m, i.num)
      [] i.op = "pupc" -> Push(m, m.cpu.pc)
      [] i.op = "popc" -> Pop(Goto(m, Top(m)))
      [] i.op = "pusp" -> Push(m, Minus(m.cpu.sp, 2))
      [] i.op = "posp" -> SetSp(m, Top(m))
      [] i.op = "pups" -> Push(m, m.cpu.ps)
      [] i.op = "pops" -> Pop(SetPs(m, Top(m)))
      [] i.op = "push" -> Push(m, d)
      [] i.op = "pop" -> Pop(SetReg(m, i.rd, Top(m)))
      [] i.op = "push_p" -> Push(m, i.num)
      [] i.op = "ldi" -> SetReg(skip, i.rd, arg)
      [] i.op = "ldi_p" -> SetReg(m, i.rd, i.num)
      [] i.op = "ldsp" -> SetReg(m, i.rd, m.cpu.sp)
      [] i.op = "stsp" -> SetSp(m, d)
      [] i.op = "addsp" -> SetSp(m, Plus(m.cpu.sp, d))
      [] i.op = "addsp_p" -> SetSp(m, Plus(m.cpu.sp, 2 * i.num))
      [] i.op = "ldps" -> SetReg(m, i.rd, m.cpu.ps)
      [] i.op = "stps" -> SetPs(m, d)
      [] i.op = "ldpc" -> SetReg(m, i.rd, m.cpu.pc)
      [] i.op = "stpc" -> Goto(m, d)
      [] i.op = "move" -> AddTo(m, i.rd, s, 0)
      [] i.op = "add_p" -> AddTo(m, i.rd, s, i.num)
      [] i.op = "alu3" -> AddTo(m, i.rd, s, d + (IF Carry(m.cpu) THEN 1 ELSE 0))
      [] i.op = "ldw" -> SetReg(m, i.rd, Load(m.ram, s))
      [] i.op = "ldb" -> SetReg(m, i.rd, At(m.ram, s))
      [] i.op = "stw" -> [m EXCEPT !.ram = Store(@, s, d)]
      [] i.op = "stb" -> [m EXCEPT !.ram = StoreByte(@, s, d)]
      [] i.op = "ei" -> SetPs(m, (m.cpu.ps % InterruptBit) + InterruptBit)
      [] i.op = "di" -> SetPs(m, m.cpu.ps % InterruptBit)
      [] OTHER -> m

After(m) == Effect(Inst, Goto(m, Plus(m.cpu.pc, 2)))

\* The exception that an instruction raises by itself if m is what it would do: 3 for
\* an invalid one, 2 if it would leave pc odd, 1 if it would leave sp odd; else 0.
Raised(m) ==
    CASE Inst.op = "invalid" -> 3
      [] Inst.op # "invalid" /\ m.cpu.pc % 2 = 1 -> 2
      [] Inst.op # "invalid" /\ m.cpu.pc % 2 = 0 /\ m.cpu.sp % 2 = 1 -> 1
      [] OTHER -> 0

-------------------------------------------------------------------------------
Running == status = "RUNNING" /\ ~machine.startup
Undisturbed == Running /\ machine.pending = 0

\* An instruction is executed as a whole.
Execute ==
    /\ Undisturbed /\ machine'.pending = 0
    /\ machine' = After(machine) /\ Raised(machine') = 0
    /\ status' \in CASE Inst.op = "halt" -> {"HALTED"}
                     [] Inst.op = "wait" -> {"WAITING", "RUNNING"}
                     [] OTHER -> {"RUNNING"}
    /\ UNCHANGED image

\* Of what was to be written, some may be.
Written(old, new) ==
    \A a \in DOMAIN machine'.ram \cup DOMAIN new :
        At(machine'.ram, a) \in {At(old, a), At(new, a)}

\* It is left as if it had not begun, but for the memory it was to write and the flags
\* of an addition.
Undone(m, after) ==
    /\ machine'.startup = FALSE
    /\ machine'.cpu = [m.cpu EXCEPT !.ps = IF Inst.op = "add_p" THEN machine'.cpu.ps ELSE @]
    /\ machine'.cpu.ps \div 16 = m.cpu.ps \div 16
    /\ Written(m.ram, after.ram)
    /\ UNCHANGED <<image, status>>

\* Those without a way back: only sp and ps are what they were.
Unrecoverable == {"int", "rti", "reset"}

\* halt, wait, ei and di have no row that takes pc back: such an instruction is
\* lost to the exception.
Lost == {"halt", "wait", "ei", "di"}

\* The exception is the instruction's own, an external one if it has none, or the double
\* fault if there were two.
Raise ==
    LET after == After(machine)
        own == Raised(after)
    IN  /\ Undisturbed /\ Inst.op \notin Unrecoverable \cup Lost
        /\ machine'.pending \in {4} \cup (IF own = 0 THEN Externals ELSE {own})
        /\ Undone(machine, after)

Lose ==
    /\ Undisturbed /\ Inst.op \in Lost
    /\ machine'.pending \in Externals
    /\ Undone(Goto(machine, Plus(machine.cpu.pc, 2)), machine)

DoubleFault(m, entered) ==
    /\ machine'.pending = 4 /\ machine'.startup = FALSE
    /\ machine'.cpu = [m.cpu EXCEPT !.pc = machine'.cpu.pc]
    /\ Written(m.ram, entered.ram)
    /\ UNCHANGED <<image, status>>

RaiseUnrecoverable ==
    /\ Undisturbed /\ Inst.op \in Unrecoverable
    /\ DoubleFault(machine, After(machine))

\* A handler is entered: that of a pending exception, of an external one that came
\* just then, or of an interrupt if they are enabled.  A second exception makes it
\* the double fault.
Handles(n) ==
    /\ Running
    /\ IF machine.pending = 0
       THEN n \in Externals \/ (n \in Interrupts /\ machine.cpu.ps >= InterruptBit)
       ELSE n \in {machine.pending, 4}

EnterHandler(n) ==
    /\ Handles(n)
    /\ machine' = [Enter(machine, n) EXCEPT !.pending = 0]
    /\ machine'.cpu.pc % 2 = 0
    /\ UNCHANGED <<image, status>>

FailToEnter(n) == Handles(n) /\ DoubleFault(machine, Enter(machine, n))

\* An exception on the way to the handler of the double fault, or as it begins.  reset
\* leaves the instruction register alone, so it may be as late as the clock after it.
Fault ==
    /\ status = "RUNNING" /\ status' = "FAULT"
    /\ UNCHANGED <<image, machine>>

Startup ==
    /\ machine.startup
    /\ machine' = [Through(machine, 0) EXCEPT !.startup = machine'.startup]
    /\ machine'.cpu.pc % 2 = 0 /\ machine'.startup = FALSE
    /\ UNCHANGED <<image, status>>

FailToStart == machine.startup /\ DoubleFault(machine, machine)

Wake == status = "WAITING" /\ status' = "RUNNING" /\ UNCHANGED <<image, machine>>

\* A reset from outside, wherever the processor is.
Reset ==
    /\ machine'.startup /\ machine'.pending = 0 /\ machine'.cpu.ps = 0
    /\ status' = "RUNNING"
    /\ UNCHANGED image

Init ==
    /\ image \in DOMAIN Programs
    /\ machine.startup /\ machine.pending = 0 /\ machine.cpu.ps = 0
    /\ status = "RUNNING"

Next ==
    /\ vars' # vars
    /\ \/ Execute \/ Raise \/ Lose \/ RaiseUnrecoverable \/ Fault
       \/ Startup \/ FailToStart \/ Wake \/ Reset
       \/ \E n \in {machine.pending, 4} \cup Externals \cup Interrupts :
              EnterHandler(n) \/ FailToEnter(n)

Spec == Init /\ [][Next]_vars
================================================================================
