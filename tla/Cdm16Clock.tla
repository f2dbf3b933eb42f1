------------------------------ MODULE Cdm16Clock ------------------------------
(***************************************************************************)
(* The emulator of the CdM-16, clock by clock: the microcode sequencer, the *)
(* exception unit, interrupts, the latches that stop the clock and the bus  *)
(* controller that makes two accesses of an unaligned one (src/cocoemu,     *)
(* Cdm16.java and its units, HarvardSystem.java for the memories).          *)
(*                                                                          *)
(* The clock and the lines of the devices are those of a processor in a     *)
(* Logisim circuit, whose component calls clockRising and drives the lines. *)
(* HarvardSystem does neither: its runs are those in which no line is ever  *)
(* raised, and in these the state of the clock makes no difference.         *)
(*                                                                          *)
(* Words and bytes are narrower than the real ones.  An instruction word of *)
(* the program memory is a record: its operation, its registers and num,    *)
(* the immediate of an instruction or the value of a data word.  Of the ALU *)
(* only the sum is modelled and of its flags only the carry.                *)
(***************************************************************************)
EXTENDS Microcode

CONSTANTS
    WordSize,       \* words are 0 .. WordSize - 1, addresses too
    ByteSize,       \* ByteSize ^ 2 = WordSize
    Registers,      \* the general purpose registers
    Programs,       \* a sequence of program memories: even addresses to words
    Interrupts,     \* the numbers that devices put beside IRQ
    Externals,      \* the numbers that devices put beside EXC
    MaxEvents       \* how often a device or the user interferes (bound)

ASSUME SizeAssumption ==
    /\ MaxEvents \in Nat /\ ByteSize \in Nat \ {0}
    /\ WordSize = ByteSize * ByteSize /\ WordSize % 16 = 0
    /\ \A i \in Interrupts \cup Externals : i \in Nat \ {0} /\ 4 * i + 2 < WordSize

\* The operations that a word of the program memory may stand for; the decoder takes a
\* conditional branch for one of three others.
Opcodes ==
    (Operations \ {"fetch", "br_abs", "br_rel", "br_nop"}) \cup {"bcs_abs", "bcs_rel"}

\* Every word of the program memory can be decoded; the vectors are in it, and a virtual
\* instruction names the first register.
ASSUME ProgramAssumption ==
    /\ 0 \in Registers /\ 18 < WordSize
    /\ \A k \in DOMAIN Programs :
           /\ Programs[k] \in [1 .. WordSize \div 2 ->
                                 [op: Opcodes, num: 0 .. WordSize - 1, rd: Registers, rs: Registers]]
           /\ \A a \in 1 .. WordSize \div 2 :
                  Programs[k][a].op \in {"int", "reset"} => 4 * Programs[k][a].num + 2 < WordSize

VARIABLES
    image,          \* which of the programs is in the program memory
    ram,            \* the bytes written to data memory; the others are 0
    cpu,            \* what the program sees: pc, sp, ps and the registers
    ctl,            \* what it does not see: the instruction register, the phase, latches
    status,         \* RUNNING, WAITING, HALTED or FAULT
    left,           \* interferences that may still come
    boundary        \* history: the program's view at the last end of an instruction

vars == <<image, ram, cpu, ctl, status, left, boundary>>

rom(a) == Programs[image][(a \div 2) + 1]
Word == 0 .. WordSize - 1
Byte == 0 .. ByteSize - 1
Plus(a, b) == (a + b) % WordSize
Minus(a, b) == (a + WordSize - b) % WordSize

At(r, a) == IF a \in DOMAIN r THEN r[a] ELSE 0
StoreByteWide(r, a, v) == [x \in DOMAIN r \cup {a} |-> IF x = a THEN v ELSE r[x]]
StoreByte(r, a, v) == [x \in DOMAIN r \cup {a} |-> IF x = a THEN v % ByteSize ELSE r[x]]
Load(r, a) == At(r, a) + ByteSize * At(r, Plus(a, 1))
Store(r, a, v) == StoreByte(StoreByte(r, a, v), Plus(a, 1), v \div ByteSize)

\* ExceptionNumbers; an external exception is kept as EXTERNAL_EXC until it is entered.
UNALIGNED_SP == 1
UNALIGNED_PC == 2
INVALID_INST == 3
DOUBLE_FAULT == 4
EXTERNAL_EXC == 7

\* Fields of ps (StatusRegister): the interrupt bit on top, the carry in bit 3.
InterruptBit == WordSize \div 2
InterruptStatus(ps) == ps >= InterruptBit
Carry(ps) == (ps \div 8) % 2 = 1
SetFlags(ps, flags) == ps - (ps % 16) + flags
SetInterrupt(ps, on) == (ps % InterruptBit) + (IF on THEN InterruptBit ELSE 0)

Int(n) == [op |-> "int", num |-> n, rd |-> 0, rs |-> 0]
ResetInstruction == [op |-> "reset", num |-> 0, rd |-> 0, rs |-> 0]

-------------------------------------------------------------------------------
(* The instruction decoder, the data path and the bus controller.             *)

\* A conditional branch takes its microcode from the flags; the two formats differ
\* in the word that a branch not taken has to skip.
Decode(inst, ps) ==
    CASE inst.op = "bcs_abs" -> IF Carry(ps) THEN "br_abs" ELSE "br_nop"
      [] inst.op = "bcs_rel" -> IF Carry(ps) THEN "br_rel" ELSE "br_nop"
      [] OTHER -> inst.op

Op == IF ctl.fetch THEN "fetch" ELSE Decode(ctl.ir, cpu.ps)
BrRelNop == Op = "br_nop" /\ ctl.ir.op = "bcs_rel"
IntInstruction == Op \in {"int", "reset"}

Imm(s) ==
    (CASE IntInstruction -> 4 * ctl.ir.num + 2 * (ctl.phase % 2)
       [] ~IntInstruction /\ "imm_shift" \in s -> 2 * ctl.ir.num
       [] OTHER -> ctl.ir.num) % WordSize

SpOut(s) == IF "sp_dec" \in s THEN Minus(cpu.sp, 2) ELSE cpu.sp

Bus0(s) ==
    CASE "r_asrt0" \in s -> cpu.regs[ctl.ir.rs]
      [] "sp_asrt0" \in s -> SpOut(s)
      [] "pc_asrt0" \in s -> cpu.pc
      [] OTHER -> 0

Bus1(s) ==
    CASE "r_asrt1" \in s -> cpu.regs[ctl.ir.rd]
      [] "imm_asrt1" \in s -> Imm(s)
      [] OTHER -> 0

CarryIn(s) ==
    IF Op = "alu3" THEN Carry(cpu.ps) ELSE ctl.incAddress /\ "mem" \in s

Sum(s) == Bus0(s) + Bus1(s) + (IF CarryIn(s) THEN 1 ELSE 0)

\* The first half of an unaligned access holds the clock.  a is the address.
ClkInhibit(s, a) == "word" \in s /\ a % 2 = 1
WordAccess(s, a) == "word" \in s /\ ~ctl.incAddress /\ a % 2 = 0

\* The system's memories answer on the data bus (HarvardSystem, BankedRom).
DataIn(s, a) ==
    CASE "data" \notin s -> IF a % 2 = 0 THEN rom(a).num ELSE 0
      [] "data" \in s /\ WordAccess(s, a) -> Load(ram, a)
      [] OTHER -> At(ram, a)

FromMemory(s, in) ==
    IF "word" \in s /\ ctl.incAddress THEN (ByteSize * in + ctl.dtr) % WordSize ELSE in

BusD(s, a) ==
    CASE "read" \in s -> FromMemory(s, DataIn(s, a))
      [] "r_asrtD" \in s -> cpu.regs[ctl.ir.rd]
      [] "imm_asrtD" \in s -> Imm(s)
      [] "sp_asrtD" \in s -> SpOut(s)
      [] "pc_asrtD" \in s -> IF Op = "jsr" THEN Plus(cpu.pc, 2) ELSE cpu.pc
      [] "ps_asrtD" \in s -> cpu.ps
      [] "alu_asrtD" \in s -> a
      [] OTHER -> 0

\* updateDatapath: the address, the data bus and the flags for the row s.
Datapath(s) ==
    LET sum == Sum(s)
        a == sum % WordSize
    IN  [address |-> a, data |-> BusD(s, a), flags |-> IF sum >= WordSize THEN 8 ELSE 0]

\* What the data memory holds after the rising edge (BankedRam); p is the data path.
RamWritten(s, p) ==
    LET d == IF "word" \in s /\ ctl.incAddress THEN p.data \div ByteSize ELSE p.data IN
    CASE ~({"mem", "data"} \subseteq s) \/ "read" \in s -> ram
      [] {"mem", "data"} \subseteq s /\ "read" \notin s /\ WordAccess(s, p.address) ->
           Store(ram, p.address, d)
      [] OTHER -> StoreByte(ram, p.address, d)

-------------------------------------------------------------------------------
(* The exception unit and the fetch unit.  in is what the devices put on the  *)
(* inputs for this clock.                                                     *)

\* irq and exc are the number beside the line, 0 when the line is low.
Inputs == [irq: Interrupts \cup {0}, exc: Externals \cup {0}, hold: BOOLEAN]

Irq(in) == in.irq # 0
External(in) == in.exc # 0

\* ExceptionChecker.compute: m is the row of the main microcode, d the data bus.
TrigSp(m, d) == "sp_latch" \in m /\ d % 2 = 1
TrigPc(m, d) == "pc_latch" \in m /\ d % 2 = 1
TrigInvalid(m) == m = {} /\ ~ctl.exc

\* ExceptionControlUnit.compute.
Ecu(in, m, d) ==
    LET internal == TrigSp(m, d) \/ TrigPc(m, d) \/ TrigInvalid(m)
        got == internal \/ External(in)
        triggered == got \/ ctl.exc
    IN  [got |-> got,
         double |-> \/ Op = "rti" \/ IntInstruction
                    \/ internal /\ External(in)
                    \/ got /\ ctl.exc,
         triggered |-> triggered,
         number |-> IF External(in) THEN EXTERNAL_EXC
                    ELSE IF TrigInvalid(m) THEN INVALID_INST
                    ELSE IF TrigPc(m, d) THEN UNALIGNED_PC ELSE UNALIGNED_SP,
         critical |-> got /\ ctl.ir = Int(DOUBLE_FAULT),
         latchInt |-> triggered \/ (InterruptStatus(cpu.ps) /\ Irq(in)),
         reset |-> triggered /\ ctl.fetch]

\* updateProcessorState: the main row decides on exceptions, which may replace it.
Signals(in) ==
    LET m == MainRow(Op, ctl.phase)
        p == Datapath(m)
        e == Ecu(in, m, p.data)
        s == IF status \in {"HALTED", "FAULT"} \/ ctl.startup \/ (ctl.fetch /\ e.latchInt)
             THEN {"cut"}
             ELSE IF e.triggered THEN ExcRow(Op, ctl.phase) ELSE m
    IN  [ecu |-> e, row |-> s, path |-> Datapath(s), inhibit |-> ClkInhibit(m, p.address)]

\* updateExceptionLatches: set and reset together leave the latch as it is.
ExcLatchKept(e) == ctl.exc \/ e.got
ExcLatch(e) == IF e.got = e.reset THEN ctl.exc ELSE e.got
IntVec(e) == IF e.got THEN (IF e.double THEN DOUBLE_FAULT ELSE e.number) ELSE ctl.intVec
ExtVecSampled(in) == in.exc
ExtVec(in) == IF External(in) THEN in.exc ELSE ctl.extVec

\* The number that a pending exception is entered with.
Vector(intVec, extVec) == IF intVec = EXTERNAL_EXC THEN extVec ELSE intVec

\* FetchUnit.fetchInstruction: the word at pc or, virtually, an int or the reset.
FetchInstruction(in, e) ==
    CASE ctl.startup -> ResetInstruction
      [] ~ctl.startup /\ ~e.latchInt -> rom(cpu.pc)
      [] ~ctl.startup /\ e.latchInt /\ ~e.triggered -> Int(in.irq)
      [] ~ctl.startup /\ e.triggered /\ ~External(in) -> Int(Vector(IntVec(e), ExtVec(in)))
      [] OTHER -> Int(IF e.double THEN DOUBLE_FAULT ELSE in.exc)

\* updateStatus: the latches set the status, l are the latches.
StatusOf(l) ==
    CASE l.fault -> "FAULT"
      [] ~l.fault /\ l.halt -> "HALTED"
      [] ~l.fault /\ ~l.halt /\ l.wait -> "WAITING"
      [] OTHER -> "RUNNING"

\* updateRegisters for the row s.
Registered(s, e, p) ==
    LET d == p.data
        ps1 == IF "ps_latch_flags" \in s THEN SetFlags(cpu.ps, p.flags) ELSE cpu.ps
        ps2 == IF "ps_latch_word" \in s THEN d ELSE ps1
        pc1 == IF "pc_latch" \in s THEN d ELSE cpu.pc
        sp1 == IF "sp_latch" \in s THEN d ELSE cpu.sp
        inhibit == IF e.triggered THEN ctl.virtual ELSE BrRelNop
    IN  [pc |-> CASE "pc_inc" \notin s \/ inhibit -> pc1
                  [] "pc_inc" \in s /\ ~inhibit /\ e.triggered -> Minus(pc1, 2)
                  [] OTHER -> Plus(pc1, 2),
         sp |-> CASE "sp_inc" \in s -> Plus(sp1, 2)
                  [] "sp_dec" \in s -> Minus(sp1, 2)
                  [] OTHER -> sp1,
         ps |-> IF Op \in {"ei", "di"} /\ ~e.triggered
                THEN SetInterrupt(ps2, Op = "ei") ELSE ps2,
         regs |-> IF "r_latch" \in s THEN [cpu.regs EXCEPT ![ctl.ir.rd] = d] ELSE cpu.regs]

-------------------------------------------------------------------------------
(* Clocks.                                                                    *)

LOCAL Cost(b) == IF b THEN 1 ELSE 0

\* Every clock with a line up counts.
Spend(in) ==
    LET cost == Cost(Irq(in)) + Cost(External(in)) + Cost(in.hold) IN
    left >= cost /\ left' = left - cost

\* HOLD is sampled while the clock is low.  Cdm16Component raises the clock
\* (clockRising), and clockFalling leaves it high wherever it returns early.
HoldLatch(in) == IF ctl.high THEN ctl.hold ELSE in.hold
Suspended(in) == ctl.halt \/ ctl.fault \/ ctl.wait \/ HoldLatch(in)

\* The program's view at the end of an instruction: its registers and memory, and
\* the exception it is about to enter.
Pending == IF ctl.exc THEN Vector(ctl.intVec, ctl.extVec) ELSE 0
View(c, r, pending, startup) == [cpu |-> c, ram |-> r, pending |-> pending, startup |-> startup]

\* clockFalling of a stopped processor; IRQ, and it alone, ends a wait.
SuspendedClock(in) ==
    LET wait == ctl.wait /\ ~Irq(in)
        c == Signals(in)
    IN  /\ Suspended(in) /\ Spend(in)
        /\ ctl' = [ctl EXCEPT !.wait = wait, !.hold = HoldLatch(in), !.high = TRUE]
        /\ status' = StatusOf(ctl')
        /\ ram' = RamWritten(c.row, c.path)
        /\ UNCHANGED <<image, cpu, boundary>>

\* The part of clockFalling that comes before the test of clk_inhibit.
Latched(in, e) ==
    [ctl EXCEPT !.intVec = IntVec(e), !.extVec = ExtVec(in), !.exc = ExcLatch(e),
                !.wait = @ \/ (Op = "wait" /\ ~e.triggered /\ ~Irq(in)),
                !.halt = @ \/ (Op = "halt" /\ ~e.triggered),
                !.fault = @ \/ e.critical,
                !.hold = HoldLatch(in)]

\* The first half of an unaligned access: its byte is put aside.
InhibitedClock(in) ==
    LET c == Signals(in)
        byte == DataIn(c.row, c.path.address) % ByteSize
    IN  /\ ~Suspended(in) /\ Spend(in) /\ c.inhibit
        /\ ctl' = [Latched(in, c.ecu) EXCEPT !.incAddress = TRUE, !.dtr = byte, !.high = TRUE]
        /\ status' = StatusOf(ctl')
        /\ ram' = RamWritten(c.row, c.path)
        /\ UNCHANGED <<image, cpu, boundary>>

\* The clock that ends a fetch: an instruction is in ir, fetched or virtual.
FetchClock(in) ==
    LET c == Signals(in)
    IN  /\ ctl.fetch /\ ~Suspended(in) /\ Spend(in) /\ ~c.inhibit
        /\ cpu' = Registered(c.row, c.ecu, c.path)
        /\ ctl' = [Latched(in, c.ecu) EXCEPT
                      !.ir = FetchInstruction(in, c.ecu),
                      !.virtual = c.ecu.latchInt \/ ctl.startup, !.startup = FALSE,
                      !.incAddress = FALSE, !.high = FALSE, !.phase = 0, !.fetch = FALSE]
        /\ status' = StatusOf(ctl')
        /\ UNCHANGED <<image, ram, boundary>>

\* A phase of an instruction; CUT ends it.
ExecuteClock(in) ==
    LET c == Signals(in)
        cut == "cut" \in c.row
    IN  /\ ~ctl.fetch /\ ~Suspended(in) /\ Spend(in) /\ ~c.inhibit
        /\ cpu' = Registered(c.row, c.ecu, c.path)
        /\ ram' = RamWritten(c.row, c.path)
        /\ ctl' = [Latched(in, c.ecu) EXCEPT
                      !.incAddress = FALSE, !.high = FALSE, !.fetch = cut,
                      !.phase = IF cut \/ @ = 7 THEN 0 ELSE @ + 1]
        /\ status' = IF ~cut /\ ctl.phase = 7 THEN "FAULT" ELSE StatusOf(ctl')
        /\ boundary' = IF cut /\ ~ctl'.fault THEN View(cpu', ram', Pending', FALSE) ELSE boundary
        /\ UNCHANGED image

\* reset, between two clocks.
Reset ==
    /\ left > 0 /\ left' = left - 1
    /\ cpu' = [cpu EXCEPT !.ps = 0]
    /\ ctl' = [ctl EXCEPT !.phase = 0, !.fetch = TRUE, !.startup = TRUE, !.virtual = FALSE,
                          !.exc = FALSE, !.incAddress = FALSE, !.hold = FALSE, !.wait = FALSE,
                          !.halt = FALSE, !.fault = FALSE]
    /\ status' = "RUNNING"
    /\ boundary' = View(cpu', ram, 0, TRUE)
    /\ UNCHANGED <<image, ram>>

Init ==
    /\ image \in DOMAIN Programs
    /\ ram = <<>>
    /\ cpu = [pc |-> 0, sp |-> 0, ps |-> 0, regs |-> [r \in Registers |-> 0]]
    /\ ctl = [ir |-> [op |-> "invalid", num |-> 0, rd |-> 0, rs |-> 0],
              fetch |-> TRUE, phase |-> 0, high |-> FALSE,
              hold |-> FALSE, wait |-> FALSE, halt |-> FALSE, fault |-> FALSE,
              exc |-> FALSE, startup |-> TRUE, virtual |-> FALSE,
              intVec |-> 0, extVec |-> 0, incAddress |-> FALSE, dtr |-> 0]
    /\ status = "RUNNING"
    /\ left = MaxEvents
    /\ boundary = View(cpu, ram, 0, TRUE)

Clock ==
    \E in \in Inputs :
        SuspendedClock(in) \/ InhibitedClock(in) \/ FetchClock(in) \/ ExecuteClock(in)

Next == Clock \/ Reset

Spec == Init /\ [][Next]_vars

-------------------------------------------------------------------------------
(* Properties                                                                 *)

TypeOK ==
    /\ image \in DOMAIN Programs
    /\ \A a \in DOMAIN ram : a \in Word /\ ram[a] \in Byte
    /\ cpu \in [pc: Word, sp: Word, ps: Word, regs: [Registers -> Word]]
    /\ ctl.phase \in 0 .. 7 /\ ctl.intVec \in 0 .. EXTERNAL_EXC
    /\ ctl.extVec \in Externals \cup {0} /\ ctl.dtr \in Byte
    /\ Op \in Operations
    /\ \A l \in {"fetch", "high", "hold", "wait", "halt", "fault", "exc", "startup",
                "virtual", "incAddress"} : ctl[l] \in BOOLEAN
    /\ status \in {"RUNNING", "WAITING", "HALTED", "FAULT"}

\* Whatever is entered in place of an instruction has the number of an exception of the
\* processor or one that a device gave, never that of the reset vector: the latched
\* vectors are those of the latched exception, whatever comes before the next fetch
\* (updateExceptionLatches, FetchUnit).
VirtualIsNumbered ==
    ctl.virtual /\ ctl.ir.op = "int" =>
        ctl.ir.num \in (UNALIGNED_SP .. DOUBLE_FAULT) \cup Externals \cup Interrupts

Machine == INSTANCE Cdm16Machine WITH machine <- boundary

\* The clocks make up whole instructions: each takes the program from what it saw to
\* what the instruction set says, interrupts come between two instructions, and an
\* instruction that an exception breaks off leaves no trace but the memory it was to
\* write, so that it can be executed again (the rows of cdm16_decoder_exc.def).
ImplementsMachine == Machine!Spec
================================================================================
