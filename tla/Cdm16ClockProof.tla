---------------------------- MODULE Cdm16ClockProof ----------------------------
(***************************************************************************)
(* The state of the emulator and what it enters in place of an instruction, *)
(* for words of every width, every program and every numbers of devices;    *)
(* and that the processor implements the machine of its programmer: every   *)
(* clock of Cdm16Clock is a step of Cdm16Machine or leaves it alone         *)
(* (MachineImplemented).                                                    *)
(*                                                                          *)
(* Sim relates the registers, the memory and the control unit amid an       *)
(* instruction to the last boundary, the state between two instructions.    *)
(* The lemmas give what each row of microcode does, what the phases of each *)
(* kind of instruction come to, what an exception leaves of one, and then   *)
(* take the clock's steps one by one.                                       *)
(***************************************************************************)
EXTENDS Cdm16Clock, TLAPS

-------------------------------------------------------------------------------
(* Types.                                                                     *)

Instructions == [op: Opcodes, num: Nat, rd: Registers, rs: Registers]

CpuTypes == [pc: Word, sp: Word, ps: Word, regs: [Registers -> Word]]

CtlTypes ==
    [ir: Instructions, fetch: BOOLEAN, phase: 0 .. 7, high: BOOLEAN, hold: BOOLEAN,
     wait: BOOLEAN, halt: BOOLEAN, fault: BOOLEAN, exc: BOOLEAN, startup: BOOLEAN,
     virtual: BOOLEAN, intVec: 0 .. EXTERNAL_EXC, extVec: Externals \cup {0},
     incAddress: BOOLEAN, dtr: Byte]

\* What was written to a memory r are bytes.
Bytes(r) == \A a \in DOMAIN r : a \in Word /\ r[a] \in Byte

\* TypeOK says nothing of the registers that an instruction names, which decide what is
\* on the buses.
TypeInv ==
    /\ image \in DOMAIN Programs
    /\ Bytes(ram)
    /\ cpu \in CpuTypes
    /\ ctl \in CtlTypes
    /\ status \in {"RUNNING", "WAITING", "HALTED", "FAULT"}

\* Sizes as naturals; a word is two bytes.
LEMMA Sizes ==
    /\ ByteSize \in Nat \ {0} /\ WordSize \in Nat \ {0} /\ WordSize % 16 = 0
    /\ WordSize = ByteSize * ByteSize /\ WordSize >= 16
    /\ Word \subseteq Nat /\ Byte \subseteq Nat /\ Byte \subseteq Word
    /\ 0 \in Word /\ 0 \in Byte
<1>1. ByteSize \in Nat \ {0} /\ WordSize % 16 = 0 /\ WordSize = ByteSize * ByteSize
  BY SizeAssumption
<1>2. WordSize \in Nat \ {0} /\ WordSize >= ByteSize
  BY <1>1
<1>3. WordSize >= 16
  BY <1>1, <1>2
<1> QED
  BY <1>1, <1>2, <1>3 DEF Word, Byte

\* A sum is cut to the width of a word.
LEMMA ModWord ==
    ASSUME NEW n \in Nat
    PROVE  n % WordSize \in Word
BY Sizes DEF Word

\* The bytes of a number.
LEMMA ModByte ==
    ASSUME NEW n \in Nat
    PROVE  n % ByteSize \in Byte /\ n \div ByteSize \in Nat
BY Sizes DEF Byte

\* The adders of pc, sp and the stack address.
LEMMA PlusMinus ==
    ASSUME NEW a \in Word, NEW b \in 0 .. 16
    PROVE  Plus(a, b) \in Word /\ Minus(a, b) \in Word
<1>1. a + b \in Nat /\ a + WordSize - b \in Nat
  BY Sizes
<1> QED
  BY <1>1, ModWord DEF Plus, Minus

\* The flags are the lower four bits of ps, the interrupt bit is the highest.
LEMMA FlagsOfWord ==
    ASSUME NEW ps \in Word, NEW f \in {0, 8}, NEW on \in BOOLEAN
    PROVE  SetFlags(ps, f) \in Word /\ SetInterrupt(ps, on) \in Word
<1>1. ps \in Nat /\ WordSize \in Nat /\ ps < WordSize /\ WordSize % 16 = 0 /\ WordSize >= 16
  BY Sizes DEF Word
<1>2. SetFlags(ps, f) \in Word
  <2>1. ps - (ps % 16) + f \in Nat /\ ps - (ps % 16) + f < WordSize
    BY <1>1
  <2> QED
    BY <2>1, <1>1 DEF SetFlags, Word
<1>3. SetInterrupt(ps, on) \in Word
  <2> DEFINE half == WordSize \div 2
  <2>1. half \in Nat \ {0} /\ half + half = WordSize
    BY <1>1
  <2>2. ps % half \in 0 .. half - 1
    BY <1>1, <2>1
  <2> HIDE DEF half
  <2>3. (ps % half) + (IF on THEN half ELSE 0) \in 0 .. WordSize - 1
    BY <2>1, <2>2, <1>1
  <2> QED
    BY <2>3 DEF SetInterrupt, InterruptBit, Word, half
<1> QED
  BY <1>2, <1>3

\* The program memory holds instructions at every address.
LEMMA RomHolds ==
    ASSUME TypeInv, NEW a \in Word
    PROVE  rom(a) \in Instructions /\ rom(a).num \in Word
<1>1. (a \div 2) + 1 \in 1 .. WordSize \div 2
  BY Sizes DEF Word
<1>2. Programs[image] \in [1 .. WordSize \div 2 ->
                           [op: Opcodes, num: 0 .. WordSize - 1, rd: Registers, rs: Registers]]
  BY ProgramAssumption DEF TypeInv
<1>3. rom(a) \in [op: Opcodes, num: 0 .. WordSize - 1, rd: Registers, rs: Registers]
  BY <1>1, <1>2 DEF rom
<1> QED
  BY <1>3, Sizes DEF Instructions, Word

\* What is read from memory is a byte or a word, what is written are bytes.
LEMMA Reading ==
    ASSUME NEW r, Bytes(r), NEW a \in Word
    PROVE  At(r, a) \in Byte /\ Load(r, a) \in Word
<1>1. \A b : At(r, b) \in Byte
  BY Sizes DEF At, Bytes
<1>2. ASSUME NEW x \in Byte, NEW y \in Byte PROVE x + ByteSize * y \in Word
  <2>1. x \in Nat /\ y \in Nat /\ x <= ByteSize - 1 /\ y <= ByteSize - 1 /\ ByteSize \in Nat
    BY Sizes DEF Byte
  <2>2. ByteSize * y \in Nat /\ ByteSize * y <= ByteSize * (ByteSize - 1)
    BY <2>1
  <2>3. ByteSize * (ByteSize - 1) = ByteSize * ByteSize - ByteSize
    BY <2>1
  <2> QED
    BY <2>1, <2>2, <2>3, Sizes DEF Word
<1> QED
  BY <1>1, <1>2 DEF Load

\* Writing a byte or a word leaves bytes.
LEMMA Writing ==
    ASSUME NEW r, Bytes(r), NEW a \in Word, NEW v \in Nat
    PROVE  Bytes(StoreByte(r, a, v)) /\ Bytes(Store(r, a, v))
<1>1. ASSUME NEW q, Bytes(q), NEW b \in Word, NEW w \in Nat PROVE Bytes(StoreByte(q, b, w))
  <2>1. w % ByteSize \in Byte
    BY ModByte
  <2> QED
    BY <1>1, <2>1 DEF Bytes, StoreByte
<1>2. Plus(a, 1) \in Word /\ v \div ByteSize \in Nat
  BY PlusMinus, ModByte
<1> QED
  BY <1>1, <1>2 DEF Store

-------------------------------------------------------------------------------
(* Types of what a clock computes; s is a row of signals.                     *)

\* What the processor puts on its buses.
LEMMA Buses ==
    ASSUME TypeInv, NEW s
    PROVE  /\ SpOut(s) \in Word /\ Imm(s) \in Word
           /\ Bus0(s) \in Word /\ Bus1(s) \in Word
<1>1. /\ cpu.pc \in Word /\ cpu.sp \in Word /\ ctl.ir.num \in Nat /\ ctl.phase \in 0 .. 7
      /\ cpu.regs[ctl.ir.rs] \in Word /\ cpu.regs[ctl.ir.rd] \in Word
  BY DEF TypeInv, CpuTypes, CtlTypes, Instructions
<1>2. SpOut(s) \in Word
  BY <1>1, PlusMinus DEF SpOut
<1>3. Imm(s) \in Word
  <2>1. 4 * ctl.ir.num + 2 * (ctl.phase % 2) \in Nat /\ 2 * ctl.ir.num \in Nat
    BY <1>1
  <2> DEFINE n == CASE IntInstruction -> 4 * ctl.ir.num + 2 * (ctl.phase % 2)
                    [] ~IntInstruction /\ "imm_shift" \in s -> 2 * ctl.ir.num
                    [] OTHER -> ctl.ir.num
  <2>2. n \in Nat
    BY <1>1, <2>1
  <2> HIDE DEF n
  <2>3. n % WordSize \in Word
    BY <2>2, ModWord
  <2> QED
    BY <2>3 DEF Imm, n
<1>4. Bus0(s) \in Word
  BY <1>1, <1>2, Sizes DEF Bus0
<1>5. Bus1(s) \in Word
  BY <1>1, <1>3, Sizes DEF Bus1
<1> QED
  BY <1>2, <1>3, <1>4, <1>5

\* The sum of the buses, the address of an access.
LEMMA SumTypes ==
    ASSUME TypeInv, NEW s
    PROVE  Sum(s) \in Nat /\ Sum(s) % WordSize \in Word
<1>1. Bus0(s) \in Nat /\ Bus1(s) \in Nat
  BY Buses, Sizes
<1>2. Sum(s) \in Nat
  BY <1>1 DEF Sum
<1> QED
  BY <1>2, ModWord

\* What the memories answer.
LEMMA DataInTypes ==
    ASSUME TypeInv, NEW s, NEW a \in Word
    PROVE  DataIn(s, a) \in Word
<1>1. rom(a).num \in Word /\ At(ram, a) \in Byte /\ Load(ram, a) \in Word
  BY RomHolds, Reading DEF TypeInv
<1>2. At(ram, a) \in Word /\ 0 \in Word
  BY <1>1, Sizes
<1> QED
  BY <1>1, <1>2 DEF DataIn

\* What is on the data bus.
LEMMA BusDTypes ==
    ASSUME TypeInv, NEW s, NEW a \in Word
    PROVE  BusD(s, a) \in Word
<1>1. /\ cpu.pc \in Word /\ cpu.ps \in Word /\ cpu.regs[ctl.ir.rd] \in Word /\ 0 \in Word
      /\ ctl.dtr \in Nat /\ ByteSize \in Nat
  BY Sizes DEF TypeInv, CpuTypes, CtlTypes, Instructions
<1>2. SpOut(s) \in Word /\ Imm(s) \in Word /\ Plus(cpu.pc, 2) \in Word
  BY <1>1, Buses, PlusMinus
<1>3. FromMemory(s, DataIn(s, a)) \in Word
  <2>1. DataIn(s, a) \in Word /\ DataIn(s, a) \in Nat
    BY DataInTypes, Sizes
  <2>2. ByteSize * DataIn(s, a) + ctl.dtr \in Nat
    BY <1>1, <2>1
  <2> QED
    BY <2>1, <2>2, ModWord DEF FromMemory
<1> QED
  BY <1>1, <1>2, <1>3 DEF BusD

\* The data path under a row.
LEMMA DatapathTypes ==
    ASSUME TypeInv, NEW s
    PROVE  /\ Datapath(s).address \in Word /\ Datapath(s).data \in Word
           /\ Datapath(s).flags \in {0, 8}
<1>1. Sum(s) % WordSize \in Word
  BY SumTypes
<1>2. BusD(s, Sum(s) % WordSize) \in Word
  BY <1>1, BusDTypes
<1> QED
  BY <1>1, <1>2 DEF Datapath

\* The memory after the rising edge.
LEMMA RamTypes ==
    ASSUME TypeInv, NEW s, NEW p, p.address \in Word, p.data \in Word
    PROVE  Bytes(RamWritten(s, p))
<1> DEFINE d == IF "word" \in s /\ ctl.incAddress THEN p.data \div ByteSize ELSE p.data
<1>1. p.data \in Nat
  BY Sizes
<1>2. d \in Nat
  BY <1>1, ModByte
<1> HIDE DEF d
<1>3. Bytes(ram) /\ Bytes(Store(ram, p.address, d)) /\ Bytes(StoreByte(ram, p.address, d))
  BY <1>2, Writing DEF TypeInv
<1> QED
  BY <1>3 DEF RamWritten, d

\* The registers after a clock.
LEMMA RegisteredTypes ==
    ASSUME TypeInv, NEW s, NEW e, NEW p, p.data \in Word, p.flags \in {0, 8}
    PROVE  Registered(s, e, p) \in CpuTypes
<1> DEFINE d == p.data
           ps1 == IF "ps_latch_flags" \in s THEN SetFlags(cpu.ps, p.flags) ELSE cpu.ps
           ps2 == IF "ps_latch_word" \in s THEN d ELSE ps1
           pc1 == IF "pc_latch" \in s THEN d ELSE cpu.pc
           sp1 == IF "sp_latch" \in s THEN d ELSE cpu.sp
           inhibit == IF e.triggered THEN ctl.virtual ELSE BrRelNop
           pc2 == CASE "pc_inc" \notin s \/ inhibit -> pc1
                    [] "pc_inc" \in s /\ ~inhibit /\ e.triggered -> Minus(pc1, 2)
                    [] OTHER -> Plus(pc1, 2)
           sp2 == CASE "sp_inc" \in s -> Plus(sp1, 2)
                    [] "sp_dec" \in s -> Minus(sp1, 2)
                    [] OTHER -> sp1
           ps3 == IF Op \in {"ei", "di"} /\ ~e.triggered
                  THEN SetInterrupt(ps2, Op = "ei") ELSE ps2
           regs2 == IF "r_latch" \in s THEN [cpu.regs EXCEPT ![ctl.ir.rd] = d] ELSE cpu.regs
<1>1. /\ cpu.pc \in Word /\ cpu.sp \in Word /\ cpu.ps \in Word /\ d \in Word
      /\ cpu.regs \in [Registers -> Word]
  BY DEF TypeInv, CpuTypes
<1>2. pc1 \in Word /\ sp1 \in Word
  BY <1>1
<1>3. SetFlags(cpu.ps, p.flags) \in Word
  BY <1>1, FlagsOfWord
<1>4. ps1 \in Word
  BY <1>1, <1>3
<1>5. ps2 \in Word
  BY <1>1, <1>4
<1> HIDE DEF pc1, sp1, ps2, inhibit
<1>6. /\ Plus(pc1, 2) \in Word /\ Minus(pc1, 2) \in Word
      /\ Plus(sp1, 2) \in Word /\ Minus(sp1, 2) \in Word
  BY <1>2, PlusMinus
<1>7. pc2 \in Word
  BY <1>2, <1>6
<1>8. sp2 \in Word
  BY <1>2, <1>6
<1>9. ps3 \in Word
  BY <1>5, FlagsOfWord
<1>10. regs2 \in [Registers -> Word]
  BY <1>1
<1>11. Registered(s, e, p) = [pc |-> pc2, sp |-> sp2, ps |-> ps3, regs |-> regs2]
  BY DEF Registered, pc1, sp1, ps2, inhibit
<1> HIDE DEF pc2, sp2, ps3, regs2
<1> QED
  BY <1>7, <1>8, <1>9, <1>10, <1>11 DEF CpuTypes

\* What the exception unit and the fetch unit make of inputs and a row.
LEMMA EcuTypes ==
    ASSUME TypeInv, NEW in \in Inputs, NEW m, NEW d
    PROVE  LET e == Ecu(in, m, d) IN
           /\ e.got \in BOOLEAN /\ e.critical \in BOOLEAN /\ e.latchInt \in BOOLEAN
           /\ ExcLatch(e) \in BOOLEAN /\ IntVec(e) \in 0 .. EXTERNAL_EXC
           /\ ExtVec(in) \in Externals \cup {0}
<1> DEFINE e == Ecu(in, m, d)
<1>1. /\ ctl.exc \in BOOLEAN /\ ctl.intVec \in 0 .. EXTERNAL_EXC
      /\ ctl.extVec \in Externals \cup {0} /\ in.exc \in Externals \cup {0}
  BY DEF TypeInv, CtlTypes, Inputs
<1>2. e.got \in BOOLEAN /\ e.critical \in BOOLEAN /\ e.latchInt \in BOOLEAN
  BY DEF Ecu
<1>3. e.number \in {EXTERNAL_EXC, INVALID_INST, UNALIGNED_PC, UNALIGNED_SP}
  BY Zenon DEF Ecu
<1>4. {EXTERNAL_EXC, INVALID_INST, UNALIGNED_PC, UNALIGNED_SP, DOUBLE_FAULT} \subseteq 0 .. EXTERNAL_EXC
  BY DEF EXTERNAL_EXC, INVALID_INST, UNALIGNED_PC, UNALIGNED_SP, DOUBLE_FAULT
<1> HIDE DEF e
<1>5. ExcLatch(e) \in BOOLEAN
  BY <1>1, <1>2 DEF ExcLatch
<1>6. IntVec(e) \in 0 .. EXTERNAL_EXC
  BY <1>1, <1>3, <1>4 DEF IntVec
<1>7. ExtVec(in) \in Externals \cup {0}
  BY <1>1 DEF ExtVec
<1> QED
  BY <1>2, <1>5, <1>6, <1>7 DEF e

\* The lines of the devices.
LEMMA DeviceTypes ==
    ASSUME NEW in \in Inputs
    PROVE  in.irq \in Nat /\ in.exc \in Nat /\ in.hold \in BOOLEAN
BY SizeAssumption DEF Inputs

\* A fetch puts an instruction into ir, whether read or virtual.
LEMMA FetchTypes ==
    ASSUME TypeInv, NEW in \in Inputs, NEW m, NEW d
    PROVE  FetchInstruction(in, Ecu(in, m, d)) \in Instructions
<1> DEFINE e == Ecu(in, m, d)
<1>1. {"int", "reset"} \subseteq Opcodes
  BY DEF Opcodes, Operations, Main
<1>2. ASSUME NEW n \in Nat PROVE Int(n) \in Instructions
  BY <1>1, ProgramAssumption DEF Int, Instructions
<1>3. ResetInstruction \in Instructions
  BY <1>1, ProgramAssumption DEF ResetInstruction, Instructions
<1>4. rom(cpu.pc) \in Instructions
  BY RomHolds DEF TypeInv, CpuTypes
<1>5. Vector(IntVec(e), ExtVec(in)) \in Nat
  <2>1. IntVec(e) \in Nat /\ ExtVec(in) \in Nat
    BY EcuTypes, SizeAssumption DEF EXTERNAL_EXC
  <2> QED
    BY <2>1 DEF Vector
<1>6. in.irq \in Nat /\ in.exc \in Nat /\ DOUBLE_FAULT \in Nat
  BY DeviceTypes DEF DOUBLE_FAULT
<1> DEFINE r1 == Int(in.irq)
           r2 == Int(Vector(IntVec(e), ExtVec(in)))
           r3 == Int(IF e.double THEN DOUBLE_FAULT ELSE in.exc)
<1>7. r1 \in Instructions /\ r2 \in Instructions /\ r3 \in Instructions
  BY <1>2, <1>5, <1>6
<1> HIDE DEF e
<1>8. FetchInstruction(in, e) \in {ResetInstruction, rom(cpu.pc), r1, r2, r3}
  BY Zenon DEF FetchInstruction
<1> QED
  BY <1>3, <1>4, <1>7, <1>8 DEF e

\* The latches of a clock that is not suspended.
LEMMA LatchedTypes ==
    ASSUME TypeInv, NEW in \in Inputs, NEW m, NEW d
    PROVE  Latched(in, Ecu(in, m, d)) \in CtlTypes
<1> DEFINE e == Ecu(in, m, d)
           wait == ctl.wait \/ (Op = "wait" /\ ~e.triggered /\ ~Irq(in))
           halt == ctl.halt \/ (Op = "halt" /\ ~e.triggered)
           fault == ctl.fault \/ e.critical
<1>1. wait \in BOOLEAN /\ halt \in BOOLEAN /\ fault \in BOOLEAN
  OBVIOUS
<1>2. HoldLatch(in) \in BOOLEAN
  BY DeviceTypes DEF HoldLatch, TypeInv, CtlTypes
<1>3. /\ ExcLatch(e) \in BOOLEAN /\ IntVec(e) \in 0 .. EXTERNAL_EXC
      /\ ExtVec(in) \in Externals \cup {0}
  BY EcuTypes
<1>4. Latched(in, e) = [ctl EXCEPT !.intVec = IntVec(e), !.extVec = ExtVec(in),
                                   !.exc = ExcLatch(e), !.wait = wait, !.halt = halt,
                                   !.fault = fault, !.hold = HoldLatch(in)]
  BY DEF Latched
<1>5. ctl \in CtlTypes
  BY DEF TypeInv
<1> HIDE DEF e, wait, halt, fault
<1>6. [ctl EXCEPT !.intVec = IntVec(e), !.extVec = ExtVec(in),
                  !.exc = ExcLatch(e), !.wait = wait, !.halt = halt,
                  !.fault = fault, !.hold = HoldLatch(in)] \in CtlTypes
  BY <1>1, <1>2, <1>3, <1>5 DEF CtlTypes
<1> QED
  BY <1>4, <1>6 DEF e

\* The status is one of four.
LEMMA StatusTypes ==
    ASSUME NEW l
    PROVE  StatusOf(l) \in {"RUNNING", "WAITING", "HALTED", "FAULT"}
BY Zenon DEF StatusOf

\* The rows of a clock: what is read and written under them.
LEMMA SignalTypes ==
    ASSUME TypeInv, NEW in \in Inputs
    PROVE  LET c == Signals(in) IN
           /\ \E m, d : c.ecu = Ecu(in, m, d)
           /\ c.path.address \in Word /\ c.path.data \in Word /\ c.path.flags \in {0, 8}
           /\ Bytes(RamWritten(c.row, c.path))
           /\ Registered(c.row, c.ecu, c.path) \in CpuTypes
           /\ DataIn(c.row, c.path.address) % ByteSize \in Byte
<1> DEFINE c == Signals(in)
<1>1. /\ c.ecu = Ecu(in, MainRow(Op, ctl.phase), Datapath(MainRow(Op, ctl.phase)).data)
      /\ c.path = Datapath(c.row)
  BY DEF Signals
<1> HIDE DEF c
<1>2. c.path.address \in Word /\ c.path.data \in Word /\ c.path.flags \in {0, 8}
  BY <1>1, DatapathTypes
<1>3. Bytes(RamWritten(c.row, c.path)) /\ Registered(c.row, c.ecu, c.path) \in CpuTypes
  BY <1>2, RamTypes, RegisteredTypes
<1>4. DataIn(c.row, c.path.address) % ByteSize \in Byte
  <2>1. DataIn(c.row, c.path.address) \in Nat
    BY <1>2, DataInTypes, Sizes
  <2> QED
    BY <2>1, ModByte
<1> QED
  BY <1>1, <1>2, <1>3, <1>4 DEF c

-------------------------------------------------------------------------------
\* The state the program starts in.
LEMMA InitTyped == Init => TypeInv
<1> SUFFICES ASSUME Init PROVE TypeInv
  OBVIOUS
<1>1. "invalid" \in Opcodes
  BY DEF Opcodes, Operations, Main
<1>2. ctl \in CtlTypes
  BY <1>1, ProgramAssumption, Sizes DEF Init, CtlTypes, Instructions, EXTERNAL_EXC
<1>3. cpu \in CpuTypes
  BY Sizes DEF Init, CpuTypes
<1>4. Bytes(ram)
  BY DEF Init, Bytes
<1> QED
  BY <1>2, <1>3, <1>4 DEF Init, TypeInv

\* A clock or a reset keeps the types.
LEMMA NextTyped == TypeInv /\ [Next]_vars => TypeInv'
<1> SUFFICES ASSUME TypeInv, [Next]_vars PROVE TypeInv'
  OBVIOUS
<1>0. ctl \in CtlTypes /\ cpu \in CpuTypes /\ Bytes(ram) /\ image \in DOMAIN Programs
  BY DEF TypeInv
<1>1. ASSUME NEW in \in Inputs, SuspendedClock(in) PROVE TypeInv'
  <2> DEFINE wait == ctl.wait /\ ~Irq(in)
  <2>1. wait \in BOOLEAN /\ HoldLatch(in) \in BOOLEAN
    BY <1>0, DeviceTypes DEF HoldLatch, CtlTypes
  <2>a. ctl' = [ctl EXCEPT !.wait = wait, !.hold = HoldLatch(in), !.high = TRUE]
    BY <1>1 DEF SuspendedClock
  <2> HIDE DEF wait
  <2>2. ctl' \in CtlTypes
    BY <1>0, <2>1, <2>a DEF CtlTypes
  <2>3. status' \in {"RUNNING", "WAITING", "HALTED", "FAULT"}
    BY <1>1, StatusTypes DEF SuspendedClock
  <2>4. Bytes(ram')
    BY <1>1, SignalTypes DEF SuspendedClock
  <2> QED
    BY <1>0, <1>1, <2>2, <2>3, <2>4 DEF SuspendedClock, TypeInv, Bytes
<1>2. ASSUME NEW in \in Inputs, InhibitedClock(in) PROVE TypeInv'
  <2> DEFINE c == Signals(in)
             byte == DataIn(c.row, c.path.address) % ByteSize
  <2>1. PICK m, d : c.ecu = Ecu(in, m, d)
    BY SignalTypes
  <2>2. Latched(in, c.ecu) \in CtlTypes
    BY <2>1, LatchedTypes
  <2>3. ctl' = [Latched(in, c.ecu) EXCEPT !.incAddress = TRUE, !.dtr = byte, !.high = TRUE]
    BY <1>2 DEF InhibitedClock
  <2>4. byte \in Byte
    BY SignalTypes
  <2> HIDE DEF c, byte
  <2>5. ctl' \in CtlTypes
    BY <2>2, <2>3, <2>4 DEF CtlTypes
  <2>6. status' \in {"RUNNING", "WAITING", "HALTED", "FAULT"}
    BY <1>2, StatusTypes DEF InhibitedClock
  <2>7. Bytes(ram')
    BY <1>2, SignalTypes DEF InhibitedClock
  <2> QED
    BY <1>0, <1>2, <2>5, <2>6, <2>7 DEF InhibitedClock, TypeInv, Bytes
<1>3. ASSUME NEW in \in Inputs, FetchClock(in) PROVE TypeInv'
  <2> DEFINE c == Signals(in)
             ir == FetchInstruction(in, c.ecu)
             virtual == c.ecu.latchInt \/ ctl.startup
  <2>1. PICK m, d : c.ecu = Ecu(in, m, d)
    BY SignalTypes
  <2>2. Latched(in, c.ecu) \in CtlTypes /\ ir \in Instructions
    BY <2>1, LatchedTypes, FetchTypes
  <2>3. virtual \in BOOLEAN
    OBVIOUS
  <2>4. ctl' = [Latched(in, c.ecu) EXCEPT
                   !.ir = ir, !.virtual = virtual, !.startup = FALSE,
                   !.incAddress = FALSE, !.high = FALSE, !.phase = 0, !.fetch = FALSE]
    BY <1>3 DEF FetchClock
  <2>5. cpu' \in CpuTypes
    BY <1>3, SignalTypes DEF FetchClock
  <2> HIDE DEF c, ir, virtual
  <2> DEFINE l == Latched(in, c.ecu)
  <2> HIDE DEF l
  <2>6. ctl' \in CtlTypes
    <3>1. ctl' = [ir |-> ir, fetch |-> FALSE, phase |-> 0, high |-> FALSE, hold |-> l.hold,
                  wait |-> l.wait, halt |-> l.halt, fault |-> l.fault, exc |-> l.exc,
                  startup |-> FALSE, virtual |-> virtual, intVec |-> l.intVec,
                  extVec |-> l.extVec, incAddress |-> FALSE, dtr |-> l.dtr]
      BY <2>2, <2>4 DEF CtlTypes, l
    <3> QED
      BY <2>2, <2>3, <3>1 DEF CtlTypes, l
  <2>7. status' \in {"RUNNING", "WAITING", "HALTED", "FAULT"}
    BY <1>3, StatusTypes DEF FetchClock
  <2> QED
    BY <1>0, <1>3, <2>5, <2>6, <2>7 DEF FetchClock, TypeInv, Bytes, CpuTypes
<1>4. ASSUME NEW in \in Inputs, ExecuteClock(in) PROVE TypeInv'
  <2> DEFINE c == Signals(in)
             cut == "cut" \in c.row
             phase == IF cut \/ Latched(in, c.ecu).phase = 7 THEN 0 ELSE Latched(in, c.ecu).phase + 1
  <2>1. PICK m, d : c.ecu = Ecu(in, m, d)
    BY SignalTypes
  <2>2. Latched(in, c.ecu) \in CtlTypes
    BY <2>1, LatchedTypes
  <2>3. cut \in BOOLEAN
    OBVIOUS
  <2>4. ctl' = [Latched(in, c.ecu) EXCEPT !.incAddress = FALSE, !.high = FALSE,
                                          !.fetch = cut, !.phase = phase]
    BY <1>4 DEF ExecuteClock
  <2>5. cpu' \in CpuTypes
    BY <1>4, SignalTypes DEF ExecuteClock
  <2> HIDE DEF cut
  <2>6. phase \in 0 .. 7
    BY <2>2 DEF CtlTypes
  <2> HIDE DEF c, phase
  <2>7. ctl' \in CtlTypes
    BY <2>2, <2>3, <2>4, <2>6 DEF CtlTypes
  <2>8. status' \in {"RUNNING", "WAITING", "HALTED", "FAULT"}
    BY <1>4, StatusTypes DEF ExecuteClock
  <2>9. Bytes(ram')
    BY <1>4, SignalTypes DEF ExecuteClock
  <2> QED
    BY <1>0, <1>4, <2>5, <2>7, <2>8, <2>9 DEF ExecuteClock, TypeInv, Bytes, CpuTypes
<1>5. CASE Reset
  <2>1. ctl' \in CtlTypes
    <3>1. ctl' = [ir |-> ctl.ir, fetch |-> TRUE, phase |-> 0, high |-> ctl.high, hold |-> FALSE,
                  wait |-> FALSE, halt |-> FALSE, fault |-> FALSE, exc |-> FALSE,
                  startup |-> TRUE, virtual |-> FALSE, intVec |-> ctl.intVec,
                  extVec |-> ctl.extVec, incAddress |-> FALSE, dtr |-> ctl.dtr]
      BY <1>0, <1>5 DEF Reset, CtlTypes
    <3> QED
      BY <1>0, <3>1 DEF CtlTypes
  <2>2. cpu' \in CpuTypes
    BY <1>0, <1>5, Sizes DEF Reset, CpuTypes
  <2> QED
    BY <1>0, <1>5, <2>1, <2>2 DEF Reset, TypeInv, Bytes, CpuTypes
<1>6. CASE UNCHANGED vars
  BY <1>6 DEF vars, TypeInv, Bytes, CpuTypes, CtlTypes
<1> QED
  BY <1>1, <1>2, <1>3, <1>4, <1>5, <1>6 DEF Next, Clock

\* A typed state has an operation with microcode: the decoder makes one of every
\* instruction, a branch taken or not among them.
LEMMA Decoded ==
    ASSUME TypeInv
    PROVE  Op \in Operations
<1>1. Operations = Operations \cup {"fetch", "br_abs", "br_rel", "br_nop"}
  BY DEF Operations, Main
<1>2. ctl.ir.op \in Opcodes
  BY DEF TypeInv, CtlTypes, Instructions
<1> QED
  BY <1>1, <1>2 DEF Op, Decode, Opcodes

\* Registers, latches and buses keep the width of a word, memory that of a byte, the
\* phase three bits, and the sequencer always has a row to take.
THEOREM TypeCorrect == Spec => []TypeOK
<1>1. TypeInv => TypeOK
  <2> SUFFICES ASSUME TypeInv PROVE TypeOK
    OBVIOUS
  <2>1. \A l \in {"fetch", "high", "hold", "wait", "halt", "fault", "exc", "startup",
                  "virtual", "incAddress"} : ctl[l] \in BOOLEAN
    BY DEF TypeInv, CtlTypes
  <2> QED
    BY <2>1, Decoded DEF TypeInv, TypeOK, CtlTypes, CpuTypes, Bytes
<1> QED
  BY <1>1, InitTyped, NextTyped, PTL DEF Spec

-------------------------------------------------------------------------------
(* The numbers of exceptions.                                                 *)

\* The latches are fields of ctl.
Latches ==
    {"ir", "fetch", "phase", "high", "hold", "wait", "halt", "fault", "exc", "startup",
     "virtual", "intVec", "extVec", "incAddress", "dtr"}

\* A latched exception is kept with its number; that of an external one beside it.
LatchedIsNumbered ==
    ctl.exc =>
        /\ ctl.intVec \in (UNALIGNED_SP .. DOUBLE_FAULT) \cup {EXTERNAL_EXC}
        /\ ctl.intVec = EXTERNAL_EXC => ctl.extVec \in Externals

NumberInv == DOMAIN ctl = Latches /\ LatchedIsNumbered /\ VirtualIsNumbered

\* The exception unit gives a number to what it has got (ExceptionControlUnit.java).
LEMMA EcuNumbers ==
    ASSUME NEW in \in Inputs, NEW m, NEW d
    PROVE  LET e == Ecu(in, m, d) IN
           /\ e.got /\ ~e.double =>
                \/ e.number \in UNALIGNED_SP .. DOUBLE_FAULT
                \/ e.number = EXTERNAL_EXC /\ External(in)
           /\ External(in) => e.got
           /\ e.triggered => e.got \/ ctl.exc
           /\ e.latchInt => e.triggered \/ Irq(in)
           /\ e.reset => e.triggered
<1> DEFINE e == Ecu(in, m, d)
<1>1. /\ External(in) => e.got
      /\ e.triggered => e.got \/ ctl.exc
      /\ e.latchInt => e.triggered \/ Irq(in)
      /\ e.reset => e.triggered
  BY Zenon DEF Ecu
<1>2. External(in) => e.number = EXTERNAL_EXC
  BY DEF Ecu
<1>3. ~External(in) => e.number \in {INVALID_INST, UNALIGNED_PC, UNALIGNED_SP}
  BY DEF Ecu
<1>4. {INVALID_INST, UNALIGNED_PC, UNALIGNED_SP} \subseteq UNALIGNED_SP .. DOUBLE_FAULT
  BY DEF UNALIGNED_SP, UNALIGNED_PC, INVALID_INST, DOUBLE_FAULT
<1> QED
  BY <1>1, <1>2, <1>3, <1>4

\* The numbers that devices give (the assumption keeps 0 for a line that is low).
LEMMA DeviceNumbers ==
    ASSUME NEW in \in Inputs
    PROVE  /\ External(in) => in.exc \in Externals
           /\ Irq(in) => in.irq \in Interrupts
BY DEF Inputs, External, Irq

Numbered(e, in) ==
    /\ IntVec(e) \in (UNALIGNED_SP .. DOUBLE_FAULT) \cup {EXTERNAL_EXC}
    /\ IntVec(e) = EXTERNAL_EXC => ExtVec(in) \in Externals

\* What is latched in a clock is numbered, whether it came in this clock or before.
LEMMA LatchNumbers ==
    ASSUME NumberInv, NEW in \in Inputs, NEW m, NEW d,
           Ecu(in, m, d).got \/ ctl.exc
    PROVE  Numbered(Ecu(in, m, d), in)
<1> DEFINE e == Ecu(in, m, d)
<1>1. CASE e.got
  <2>1. IntVec(e) = IF e.double THEN DOUBLE_FAULT ELSE e.number
    BY <1>1 DEF IntVec
  <2>2. IntVec(e) \in UNALIGNED_SP .. DOUBLE_FAULT \/ (IntVec(e) = EXTERNAL_EXC /\ External(in))
    BY <1>1, <2>1, EcuNumbers DEF UNALIGNED_SP, DOUBLE_FAULT, EXTERNAL_EXC
  <2>3. External(in) => ExtVec(in) \in Externals
    BY DeviceNumbers DEF ExtVec
  <2> QED
    BY <2>2, <2>3 DEF Numbered, UNALIGNED_SP, DOUBLE_FAULT, EXTERNAL_EXC
<1>2. CASE ~e.got
  <2>1. IntVec(e) = ctl.intVec /\ ExtVec(in) = ctl.extVec /\ ctl.exc
    BY <1>2, EcuNumbers DEF IntVec, ExtVec
  <2> QED
    BY <2>1 DEF Numbered, NumberInv, LatchedIsNumbered
<1> QED
  BY <1>1, <1>2

\* The latches of a clock that is not suspended (updateExceptionLatches).
LEMMA LatchedNumbers ==
    ASSUME NumberInv, NEW in \in Inputs, NEW m, NEW d
    PROVE  LET l == Latched(in, Ecu(in, m, d)) IN
           /\ DOMAIN l = Latches
           /\ l.exc => /\ l.intVec \in (UNALIGNED_SP .. DOUBLE_FAULT) \cup {EXTERNAL_EXC}
                       /\ l.intVec = EXTERNAL_EXC => l.extVec \in Externals
           /\ l.virtual = ctl.virtual /\ l.ir = ctl.ir
<1> DEFINE e == Ecu(in, m, d)
           l == Latched(in, e)
<1>1. /\ DOMAIN l = Latches
      /\ l.exc = ExcLatch(e) /\ l.intVec = IntVec(e) /\ l.extVec = ExtVec(in)
      /\ l.virtual = ctl.virtual /\ l.ir = ctl.ir
  BY DEF Latched, NumberInv, Latches
<1>2. ExcLatch(e) => e.got \/ ctl.exc
  BY DEF ExcLatch
<1>3. e.got \/ ctl.exc => Numbered(e, in)
  BY LatchNumbers
<1> QED
  BY <1>1, <1>2, <1>3 DEF Numbered

\* The instruction that a fetch puts into ir (FetchUnit.java).
LEMMA FetchedNumbers ==
    ASSUME NumberInv, NEW in \in Inputs, NEW m, NEW d,
           LET e == Ecu(in, m, d) IN e.latchInt \/ ctl.startup,
           FetchInstruction(in, Ecu(in, m, d)).op = "int"
    PROVE  FetchInstruction(in, Ecu(in, m, d)).num \in
               (UNALIGNED_SP .. DOUBLE_FAULT) \cup Externals \cup Interrupts
<1> DEFINE e == Ecu(in, m, d)
           Good == (UNALIGNED_SP .. DOUBLE_FAULT) \cup Externals \cup Interrupts
<1>1. CASE ctl.startup
  <2>1. FetchInstruction(in, e) = ResetInstruction
    BY <1>1 DEF FetchInstruction
  <2> QED
    BY <2>1 DEF ResetInstruction
<1>2. CASE ~ctl.startup /\ ~e.triggered
  <2>1. e.latchInt /\ Irq(in)
    BY <1>2, EcuNumbers
  <2>2. FetchInstruction(in, e) = Int(in.irq)
    BY <1>2, <2>1 DEF FetchInstruction
  <2> QED
    BY <2>1, <2>2, DeviceNumbers DEF Int
<1>3. CASE ~ctl.startup /\ e.triggered /\ ~External(in)
  <2>1. Numbered(e, in)
    BY <1>3, EcuNumbers, LatchNumbers
  <2>2. Vector(IntVec(e), ExtVec(in)) \in Good
    BY <2>1 DEF Vector, Numbered
  <2>3. FetchInstruction(in, e) = Int(Vector(IntVec(e), ExtVec(in)))
    BY <1>1, <1>3 DEF FetchInstruction
  <2> QED
    BY <2>2, <2>3 DEF Int
<1>4. CASE ~ctl.startup /\ e.triggered /\ External(in)
  <2>1. FetchInstruction(in, e) = Int(IF e.double THEN DOUBLE_FAULT ELSE in.exc)
    BY <1>4 DEF FetchInstruction
  <2>2. DOUBLE_FAULT \in UNALIGNED_SP .. DOUBLE_FAULT
    BY DEF UNALIGNED_SP, DOUBLE_FAULT
  <2> QED
    BY <1>4, <2>1, <2>2, DeviceNumbers DEF Int
<1> QED
  BY <1>1, <1>2, <1>3, <1>4

-------------------------------------------------------------------------------
\* Nothing is latched at first.
LEMMA InitNumbered == Init => NumberInv
BY DEF Init, NumberInv, Latches, LatchedIsNumbered, VirtualIsNumbered

\* Every clock keeps the latched numbers those of the latched exception.
LEMMA NextNumbered == NumberInv /\ [Next]_vars => NumberInv'
<1> SUFFICES ASSUME NumberInv, [Next]_vars PROVE NumberInv'
  OBVIOUS
<1> USE DEF NumberInv
<1>1. ASSUME NEW in \in Inputs, SuspendedClock(in) PROVE NumberInv'
  <2>1. /\ DOMAIN ctl' = Latches /\ ctl'.exc = ctl.exc /\ ctl'.intVec = ctl.intVec
        /\ ctl'.extVec = ctl.extVec /\ ctl'.virtual = ctl.virtual /\ ctl'.ir = ctl.ir
    BY <1>1 DEF SuspendedClock, Latches
  <2> QED
    BY <2>1 DEF LatchedIsNumbered, VirtualIsNumbered
<1>2. ASSUME NEW in \in Inputs, InhibitedClock(in) PROVE NumberInv'
  <2> DEFINE m == MainRow(Op, ctl.phase)
             l == Latched(in, Ecu(in, m, Datapath(m).data))
  <2>1. PICK byte : ctl' = [l EXCEPT !.incAddress = TRUE, !.dtr = byte, !.high = TRUE]
    BY <1>2 DEF InhibitedClock, Signals
  <2>2. /\ DOMAIN ctl' = Latches /\ ctl'.exc = l.exc /\ ctl'.intVec = l.intVec
        /\ ctl'.extVec = l.extVec /\ ctl'.virtual = l.virtual /\ ctl'.ir = l.ir
    BY <2>1, LatchedNumbers DEF Latches
  <2> QED
    BY <2>2, LatchedNumbers DEF LatchedIsNumbered, VirtualIsNumbered
<1>3. ASSUME NEW in \in Inputs, FetchClock(in) PROVE NumberInv'
  <2> DEFINE m == MainRow(Op, ctl.phase)
             e == Ecu(in, m, Datapath(m).data)
             l == Latched(in, e)
  <2>1. ctl' = [l EXCEPT !.ir = FetchInstruction(in, e),
                         !.virtual = e.latchInt \/ ctl.startup, !.startup = FALSE,
                         !.incAddress = FALSE, !.high = FALSE, !.phase = 0, !.fetch = FALSE]
    BY <1>3 DEF FetchClock, Signals
  <2>2. /\ DOMAIN ctl' = Latches /\ ctl'.exc = l.exc /\ ctl'.intVec = l.intVec
        /\ ctl'.extVec = l.extVec /\ ctl'.virtual = (e.latchInt \/ ctl.startup)
        /\ ctl'.ir = FetchInstruction(in, e)
    BY <2>1, LatchedNumbers DEF Latches
  <2>3. LatchedIsNumbered'
    BY <2>2, LatchedNumbers DEF LatchedIsNumbered
  <2>4. VirtualIsNumbered'
    BY <2>2, FetchedNumbers DEF VirtualIsNumbered
  <2> QED
    BY <2>2, <2>3, <2>4
<1>4. ASSUME NEW in \in Inputs, ExecuteClock(in) PROVE NumberInv'
  <2> DEFINE m == MainRow(Op, ctl.phase)
             l == Latched(in, Ecu(in, m, Datapath(m).data))
  <2>1. PICK cut, phase : ctl' = [l EXCEPT !.incAddress = FALSE, !.high = FALSE,
                                          !.fetch = cut, !.phase = phase]
    BY <1>4 DEF ExecuteClock, Signals
  <2>2. /\ DOMAIN ctl' = Latches /\ ctl'.exc = l.exc /\ ctl'.intVec = l.intVec
        /\ ctl'.extVec = l.extVec /\ ctl'.virtual = l.virtual /\ ctl'.ir = l.ir
    BY <2>1, LatchedNumbers DEF Latches
  <2> QED
    BY <2>2, LatchedNumbers DEF LatchedIsNumbered, VirtualIsNumbered
<1>5. CASE Reset
  <2>1. DOMAIN ctl' = Latches /\ ctl'.exc = FALSE /\ ctl'.virtual = FALSE
    BY <1>5 DEF Reset, Latches
  <2> QED
    BY <2>1 DEF LatchedIsNumbered, VirtualIsNumbered
<1>6. CASE UNCHANGED vars
  BY <1>6 DEF vars, LatchedIsNumbered, VirtualIsNumbered
<1> QED
  BY <1>1, <1>2, <1>3, <1>4, <1>5, <1>6 DEF Next, Clock

\* No exception and no interrupt enters the reset vector or one that nobody asked for,
\* however exceptions, resets and stops of the clock follow each other.
THEOREM VectorsSound == Spec => []VirtualIsNumbered
<1>1. NumberInv => VirtualIsNumbered
  BY DEF NumberInv
<1> QED
  BY <1>1, InitNumbered, NextNumbered, PTL DEF Spec

-------------------------------------------------------------------------------
(* Instructions by what their microcode does to sp and how many phases it has. *)

Calls == {"jsr", "jsrr", "jsr_rel"}
Pushing == Calls \cup {"pupc", "pusp", "pups", "push", "push_p"}
Popping == {"popc", "pops", "pop"}
Setting == {"posp", "ldsp", "stsp", "ldps", "stps", "ldpc", "stpc", "addsp", "move"}
Lost == {"halt", "wait", "ei", "di"}

\* The last phase, undisturbed and after an exception.
LastMain(op) ==
    CASE op \in Calls \cup {"rti", "reset"} -> 1
      [] op = "int" -> 3
      [] OTHER -> 0

LastExc(op) ==
    CASE op \in (Pushing \ Calls) \cup Popping \cup Setting -> 1
      [] op \in Calls \cup {"reset"} -> 2
      [] op = "rti" -> 3
      [] op = "int" -> 5
      [] OTHER -> 0

-------------------------------------------------------------------------------
(* What has been done of an instruction in each of its phases.                *)

Even(a) == a % 2 = 0

\* What the instruction is executed on and what it makes of it.
Base ==
    View([boundary.cpu EXCEPT !.pc = IF ctl.virtual THEN @ ELSE Plus(@, 2)],
         boundary.ram, boundary.pending, boundary.startup)
Target == Machine!Effect(ctl.ir, Base)

\* sp in phase ph.
SpAt(op, ph) ==
    LET sp == boundary.cpu.sp IN
    CASE ph = 0 -> sp
      [] ph > 0 /\ op \in Pushing -> Minus(sp, 2)
      [] ph > 0 /\ op \in Popping -> Plus(sp, 2)
      [] op = "rti" /\ ph \in {1, 3} -> Plus(sp, 2)
      [] op = "rti" /\ ph = 2 -> Plus(Plus(sp, 2), 2)
      [] op = "int" /\ ph \in {1, 5} -> Minus(sp, 2)
      [] op = "int" /\ ph \in {2, 3, 4} -> Minus(Minus(sp, 2), 2)
      [] OTHER -> sp

\* The memory in phase ph > 0.
RamAt(op, ph) ==
    IF op = "int" /\ ph = 1 THEN Machine!Push(Base, Base.cpu.ps).ram ELSE Target.ram

\* pc in phase ph, undisturbed.
PcAt(op, ph) ==
    CASE op = "rti" /\ ph = 1 -> Load(boundary.ram, boundary.cpu.sp)
      [] (op = "int" /\ ph = 3) \/ (op = "reset" /\ ph = 1) -> rom(4 * ctl.ir.num).num
      [] OTHER -> Base.cpu.pc

\* Half of an unaligned access.
Halfway ==
    /\ Op \in {"ldw", "stw"} /\ ctl.phase = 0 /\ ctl.high
    /\ ~Even(cpu.regs[ctl.ir.rs])
    /\ Op = "ldw" => ram = boundary.ram /\ ctl.dtr = At(ram, cpu.regs[ctl.ir.rs])
    /\ Op = "stw" => ram = StoreByte(boundary.ram, cpu.regs[ctl.ir.rs], cpu.regs[ctl.ir.rd])

Own == Machine!Raised(Target)

\* The exception that a broken instruction will end with.
Broken ==
    CASE Op \in {"int", "reset", "rti"} -> Pending = DOUBLE_FAULT
      [] Op \notin {"int", "reset", "rti"} /\ ctl.phase <= LastMain(Op) ->
           Pending \in {DOUBLE_FAULT} \cup Externals
      [] OTHER -> Pending \in {DOUBLE_FAULT} \cup (IF Own = 0 THEN Externals ELSE {Own})

\* What entered a handler.
Entered ==
    IF boundary.startup THEN ctl.ir = ResetInstruction
    ELSE LET n == ctl.ir.num IN
           /\ ctl.ir = Int(n) /\ 4 * n + 2 < WordSize
           /\ IF boundary.pending = 0
              THEN n \in Externals \/ (n \in Interrupts /\ InterruptStatus(boundary.cpu.ps))
              ELSE n \in {boundary.pending, DOUBLE_FAULT}

Fetching ==
    /\ cpu = boundary.cpu /\ ram = boundary.ram /\ ctl.phase = 0 /\ ~ctl.incAddress
    /\ ctl.startup = boundary.startup /\ boundary.pending = Pending
    /\ ctl.startup => ~ctl.exc

\* Where an exception leaves the latch of pc to be told from what follows.
PcKept ==
    \/ ~ctl.exc \/ ctl.phase = 0 \/ Op \notin {"int", "reset", "rti"}
    \/ Op = "int" /\ ctl.phase <= 2

Executing ==
    /\ ~ctl.startup /\ ~ctl.wait /\ ~ctl.halt
    /\ IF ctl.virtual THEN Entered
       ELSE ctl.ir = rom(boundary.cpu.pc) /\ boundary.pending = 0 /\ ~boundary.startup
    /\ ctl.phase <= IF ctl.exc THEN LastExc(Op) ELSE LastMain(Op)
    /\ cpu.regs = boundary.cpu.regs /\ cpu.ps = boundary.cpu.ps
    /\ cpu.sp = SpAt(Op, ctl.phase)
    /\ PcKept => cpu.pc = PcAt(Op, ctl.phase)
    /\ IF ctl.incAddress THEN Halfway
       ELSE ram = IF ctl.phase = 0 THEN boundary.ram ELSE RamAt(Op, ctl.phase)
    /\ ctl.exc => Broken /\ (ctl.phase = 0 => ctl.virtual \/ ctl.incAddress)

BoundaryOK ==
    /\ boundary = View(boundary.cpu, boundary.ram, boundary.pending, boundary.startup)
    /\ boundary.cpu \in CpuTypes /\ Bytes(boundary.ram)
    /\ boundary.startup \in BOOLEAN /\ (boundary.startup => boundary.pending = 0)
    /\ Even(boundary.cpu.pc) /\ Even(boundary.cpu.sp)

Sim ==
    /\ BoundaryOK
    /\ Even(cpu.pc) /\ Even(cpu.sp)
    /\ status = StatusOf(ctl)
    /\ ctl.hold => ctl.high
    /\ ~ctl.hold /\ ~ctl.fault => IF ctl.fetch THEN Fetching ELSE Executing

-------------------------------------------------------------------------------
(* Sums in the width of a word.                                               *)

\* A number is what its division leaves and its quotient times the divisor.
LEMMA Division ==
    ASSUME NEW x \in Nat, NEW a \in Nat \ {0}
    PROVE  /\ x \div a \in Nat /\ x % a \in Nat /\ x % a < a
           /\ x = a * (x \div a) + (x % a)
<1>1. x \div a \in Nat /\ x % a \in Nat /\ x % a < a
  OBVIOUS
<1>2. x = a * (x \div a) + (x % a)
  OBVIOUS
<1> QED
  BY <1>1, <1>2

\* What is added to a multiple is what its division leaves.
LEMMA Quotient ==
    ASSUME NEW a \in Nat \ {0}, NEW k \in Nat, NEW r \in Nat, r < a
    PROVE  (a * k + r) % a = r
OBVIOUS

\* A sum of less than two words is cut by one.
LEMMA Wrapped ==
    ASSUME NEW x \in Nat, x < 2 * WordSize
    PROVE  x % WordSize = IF x < WordSize THEN x ELSE x - WordSize
<1>1. WordSize \in Nat \ {0}
  BY Sizes
<1>2. CASE x < WordSize
  BY <1>1, <1>2
<1>3. CASE x >= WordSize
  <2>1. x - WordSize \in Nat /\ x - WordSize < WordSize /\ x = WordSize * 1 + (x - WordSize)
    BY <1>1, <1>3
  <2>2. (WordSize * 1 + (x - WordSize)) % WordSize = x - WordSize
    BY <1>1, <2>1, Quotient
  <2> QED
    BY <1>1, <1>3, <2>1, <2>2
<1> QED
  BY <1>1, <1>2, <1>3

\* The rest of a sum is that of the rests.
LEMMA RestOfRest ==
    ASSUME NEW a \in Nat, NEW n \in Nat
    PROVE  (a + (n % WordSize)) % WordSize = (a + n) % WordSize
<1> DEFINE m == n % WordSize
<1>1. WordSize \in Nat \ {0}
  BY Sizes
<1>2. /\ n \div WordSize \in Nat /\ m \in Nat
      /\ n = WordSize * (n \div WordSize) + m
  BY <1>1, Division
<1> HIDE DEF m
<1>3. PICK q \in Nat : n = WordSize * q + m
  BY <1>2
<1>4. PICK k \in Nat, r \in Nat : a + m = WordSize * k + r /\ r < WordSize
  <2>1. a + m \in Nat
    BY <1>2
  <2>2. /\ (a + m) \div WordSize \in Nat /\ (a + m) % WordSize \in Nat
        /\ (a + m) % WordSize < WordSize
        /\ a + m = WordSize * ((a + m) \div WordSize) + ((a + m) % WordSize)
    BY <1>1, <2>1, Division
  <2> QED
    BY <2>2
<1>5. a + n = WordSize * (k + q) + r
  <2> DEFINE x == WordSize * q
             y == WordSize * k
  <2>1. x \in Nat /\ y \in Nat /\ n = x + m /\ a + m = y + r
    BY <1>1, <1>3, <1>4
  <2>2. WordSize * (k + q) = y + x
    BY <1>1
  <2> HIDE DEF x, y
  <2>3. a + n = (y + x) + r
    BY <1>2, <2>1
  <2> QED
    BY <2>2, <2>3
<1>6. k + q \in Nat
  OBVIOUS
<1>7. (WordSize * k + r) % WordSize = r /\ (WordSize * (k + q) + r) % WordSize = r
  BY <1>1, <1>4, <1>6, Quotient
<1> QED
  BY <1>4, <1>5, <1>7 DEF m

\* A sum wraps around at most once.
LEMMA PlusIs ==
    ASSUME NEW a \in Word, NEW b \in Word
    PROVE  Plus(a, b) = IF a + b < WordSize THEN a + b ELSE a + b - WordSize
<1> DEFINE x == a + b
<1>1. a \in Nat /\ a < WordSize /\ b \in Nat /\ b < WordSize /\ WordSize \in Nat
  BY Sizes DEF Word
<1>2. x \in Nat /\ x < 2 * WordSize
  BY <1>1
<1>3. Plus(a, b) = x % WordSize
  BY DEF Plus
<1> HIDE DEF x
<1>4. x % WordSize = IF x < WordSize THEN x ELSE x - WordSize
  BY <1>2, Wrapped
<1>5. x = a + b
  BY DEF x
<1> QED
  BY <1>1, <1>2, <1>3, <1>4, <1>5

\* So does the step down to the word below.
LEMMA MinusIs ==
    ASSUME NEW a \in Word
    PROVE  Minus(a, 2) = IF a >= 2 THEN a - 2 ELSE a + WordSize - 2
<1>1. a \in Nat /\ a < WordSize /\ WordSize \in Nat /\ WordSize >= 16
  BY Sizes DEF Word
<1> DEFINE x == a + WordSize - 2
<1>2. x \in Nat /\ x < 2 * WordSize
  BY <1>1
<1> HIDE DEF x
<1>3. x % WordSize = IF x < WordSize THEN x ELSE x - WordSize
  BY <1>2, Wrapped
<1>4. Minus(a, 2) = x % WordSize
  BY DEF Minus, x
<1>5. x = a + WordSize - 2
  BY DEF x
<1>6. CASE a >= 2
  BY <1>1, <1>3, <1>4, <1>5, <1>6
<1>7. CASE a < 2
  BY <1>1, <1>3, <1>4, <1>5, <1>7
<1> QED
  BY <1>1, <1>6, <1>7

\* Going two on and two back.
LEMMA ThereAndBack ==
    ASSUME NEW a \in Word
    PROVE  Plus(Minus(a, 2), 2) = a /\ Minus(Plus(a, 2), 2) = a
<1>1. a \in Nat /\ a < WordSize /\ WordSize \in Nat /\ WordSize >= 16 /\ 2 \in Word
  BY Sizes DEF Word
<1>2. Plus(a, 2) \in Word /\ Minus(a, 2) \in Word
  BY PlusMinus
<1>3. Plus(Minus(a, 2), 2) = a
  BY <1>1, <1>2, PlusIs, MinusIs
<1>4. Minus(Plus(a, 2), 2) = a
  BY <1>1, <1>2, PlusIs, MinusIs
<1> QED
  BY <1>3, <1>4

\* A word up or down from an even address is even; the byte after an odd one is too.
LEMMA EvenSteps ==
    ASSUME NEW a \in Word
    PROVE  /\ Even(a) => Even(Plus(a, 2)) /\ Even(Minus(a, 2))
           /\ ~Even(a) => Even(Plus(a, 1))
<1>1. a \in Nat /\ a < WordSize /\ WordSize \in Nat /\ WordSize >= 16 /\ WordSize % 16 = 0
      /\ 1 \in Word /\ 2 \in Word
  BY Sizes DEF Word
<1>2. WordSize % 2 = 0
  BY <1>1
<1>3. /\ Plus(a, 2) = IF a + 2 < WordSize THEN a + 2 ELSE a + 2 - WordSize
      /\ Plus(a, 1) = IF a + 1 < WordSize THEN a + 1 ELSE a + 1 - WordSize
      /\ Minus(a, 2) = IF a >= 2 THEN a - 2 ELSE a + WordSize - 2
  BY <1>1, PlusIs, MinusIs
<1> QED
  BY <1>1, <1>2, <1>3 DEF Even

\* So is any number of words up.
LEMMA EvenSum ==
    ASSUME NEW a \in Word, NEW n \in Nat, Even(a)
    PROVE  Even(Plus(a, 2 * n))
<1>1. WordSize \in Nat \ {0} /\ WordSize % 16 = 0 /\ a \in Nat
  BY Sizes
<1>2. WordSize % 2 = 0 /\ (a + 2 * n) % 2 = 0 /\ a + 2 * n \in Nat
  BY <1>1 DEF Even
<1> DEFINE y == a + 2 * n
<1>3. (y % WordSize) % 2 = 0
  <2>1. y \in Nat /\ y % 2 = 0
    BY <1>2
  <2> HIDE DEF y
  <2>2. PICK q \in Nat : y = WordSize * q + (y % WordSize) /\ y % WordSize \in Nat
    BY <1>1, <2>1, Division
  <2>3. PICK h \in Nat : WordSize = 2 * h
    BY <1>1, <1>2
  <2>4. PICK j \in Nat : y = 2 * j
    BY <2>1
  <2>5. WordSize * q = 2 * (h * q) /\ h * q \in Nat
    BY <2>3
  <2>6. y % WordSize = 2 * (j - h * q)
    BY <2>2, <2>4, <2>5
  <2> QED
    BY <2>5, <2>6
<1> QED
  BY <1>3 DEF Even, Plus

-------------------------------------------------------------------------------
(* The two tables of microcode.                                               *)

\* The signals that decide what is on the buses and what is read and written.
Accesses ==
    {"mem", "data", "word", "read", "r_asrt0", "sp_asrt0", "pc_asrt0", "r_asrt1",
     "imm_asrt1", "imm_shift", "r_asrtD", "imm_asrtD", "sp_asrtD", "pc_asrtD", "ps_asrtD",
     "alu_asrtD", "sp_dec"}

\* The row m of the main table in phase ph of op: the last one cuts, none is empty but
\* that of an invalid instruction, words are at sp, at pc or at a vector; what is latched
\* is not stepped.
MainRowOf(m, op, ph) ==
    /\ ph <= LastMain(op) /\ op # "invalid" => m # {} /\ ("cut" \in m <=> ph = LastMain(op))
    /\ ph > LastMain(op) \/ op = "invalid" => m = {}
    /\ "word" \in m /\ op \notin {"ldw", "stw"} =>
         /\ "r_asrt0" \notin m /\ "r_asrt1" \notin m /\ op # "alu3"
         /\ "imm_asrt1" \in m => op \in {"int", "reset"}
    /\ "pc_latch" \in m => "pc_inc" \notin m
    /\ "sp_latch" \in m => "sp_inc" \notin m /\ "sp_dec" \notin m
    /\ "pc_latch" \in m \/ "sp_latch" \in m =>
         op \notin Lost /\ (ph = LastMain(op) \/ op \in {"int", "reset", "rti"})

\* The row x of the other table, m is that of the main one: the same accesses and no
\* latches, afterwards sp and pc are taken back.
ExcRowOf(x, m, op, ph) ==
    /\ ph <= LastMain(op) => \A b \in Accesses : b \in x <=> b \in m
    /\ ph > LastMain(op) => "mem" \notin x
    /\ "r_latch" \notin x /\ "pc_latch" \notin x /\ "sp_latch" \notin x /\ "ps_latch_word" \notin x
    /\ "ps_latch_flags" \in x <=> op = "add_p"
    /\ "cut" \in x <=> ph = LastExc(op)
    /\ "pc_inc" \in x <=> ph = LastExc(op) /\ op \notin Lost
    /\ "sp_inc" \in x <=> \/ op \in Pushing /\ ph = LastExc(op)
                          \/ op \in Popping /\ ph = 0
                          \/ op = "rti" /\ ph <= 1
                          \/ op = "int" /\ ph >= 4
    /\ "sp_dec" \in x <=> \/ op \in Pushing /\ ph = 0
                          \/ op \in Popping /\ ph = 1
                          \/ op = "rti" /\ ph >= 2
                          \/ op = "int" /\ ph <= 1

\* Instructions that only control the processor, and the invalid one.
LEMMA RowsOfControl ==
    /\ MainRow("halt", 0) = {"word", "cut"}
    /\ ExcRow("halt", 0) = {"word", "cut"}
    /\ MainRow("wait", 0) = {"word", "cut"}
    /\ ExcRow("wait", 0) = {"word", "cut"}
    /\ MainRow("ei", 0) = {"word", "cut"}
    /\ ExcRow("ei", 0) = {"word", "cut"}
    /\ MainRow("di", 0) = {"word", "cut"}
    /\ ExcRow("di", 0) = {"word", "cut"}
    /\ MainRow("invalid", 0) = {}
    /\ ExcRow("invalid", 0) = {"cut", "pc_inc"}
BY DEF MainRow, ExcRow, Row, Main, Exc, Push, Pop, Code, Read, Write, Relative

\* Loading and storing.
LEMMA RowsOfAccesses ==
    /\ MainRow("ldi", 0) = {"mem", "word", "read", "pc_asrt0", "r_latch", "pc_inc", "cut"}
    /\ ExcRow("ldi", 0) = {"mem", "word", "read", "pc_asrt0", "pc_inc", "cut"}
    /\ MainRow("ldw", 0) = {"mem", "data", "word", "read", "r_asrt0", "r_latch", "cut"}
    /\ ExcRow("ldw", 0) = {"mem", "data", "word", "read", "r_asrt0", "pc_inc", "cut"}
    /\ MainRow("ldb", 0) = {"mem", "data", "read", "r_asrt0", "r_latch", "cut"}
    /\ ExcRow("ldb", 0) = {"mem", "data", "read", "r_asrt0", "pc_inc", "cut"}
    /\ MainRow("stw", 0) = {"mem", "data", "word", "r_asrt0", "r_asrtD", "cut"}
    /\ ExcRow("stw", 0) = {"mem", "data", "word", "r_asrt0", "r_asrtD", "pc_inc", "cut"}
    /\ MainRow("stb", 0) = {"mem", "data", "r_asrt0", "r_asrtD", "cut"}
    /\ ExcRow("stb", 0) = {"mem", "data", "r_asrt0", "r_asrtD", "pc_inc", "cut"}
    /\ MainRow("ldi_p", 0) = {"r_latch", "imm_asrtD", "cut"}
    /\ ExcRow("ldi_p", 0) = {"imm_asrtD", "pc_inc", "cut"}
BY DEF MainRow, ExcRow, Row, Main, Exc, Push, Pop, Code, Read, Write, Relative

\* Adding.
LEMMA RowsOfSums ==
    /\ MainRow("add_p", 0) = {"r_asrt0", "imm_asrt1", "alu_asrtD", "r_latch", "ps_latch_flags", "cut"}
    /\ ExcRow("add_p", 0) = {"r_asrt0", "imm_asrt1", "alu_asrtD", "ps_latch_flags", "pc_inc", "cut"}
    /\ MainRow("addsp_p", 0) = {"sp_asrt0", "imm_asrt1", "imm_shift", "alu_asrtD", "sp_latch", "cut"}
    /\ ExcRow("addsp_p", 0) = {"sp_asrt0", "imm_asrt1", "imm_shift", "alu_asrtD", "pc_inc", "cut"}
    /\ MainRow("alu3", 0) = {"r_asrt0", "r_asrt1", "alu_asrtD", "r_latch", "ps_latch_flags", "cut"}
    /\ ExcRow("alu3", 0) = {"r_asrt0", "r_asrt1", "alu_asrtD", "pc_inc", "cut"}
BY DEF MainRow, ExcRow, Row, Main, Exc, Push, Pop, Code, Read, Write, Relative

\* Branches.
LEMMA RowsOfBranches ==
    /\ MainRow("br_abs", 0) = {"mem", "word", "read", "pc_asrt0", "pc_latch", "cut"}
    /\ ExcRow("br_abs", 0) = {"mem", "word", "read", "pc_asrt0", "pc_inc", "cut"}
    /\ MainRow("br_rel", 0) = {"pc_asrt0", "imm_asrt1", "imm_shift", "alu_asrtD", "pc_latch", "cut"}
    /\ ExcRow("br_rel", 0) = {"pc_asrt0", "imm_asrt1", "imm_shift", "alu_asrtD", "pc_inc", "cut"}
    /\ MainRow("br_nop", 0) = {"pc_inc", "cut"}
    /\ ExcRow("br_nop", 0) = {"pc_inc", "cut"}
BY DEF MainRow, ExcRow, Row, Main, Exc, Push, Pop, Code, Read, Write, Relative

\* Pushing a register of the processor.
LEMMA RowsOfPushes1 ==
    /\ MainRow("pupc", 0) = {"mem", "data", "word", "sp_asrt0", "sp_dec", "pc_asrtD", "cut"}
    /\ ExcRow("pupc", 0) = {"mem", "data", "word", "sp_asrt0", "sp_dec", "pc_asrtD"}
    /\ MainRow("pupc", 1) = {}
    /\ ExcRow("pupc", 1) = {"sp_inc", "pc_inc", "cut"}
    /\ MainRow("pusp", 0) = {"mem", "data", "word", "sp_asrt0", "sp_dec", "sp_asrtD", "cut"}
    /\ ExcRow("pusp", 0) = {"mem", "data", "word", "sp_asrt0", "sp_dec", "sp_asrtD"}
    /\ MainRow("pusp", 1) = {}
    /\ ExcRow("pusp", 1) = {"sp_inc", "pc_inc", "cut"}
BY DEF MainRow, ExcRow, Row, Main, Exc, Push, Pop, Code, Read, Write, Relative

\* Pushing ps or a register.
LEMMA RowsOfPushes2 ==
    /\ MainRow("pups", 0) = {"mem", "data", "word", "sp_asrt0", "sp_dec", "ps_asrtD", "cut"}
    /\ ExcRow("pups", 0) = {"mem", "data", "word", "sp_asrt0", "sp_dec", "ps_asrtD"}
    /\ MainRow("pups", 1) = {}
    /\ ExcRow("pups", 1) = {"sp_inc", "pc_inc", "cut"}
    /\ MainRow("push", 0) = {"mem", "data", "word", "sp_asrt0", "sp_dec", "r_asrtD", "cut"}
    /\ ExcRow("push", 0) = {"mem", "data", "word", "sp_asrt0", "sp_dec", "r_asrtD"}
    /\ MainRow("push", 1) = {}
    /\ ExcRow("push", 1) = {"sp_inc", "pc_inc", "cut"}
BY DEF MainRow, ExcRow, Row, Main, Exc, Push, Pop, Code, Read, Write, Relative

\* Pushing an immediate, taking sp from the stack.
LEMMA RowsOfPushes3 ==
    /\ MainRow("push_p", 0) = {"mem", "data", "word", "sp_asrt0", "sp_dec", "imm_asrtD", "cut"}
    /\ ExcRow("push_p", 0) = {"mem", "data", "word", "sp_asrt0", "sp_dec", "imm_asrtD"}
    /\ MainRow("push_p", 1) = {}
    /\ ExcRow("push_p", 1) = {"sp_inc", "pc_inc", "cut"}
    /\ MainRow("posp", 0) = {"mem", "data", "word", "read", "sp_asrt0", "sp_latch", "cut"}
    /\ ExcRow("posp", 0) = {"mem", "data", "word", "read", "sp_asrt0"}
    /\ MainRow("posp", 1) = {}
    /\ ExcRow("posp", 1) = {"pc_inc", "cut"}
BY DEF MainRow, ExcRow, Row, Main, Exc, Push, Pop, Code, Read, Write, Relative

\* Popping a register of the processor.
LEMMA RowsOfPops1 ==
    /\ MainRow("popc", 0) = {"mem", "data", "word", "read", "sp_asrt0", "pc_latch", "sp_inc", "cut"}
    /\ ExcRow("popc", 0) = {"mem", "data", "word", "read", "sp_asrt0", "sp_inc"}
    /\ MainRow("popc", 1) = {}
    /\ ExcRow("popc", 1) = {"sp_dec", "pc_inc", "cut"}
    /\ MainRow("pops", 0) = {"mem", "data", "word", "read", "sp_asrt0", "ps_latch_word", "sp_inc", "cut"}
    /\ ExcRow("pops", 0) = {"mem", "data", "word", "read", "sp_asrt0", "sp_inc"}
    /\ MainRow("pops", 1) = {}
    /\ ExcRow("pops", 1) = {"sp_dec", "pc_inc", "cut"}
BY DEF MainRow, ExcRow, Row, Main, Exc, Push, Pop, Code, Read, Write, Relative

\* Popping a register, adding one to sp.
LEMMA RowsOfPops2 ==
    /\ MainRow("pop", 0) = {"mem", "data", "word", "read", "sp_asrt0", "r_latch", "sp_inc", "cut"}
    /\ ExcRow("pop", 0) = {"mem", "data", "word", "read", "sp_asrt0", "sp_inc"}
    /\ MainRow("pop", 1) = {}
    /\ ExcRow("pop", 1) = {"sp_dec", "pc_inc", "cut"}
    /\ MainRow("addsp", 0) = {"sp_asrt0", "r_asrt1", "alu_asrtD", "sp_latch", "cut"}
    /\ ExcRow("addsp", 0) = {"sp_asrt0", "r_asrt1", "alu_asrtD"}
    /\ MainRow("addsp", 1) = {}
    /\ ExcRow("addsp", 1) = {"pc_inc", "cut"}
BY DEF MainRow, ExcRow, Row, Main, Exc, Push, Pop, Code, Read, Write, Relative

\* From and to sp.
LEMMA RowsOfMoves1 ==
    /\ MainRow("ldsp", 0) = {"sp_asrtD", "r_latch", "cut"}
    /\ ExcRow("ldsp", 0) = {"sp_asrtD"}
    /\ MainRow("ldsp", 1) = {}
    /\ ExcRow("ldsp", 1) = {"pc_inc", "cut"}
    /\ MainRow("stsp", 0) = {"sp_latch", "r_asrtD", "cut"}
    /\ ExcRow("stsp", 0) = {"r_asrtD"}
    /\ MainRow("stsp", 1) = {}
    /\ ExcRow("stsp", 1) = {"pc_inc", "cut"}
BY DEF MainRow, ExcRow, Row, Main, Exc, Push, Pop, Code, Read, Write, Relative

\* From and to ps.
LEMMA RowsOfMoves2 ==
    /\ MainRow("ldps", 0) = {"ps_asrtD", "r_latch", "cut"}
    /\ ExcRow("ldps", 0) = {"ps_asrtD"}
    /\ MainRow("ldps", 1) = {}
    /\ ExcRow("ldps", 1) = {"pc_inc", "cut"}
    /\ MainRow("stps", 0) = {"ps_latch_word", "r_asrtD", "cut"}
    /\ ExcRow("stps", 0) = {"r_asrtD"}
    /\ MainRow("stps", 1) = {}
    /\ ExcRow("stps", 1) = {"pc_inc", "cut"}
BY DEF MainRow, ExcRow, Row, Main, Exc, Push, Pop, Code, Read, Write, Relative

\* From and to pc.
LEMMA RowsOfMoves3 ==
    /\ MainRow("ldpc", 0) = {"pc_asrtD", "r_latch", "cut"}
    /\ ExcRow("ldpc", 0) = {"pc_asrtD"}
    /\ MainRow("ldpc", 1) = {}
    /\ ExcRow("ldpc", 1) = {"pc_inc", "cut"}
    /\ MainRow("stpc", 0) = {"pc_latch", "r_asrtD", "cut"}
    /\ ExcRow("stpc", 0) = {"r_asrtD"}
    /\ MainRow("stpc", 1) = {}
    /\ ExcRow("stpc", 1) = {"pc_inc", "cut"}
BY DEF MainRow, ExcRow, Row, Main, Exc, Push, Pop, Code, Read, Write, Relative

\* From a register to another.
LEMMA RowsOfMoves4 ==
    /\ MainRow("move", 0) = {"r_asrt0", "alu_asrtD", "r_latch", "ps_latch_flags", "cut"}
    /\ ExcRow("move", 0) = {"r_asrt0", "alu_asrtD"}
    /\ MainRow("move", 1) = {}
    /\ ExcRow("move", 1) = {"pc_inc", "cut"}
BY DEF MainRow, ExcRow, Row, Main, Exc, Push, Pop, Code, Read, Write, Relative

\* A call of an address.
LEMMA RowsOfJsr ==
    /\ MainRow("jsr", 0) = {"mem", "data", "word", "sp_asrt0", "sp_dec", "pc_asrtD"}
    /\ ExcRow("jsr", 0) = {"mem", "data", "word", "sp_asrt0", "sp_dec", "pc_asrtD"}
    /\ MainRow("jsr", 1) = {"mem", "word", "read", "pc_asrt0", "pc_latch", "cut"}
    /\ ExcRow("jsr", 1) = {"mem", "word", "read", "pc_asrt0"}
    /\ MainRow("jsr", 2) = {}
    /\ ExcRow("jsr", 2) = {"sp_inc", "pc_inc", "cut"}
BY DEF MainRow, ExcRow, Row, Main, Exc, Push, Pop, Code, Read, Write, Relative

\* A call by a register.
LEMMA RowsOfJsrr ==
    /\ MainRow("jsrr", 0) = {"mem", "data", "word", "sp_asrt0", "sp_dec", "pc_asrtD"}
    /\ ExcRow("jsrr", 0) = {"mem", "data", "word", "sp_asrt0", "sp_dec", "pc_asrtD"}
    /\ MainRow("jsrr", 1) = {"r_asrtD", "pc_latch", "cut"}
    /\ ExcRow("jsrr", 1) = {"r_asrtD"}
    /\ MainRow("jsrr", 2) = {}
    /\ ExcRow("jsrr", 2) = {"sp_inc", "pc_inc", "cut"}
BY DEF MainRow, ExcRow, Row, Main, Exc, Push, Pop, Code, Read, Write, Relative

\* A relative call.
LEMMA RowsOfJsrRel ==
    /\ MainRow("jsr_rel", 0) = {"mem", "data", "word", "sp_asrt0", "sp_dec", "pc_asrtD"}
    /\ ExcRow("jsr_rel", 0) = {"mem", "data", "word", "sp_asrt0", "sp_dec", "pc_asrtD"}
    /\ MainRow("jsr_rel", 1) = {"pc_asrt0", "imm_asrt1", "imm_shift", "alu_asrtD", "pc_latch", "cut"}
    /\ ExcRow("jsr_rel", 1) = {"pc_asrt0", "imm_asrt1", "imm_shift", "alu_asrtD"}
    /\ MainRow("jsr_rel", 2) = {}
    /\ ExcRow("jsr_rel", 2) = {"sp_inc", "pc_inc", "cut"}
BY DEF MainRow, ExcRow, Row, Main, Exc, Push, Pop, Code, Read, Write, Relative

\* The return from a handler.
LEMMA RowsOfRti ==
    /\ MainRow("rti", 0) = {"mem", "data", "word", "read", "sp_asrt0", "pc_latch", "sp_inc"}
    /\ ExcRow("rti", 0) = {"mem", "data", "word", "read", "sp_asrt0", "sp_inc"}
    /\ MainRow("rti", 1) = {"mem", "data", "word", "read", "sp_asrt0", "ps_latch_word", "sp_inc", "cut"}
    /\ ExcRow("rti", 1) = {"mem", "data", "word", "read", "sp_asrt0", "sp_inc"}
    /\ MainRow("rti", 2) = {}
    /\ ExcRow("rti", 2) = {"sp_dec"}
    /\ MainRow("rti", 3) = {}
    /\ ExcRow("rti", 3) = {"sp_dec", "pc_inc", "cut"}
BY DEF MainRow, ExcRow, Row, Main, Exc, Push, Pop, Code, Read, Write, Relative

\* The reset.
LEMMA RowsOfReset ==
    /\ MainRow("reset", 0) = {"mem", "word", "read", "imm_asrt1", "pc_latch"}
    /\ ExcRow("reset", 0) = {"mem", "word", "read", "imm_asrt1"}
    /\ MainRow("reset", 1) = {"mem", "word", "read", "imm_asrt1", "ps_latch_word", "cut"}
    /\ ExcRow("reset", 1) = {"mem", "word", "read", "imm_asrt1"}
    /\ MainRow("reset", 2) = {}
    /\ ExcRow("reset", 2) = {"pc_inc", "cut"}
BY DEF MainRow, ExcRow, Row, Main, Exc, Push, Pop, Code, Read, Write, Relative

\* Entering a handler, the pushes.
LEMMA RowsOfInt1 ==
    /\ MainRow("int", 0) = {"mem", "data", "word", "sp_asrt0", "sp_dec", "ps_asrtD"}
    /\ ExcRow("int", 0) = {"mem", "data", "word", "sp_asrt0", "sp_dec", "ps_asrtD"}
    /\ MainRow("int", 1) = {"mem", "data", "word", "sp_asrt0", "sp_dec", "pc_asrtD"}
    /\ ExcRow("int", 1) = {"mem", "data", "word", "sp_asrt0", "sp_dec", "pc_asrtD"}
BY DEF MainRow, ExcRow, Row, Main, Exc, Push, Pop, Code, Read, Write, Relative

\* Entering a handler, the vector.
LEMMA RowsOfInt2 ==
    /\ MainRow("int", 2) = {"mem", "word", "read", "imm_asrt1", "pc_latch"}
    /\ ExcRow("int", 2) = {"mem", "word", "read", "imm_asrt1"}
    /\ MainRow("int", 3) = {"mem", "word", "read", "imm_asrt1", "ps_latch_word", "cut"}
    /\ ExcRow("int", 3) = {"mem", "word", "read", "imm_asrt1"}
BY DEF MainRow, ExcRow, Row, Main, Exc, Push, Pop, Code, Read, Write, Relative

\* Taking back the pushes of a handler that was not entered.
LEMMA RowsOfInt3 ==
    /\ MainRow("int", 4) = {}
    /\ ExcRow("int", 4) = {"sp_inc"}
    /\ MainRow("int", 5) = {}
    /\ ExcRow("int", 5) = {"sp_inc", "pc_inc", "cut"}
BY DEF MainRow, ExcRow, Row, Main, Exc, Push, Pop, Code, Read, Write, Relative

Agree(op, ph) ==
    /\ MainRowOf(MainRow(op, ph), op, ph)
    /\ ExcRowOf(ExcRow(op, ph), MainRow(op, ph), op, ph)

\* The two tables agree, row by row.
LEMMA RowsAgree ==
    /\ Agree("halt", 0) /\ Agree("wait", 0) /\ Agree("ei", 0) /\ Agree("di", 0)
    /\ Agree("invalid", 0)
    /\ Agree("ldi", 0) /\ Agree("ldw", 0) /\ Agree("ldb", 0) /\ Agree("stw", 0)
    /\ Agree("stb", 0) /\ Agree("ldi_p", 0)
    /\ Agree("add_p", 0) /\ Agree("addsp_p", 0) /\ Agree("alu3", 0)
    /\ Agree("br_abs", 0) /\ Agree("br_rel", 0) /\ Agree("br_nop", 0)
    /\ Agree("pupc", 0) /\ Agree("pupc", 1) /\ Agree("pusp", 0) /\ Agree("pusp", 1)
    /\ Agree("pups", 0) /\ Agree("pups", 1) /\ Agree("push", 0) /\ Agree("push", 1)
    /\ Agree("push_p", 0) /\ Agree("push_p", 1) /\ Agree("posp", 0) /\ Agree("posp", 1)
    /\ Agree("popc", 0) /\ Agree("popc", 1) /\ Agree("pops", 0) /\ Agree("pops", 1)
    /\ Agree("pop", 0) /\ Agree("pop", 1) /\ Agree("addsp", 0) /\ Agree("addsp", 1)
    /\ Agree("ldsp", 0) /\ Agree("ldsp", 1) /\ Agree("stsp", 0) /\ Agree("stsp", 1)
    /\ Agree("ldps", 0) /\ Agree("ldps", 1) /\ Agree("stps", 0) /\ Agree("stps", 1)
    /\ Agree("ldpc", 0) /\ Agree("ldpc", 1) /\ Agree("stpc", 0) /\ Agree("stpc", 1)
    /\ Agree("move", 0) /\ Agree("move", 1)
    /\ Agree("jsr", 0) /\ Agree("jsr", 1) /\ Agree("jsr", 2)
    /\ Agree("jsrr", 0) /\ Agree("jsrr", 1) /\ Agree("jsrr", 2)
    /\ Agree("jsr_rel", 0) /\ Agree("jsr_rel", 1) /\ Agree("jsr_rel", 2)
    /\ Agree("rti", 0) /\ Agree("rti", 1) /\ Agree("rti", 2) /\ Agree("rti", 3)
    /\ Agree("reset", 0) /\ Agree("reset", 1) /\ Agree("reset", 2)
    /\ Agree("int", 0) /\ Agree("int", 1)
    /\ Agree("int", 2) /\ Agree("int", 3)
    /\ Agree("int", 4) /\ Agree("int", 5)
<1> USE DEF Agree, MainRowOf, ExcRowOf, Accesses, LastMain, LastExc, Calls, Pushing, Popping,
        Setting, Lost
<1>1. Agree("halt", 0) /\ Agree("wait", 0) /\ Agree("ei", 0) /\ Agree("di", 0)
  BY RowsOfControl
<1>2. Agree("invalid", 0)
  BY RowsOfControl
<1>3. Agree("ldi", 0) /\ Agree("ldw", 0) /\ Agree("ldb", 0) /\ Agree("stw", 0)
  BY RowsOfAccesses
<1>4. Agree("stb", 0) /\ Agree("ldi_p", 0)
  BY RowsOfAccesses
<1>5. Agree("add_p", 0) /\ Agree("addsp_p", 0) /\ Agree("alu3", 0)
  BY RowsOfSums
<1>6. Agree("br_abs", 0) /\ Agree("br_rel", 0) /\ Agree("br_nop", 0)
  BY RowsOfBranches
<1>7. Agree("pupc", 0) /\ Agree("pupc", 1) /\ Agree("pusp", 0) /\ Agree("pusp", 1)
  BY RowsOfPushes1
<1>8. Agree("pups", 0) /\ Agree("pups", 1) /\ Agree("push", 0) /\ Agree("push", 1)
  BY RowsOfPushes2
<1>9. Agree("push_p", 0) /\ Agree("push_p", 1) /\ Agree("posp", 0) /\ Agree("posp", 1)
  BY RowsOfPushes3
<1>10. Agree("popc", 0) /\ Agree("popc", 1) /\ Agree("pops", 0) /\ Agree("pops", 1)
  BY RowsOfPops1
<1>11. Agree("pop", 0) /\ Agree("pop", 1) /\ Agree("addsp", 0) /\ Agree("addsp", 1)
  BY RowsOfPops2
<1>12. Agree("ldsp", 0) /\ Agree("ldsp", 1) /\ Agree("stsp", 0) /\ Agree("stsp", 1)
  BY RowsOfMoves1
<1>13. Agree("ldps", 0) /\ Agree("ldps", 1) /\ Agree("stps", 0) /\ Agree("stps", 1)
  BY RowsOfMoves2
<1>14. Agree("ldpc", 0) /\ Agree("ldpc", 1) /\ Agree("stpc", 0) /\ Agree("stpc", 1)
  BY RowsOfMoves3
<1>15. Agree("move", 0) /\ Agree("move", 1)
  BY RowsOfMoves4
<1>16. Agree("jsr", 0) /\ Agree("jsr", 1) /\ Agree("jsr", 2)
  BY RowsOfJsr
<1>17. Agree("jsrr", 0) /\ Agree("jsrr", 1) /\ Agree("jsrr", 2)
  BY RowsOfJsrr
<1>18. Agree("jsr_rel", 0) /\ Agree("jsr_rel", 1) /\ Agree("jsr_rel", 2)
  BY RowsOfJsrRel
<1>19. Agree("rti", 0) /\ Agree("rti", 1) /\ Agree("rti", 2) /\ Agree("rti", 3)
  BY RowsOfRti
<1>20. Agree("reset", 0) /\ Agree("reset", 1) /\ Agree("reset", 2)
  BY RowsOfReset
<1>21. Agree("int", 0) /\ Agree("int", 1)
  BY RowsOfInt1
<1>22. Agree("int", 2) /\ Agree("int", 3)
  BY RowsOfInt2
<1>23. Agree("int", 4) /\ Agree("int", 5)
  BY RowsOfInt3
<1> HIDE DEF Agree
<1> QED
  BY <1>1, <1>2, <1>3, <1>4, <1>5, <1>6, <1>7, <1>8, <1>9, <1>10, <1>11, <1>12, <1>13, <1>14, <1>15, <1>16, <1>17, <1>18, <1>19, <1>20, <1>21, <1>22, <1>23

\* An operation has no more phases than the tables have rows for it.
LEMMA Tables ==
    ASSUME NEW op \in Operations, op # "fetch", NEW ph \in Nat, ph <= LastExc(op)
    PROVE  Agree(op, ph)
<1>1. op \in {"halt", "wait", "ei", "di", "invalid", "ldi", "ldw", "ldb",
            "stw", "stb", "ldi_p", "add_p", "addsp_p", "alu3", "br_abs", "br_rel",
            "br_nop", "pupc", "pusp", "pups", "push", "push_p", "posp", "popc",
            "pops", "pop", "addsp", "ldsp", "stsp", "ldps", "stps", "ldpc",
            "stpc", "move", "jsr", "jsrr", "jsr_rel", "rti", "reset", "int"}
  BY DEF Operations, Main
<1>2. /\ ph \in 0 .. 5 /\ (op # "int" => ph <= 3) /\ (op \notin {"int", "rti"} => ph <= 2)
      /\ op \notin Calls \cup {"int", "rti", "reset"} => ph <= 1
  BY DEF LastExc, Calls
<1>3. op \in {"halt", "wait", "ei", "di", "invalid", "ldi", "ldw", "ldb", "stw", "stb", "ldi_p", "add_p", "addsp_p", "alu3", "br_abs", "br_rel", "br_nop"} => ph = 0
  BY DEF LastExc, Calls, Pushing, Popping, Setting
<1> QED
  BY <1>1, <1>2, <1>3, RowsAgree DEF Calls

-------------------------------------------------------------------------------
(* What a phase does.                                                         *)

\* The two modules agree on numbers, words and memory.
LEMMA SameOperators ==
    /\ Machine!InterruptBit = InterruptBit
    /\ \A a : Machine!rom(a) = rom(a)
    /\ \A a, b : Machine!Plus(a, b) = Plus(a, b) /\ Machine!Minus(a, b) = Minus(a, b)
    /\ \A r, a : Machine!At(r, a) = At(r, a)
    /\ \A r, a, v : Machine!StoreByte(r, a, v) = StoreByte(r, a, v)
    /\ \A r, a : Machine!Load(r, a) = Load(r, a)
    /\ \A r, a, v : Machine!Store(r, a, v) = Store(r, a, v)
    /\ \A c : Machine!Carry(c) <=> Carry(c.ps)
<1>1. /\ Machine!InterruptBit = InterruptBit
      /\ \A a : Machine!rom(a) = rom(a)
      /\ \A a, b : Machine!Plus(a, b) = Plus(a, b) /\ Machine!Minus(a, b) = Minus(a, b)
      /\ \A c : Machine!Carry(c) <=> Carry(c.ps)
  BY DEF Machine!InterruptBit, InterruptBit, Machine!rom, rom, Machine!Plus, Plus,
         Machine!Minus, Minus, Machine!Carry, Carry
<1>2. /\ \A r, a : Machine!At(r, a) = At(r, a)
      /\ \A r, a, v : Machine!StoreByte(r, a, v) = StoreByte(r, a, v)
  BY DEF Machine!At, At, Machine!StoreByte, StoreByte
<1>3. \A r, a : Machine!Load(r, a) = Load(r, a)
  BY <1>1, <1>2 DEF Machine!Load, Load
<1>4. \A r, a, v : Machine!Store(r, a, v) = Store(r, a, v)
  BY <1>1, <1>2 DEF Machine!Store, Store
<1> QED
  BY <1>1, <1>2, <1>3, <1>4

\* A word is not cut.
LEMMA OfWord ==
    ASSUME NEW a \in Word
    PROVE  a % WordSize = a /\ a \in Nat /\ a < WordSize
BY Sizes DEF Word

\* What is on the buses when one of them is not driven.
LEMMA OneBus ==
    ASSUME TypeInv, NEW s, ~CarryIn(s)
    PROVE  /\ Bus1(s) = 0 =>
                Datapath(s) = [address |-> Bus0(s), data |-> BusD(s, Bus0(s)), flags |-> 0]
           /\ Bus0(s) = 0 =>
                Datapath(s) = [address |-> Bus1(s), data |-> BusD(s, Bus1(s)), flags |-> 0]
<1>1. /\ Bus0(s) \in Nat /\ Bus1(s) \in Nat /\ WordSize \in Nat
      /\ Bus0(s) < WordSize /\ Bus1(s) < WordSize
      /\ Bus0(s) % WordSize = Bus0(s) /\ Bus1(s) % WordSize = Bus1(s)
  BY Buses, OfWord, Sizes
<1>2. Sum(s) = Bus0(s) + Bus1(s)
  BY <1>1 DEF Sum
<1>3. /\ Bus1(s) = 0 => Sum(s) = Bus0(s)
      /\ Bus0(s) = 0 => Sum(s) = Bus1(s)
      /\ ~(Bus0(s) >= WordSize) /\ ~(Bus1(s) >= WordSize)
  BY <1>1, <1>2
<1> QED
  BY <1>1, <1>3 DEF Datapath

\* The row m leaves what t is, beside what b is of the rest; e is the exception unit.
Does(m, e, b, t) ==
    /\ Registered(m, e, Datapath(m)) = t.cpu
    /\ RamWritten(m, Datapath(m)) = t.ram
    /\ t = View(t.cpu, t.ram, b.pending, b.startup)

\* Pushing.
LEMMA PushesDone ==
    ASSUME TypeInv, ~ctl.fetch, ctl.phase = 0, ~ctl.incAddress, Even(cpu.pc), Even(cpu.sp),
           ctl.ir.num \in Word, NEW e, ~e.triggered, NEW q, NEW u,
           Op \in {"pupc", "pusp", "pups", "push", "push_p"}
    PROVE  LET b == View(cpu, ram, q, u) IN
           Does(MainRow(Op, 0), e, b, Machine!Effect(ctl.ir, b))
<1> DEFINE m == MainRow(Op, 0)
           b == View(cpu, ram, q, u)
           t == Machine!Effect(ctl.ir, b)
           a == Minus(cpu.sp, 2)
<1>0. /\ cpu = [pc |-> cpu.pc, sp |-> cpu.sp, ps |-> cpu.ps, regs |-> cpu.regs]
      /\ a \in Word /\ cpu.sp \in Word /\ a % 2 = 0
  BY PlusMinus, EvenSteps DEF TypeInv, CpuTypes, Even
<1>1. CASE Op = "pupc"
  <2>1. m = {"mem", "data", "word", "sp_asrt0", "sp_dec", "pc_asrtD", "cut"} /\ ctl.ir.op = "pupc"
    BY <1>1, <1>0, RowsOfPushes1 DEF Op, Decode
  <2>2. Datapath(m) = [address |-> a, data |-> cpu.pc, flags |-> 0]
    BY <1>1, <1>0, <2>1, OneBus DEF Bus0, Bus1, SpOut, CarryIn, BusD
  <2>3. t = View([cpu EXCEPT !.sp = a], Store(ram, a, cpu.pc), q, u)
    BY <1>0, <2>1, SameOperators DEF View, Machine!Effect, Machine!Push
  <2> QED
    BY <1>1, <1>0, <2>1, <2>2, <2>3 DEF Does, View, Registered, BrRelNop, RamWritten, WordAccess
<1>2. CASE Op = "pusp"
  <2>1. m = {"mem", "data", "word", "sp_asrt0", "sp_dec", "sp_asrtD", "cut"} /\ ctl.ir.op = "pusp"
    BY <1>2, <1>0, RowsOfPushes1 DEF Op, Decode
  <2>2. Datapath(m) = [address |-> a, data |-> a, flags |-> 0]
    BY <1>2, <1>0, <2>1, OneBus DEF Bus0, Bus1, SpOut, CarryIn, BusD
  <2>3. t = View([cpu EXCEPT !.sp = a], Store(ram, a, a), q, u)
    BY <1>0, <2>1, SameOperators DEF View, Machine!Effect, Machine!Push
  <2> QED
    BY <1>2, <1>0, <2>1, <2>2, <2>3 DEF Does, View, Registered, BrRelNop, RamWritten, WordAccess
<1>3. CASE Op = "pups"
  <2>1. m = {"mem", "data", "word", "sp_asrt0", "sp_dec", "ps_asrtD", "cut"} /\ ctl.ir.op = "pups"
    BY <1>3, <1>0, RowsOfPushes2 DEF Op, Decode
  <2>2. Datapath(m) = [address |-> a, data |-> cpu.ps, flags |-> 0]
    BY <1>3, <1>0, <2>1, OneBus DEF Bus0, Bus1, SpOut, CarryIn, BusD
  <2>3. t = View([cpu EXCEPT !.sp = a], Store(ram, a, cpu.ps), q, u)
    BY <1>0, <2>1, SameOperators DEF View, Machine!Effect, Machine!Push
  <2> QED
    BY <1>3, <1>0, <2>1, <2>2, <2>3 DEF Does, View, Registered, BrRelNop, RamWritten, WordAccess
<1>4. CASE Op = "push"
  <2>1. m = {"mem", "data", "word", "sp_asrt0", "sp_dec", "r_asrtD", "cut"} /\ ctl.ir.op = "push"
    BY <1>4, <1>0, RowsOfPushes2 DEF Op, Decode
  <2>2. Datapath(m) = [address |-> a, data |-> cpu.regs[ctl.ir.rd], flags |-> 0]
    BY <1>4, <1>0, <2>1, OneBus DEF Bus0, Bus1, SpOut, CarryIn, BusD
  <2>3. t = View([cpu EXCEPT !.sp = a], Store(ram, a, cpu.regs[ctl.ir.rd]), q, u)
    BY <1>0, <2>1, SameOperators DEF View, Machine!Effect, Machine!Push
  <2> QED
    BY <1>4, <1>0, <2>1, <2>2, <2>3 DEF Does, View, Registered, BrRelNop, RamWritten, WordAccess
<1>5. CASE Op = "push_p"
  <2>1. m = {"mem", "data", "word", "sp_asrt0", "sp_dec", "imm_asrtD", "cut"} /\ ctl.ir.op = "push_p"
    BY <1>5, <1>0, RowsOfPushes3 DEF Op, Decode
  <2>2. Datapath(m) = [address |-> a, data |-> ctl.ir.num, flags |-> 0]
    BY <1>5, <1>0, <2>1, OneBus, OfWord DEF Bus0, Bus1, SpOut, CarryIn, BusD, Imm, IntInstruction
  <2>3. t = View([cpu EXCEPT !.sp = a], Store(ram, a, ctl.ir.num), q, u)
    BY <1>0, <2>1, SameOperators, OfWord DEF View, Machine!Effect, Machine!Push
  <2> QED
    BY <1>5, <1>0, <2>1, <2>2, <2>3 DEF Does, View, Registered, BrRelNop, RamWritten, WordAccess
<1> QED
  BY <1>1, <1>2, <1>3, <1>4, <1>5

\* Popping.
LEMMA PopsDone ==
    ASSUME TypeInv, ~ctl.fetch, ctl.phase = 0, ~ctl.incAddress, Even(cpu.pc), Even(cpu.sp),
           ctl.ir.num \in Word, NEW e, ~e.triggered, NEW q, NEW u,
           Op \in {"popc", "pops", "pop", "posp"}
    PROVE  LET b == View(cpu, ram, q, u) IN
           Does(MainRow(Op, 0), e, b, Machine!Effect(ctl.ir, b))
<1> DEFINE m == MainRow(Op, 0)
           b == View(cpu, ram, q, u)
           t == Machine!Effect(ctl.ir, b)
<1>0. /\ cpu = [pc |-> cpu.pc, sp |-> cpu.sp, ps |-> cpu.ps, regs |-> cpu.regs]
      /\ cpu.sp \in Word /\ cpu.sp % 2 = 0
  BY DEF TypeInv, CpuTypes, Even
<1>1. CASE Op = "popc"
  <2>1. m = {"mem", "data", "word", "read", "sp_asrt0", "pc_latch", "sp_inc", "cut"} /\ ctl.ir.op = "popc"
    BY <1>1, <1>0, RowsOfPops1 DEF Op, Decode
  <2>2. Datapath(m) = [address |-> cpu.sp, data |-> Load(ram, cpu.sp), flags |-> 0]
    BY <1>1, <1>0, <2>1, OneBus DEF Bus0, Bus1, SpOut, CarryIn, BusD, FromMemory, DataIn, WordAccess
  <2>3. t = View([pc |-> Load(ram, cpu.sp), sp |-> Plus(cpu.sp, 2), ps |-> cpu.ps, regs |-> cpu.regs], ram, q, u)
    BY <1>0, <2>1, SameOperators DEF View, Machine!Effect, Machine!Pop, Machine!Goto, Machine!Top
  <2> QED
    BY <1>1, <1>0, <2>1, <2>2, <2>3 DEF Does, View, Registered, BrRelNop, RamWritten
<1>2. CASE Op = "pops"
  <2>1. m = {"mem", "data", "word", "read", "sp_asrt0", "ps_latch_word", "sp_inc", "cut"} /\ ctl.ir.op = "pops"
    BY <1>2, <1>0, RowsOfPops1 DEF Op, Decode
  <2>2. Datapath(m) = [address |-> cpu.sp, data |-> Load(ram, cpu.sp), flags |-> 0]
    BY <1>2, <1>0, <2>1, OneBus DEF Bus0, Bus1, SpOut, CarryIn, BusD, FromMemory, DataIn, WordAccess
  <2>3. t = View([pc |-> cpu.pc, sp |-> Plus(cpu.sp, 2), ps |-> Load(ram, cpu.sp), regs |-> cpu.regs], ram, q, u)
    BY <1>0, <2>1, SameOperators DEF View, Machine!Effect, Machine!Pop, Machine!SetPs, Machine!Top
  <2> QED
    BY <1>2, <1>0, <2>1, <2>2, <2>3 DEF Does, View, Registered, BrRelNop, RamWritten
<1>3. CASE Op = "pop"
  <2>1. m = {"mem", "data", "word", "read", "sp_asrt0", "r_latch", "sp_inc", "cut"} /\ ctl.ir.op = "pop"
    BY <1>3, <1>0, RowsOfPops2 DEF Op, Decode
  <2>2. Datapath(m) = [address |-> cpu.sp, data |-> Load(ram, cpu.sp), flags |-> 0]
    BY <1>3, <1>0, <2>1, OneBus DEF Bus0, Bus1, SpOut, CarryIn, BusD, FromMemory, DataIn, WordAccess
  <2>3. t = View([pc |-> cpu.pc, sp |-> Plus(cpu.sp, 2), ps |-> cpu.ps, regs |-> [cpu.regs EXCEPT ![ctl.ir.rd] = Load(ram, cpu.sp)]], ram, q, u)
    BY <1>0, <2>1, SameOperators DEF View, Machine!Effect, Machine!Pop, Machine!SetReg, Machine!Top
  <2> QED
    BY <1>3, <1>0, <2>1, <2>2, <2>3 DEF Does, View, Registered, BrRelNop, RamWritten
<1>4. CASE Op = "posp"
  <2>1. m = {"mem", "data", "word", "read", "sp_asrt0", "sp_latch", "cut"} /\ ctl.ir.op = "posp"
    BY <1>4, <1>0, RowsOfPushes3 DEF Op, Decode
  <2>2. Datapath(m) = [address |-> cpu.sp, data |-> Load(ram, cpu.sp), flags |-> 0]
    BY <1>4, <1>0, <2>1, OneBus DEF Bus0, Bus1, SpOut, CarryIn, BusD, FromMemory, DataIn, WordAccess
  <2>3. t = View([cpu EXCEPT !.sp = Load(ram, cpu.sp)], ram, q, u)
    BY <1>0, <2>1, SameOperators DEF View, Machine!Effect, Machine!SetSp, Machine!Top
  <2> QED
    BY <1>4, <1>0, <2>1, <2>2, <2>3 DEF Does, View, Registered, BrRelNop, RamWritten
<1> QED
  BY <1>1, <1>2, <1>3, <1>4

\* From one register to another.
LEMMA MovesDone ==
    ASSUME TypeInv, ~ctl.fetch, ctl.phase = 0, ~ctl.incAddress, Even(cpu.pc), Even(cpu.sp),
           ctl.ir.num \in Word, NEW e, ~e.triggered, NEW q, NEW u,
           Op \in {"ldsp", "stsp", "ldps", "stps", "ldpc", "stpc", "ldi_p"}
    PROVE  LET b == View(cpu, ram, q, u) IN
           Does(MainRow(Op, 0), e, b, Machine!Effect(ctl.ir, b))
<1> DEFINE m == MainRow(Op, 0)
           b == View(cpu, ram, q, u)
           t == Machine!Effect(ctl.ir, b)
<1>0. /\ cpu = [pc |-> cpu.pc, sp |-> cpu.sp, ps |-> cpu.ps, regs |-> cpu.regs]
  BY DEF TypeInv, CpuTypes
<1>1. CASE Op = "ldsp"
  <2>1. m = {"sp_asrtD", "r_latch", "cut"} /\ ctl.ir.op = "ldsp"
    BY <1>1, <1>0, RowsOfMoves1 DEF Op, Decode
  <2>2. Datapath(m) = [address |-> 0, data |-> cpu.sp, flags |-> 0]
    BY <1>1, <1>0, <2>1, OneBus DEF Bus0, Bus1, SpOut, CarryIn, BusD
  <2>3. t = View([cpu EXCEPT !.regs = [@ EXCEPT ![ctl.ir.rd] = cpu.sp]], ram, q, u)
    BY <1>0, <2>1, SameOperators DEF View, Machine!Effect, Machine!SetReg
  <2> QED
    BY <1>1, <1>0, <2>1, <2>2, <2>3 DEF Does, View, Registered, BrRelNop, RamWritten
<1>2. CASE Op = "stsp"
  <2>1. m = {"sp_latch", "r_asrtD", "cut"} /\ ctl.ir.op = "stsp"
    BY <1>2, <1>0, RowsOfMoves1 DEF Op, Decode
  <2>2. Datapath(m) = [address |-> 0, data |-> cpu.regs[ctl.ir.rd], flags |-> 0]
    BY <1>2, <1>0, <2>1, OneBus DEF Bus0, Bus1, SpOut, CarryIn, BusD
  <2>3. t = View([cpu EXCEPT !.sp = cpu.regs[ctl.ir.rd]], ram, q, u)
    BY <1>0, <2>1, SameOperators DEF View, Machine!Effect, Machine!SetSp
  <2> QED
    BY <1>2, <1>0, <2>1, <2>2, <2>3 DEF Does, View, Registered, BrRelNop, RamWritten
<1>3. CASE Op = "ldps"
  <2>1. m = {"ps_asrtD", "r_latch", "cut"} /\ ctl.ir.op = "ldps"
    BY <1>3, <1>0, RowsOfMoves2 DEF Op, Decode
  <2>2. Datapath(m) = [address |-> 0, data |-> cpu.ps, flags |-> 0]
    BY <1>3, <1>0, <2>1, OneBus DEF Bus0, Bus1, SpOut, CarryIn, BusD
  <2>3. t = View([cpu EXCEPT !.regs = [@ EXCEPT ![ctl.ir.rd] = cpu.ps]], ram, q, u)
    BY <1>0, <2>1, SameOperators DEF View, Machine!Effect, Machine!SetReg
  <2> QED
    BY <1>3, <1>0, <2>1, <2>2, <2>3 DEF Does, View, Registered, BrRelNop, RamWritten
<1>4. CASE Op = "stps"
  <2>1. m = {"ps_latch_word", "r_asrtD", "cut"} /\ ctl.ir.op = "stps"
    BY <1>4, <1>0, RowsOfMoves2 DEF Op, Decode
  <2>2. Datapath(m) = [address |-> 0, data |-> cpu.regs[ctl.ir.rd], flags |-> 0]
    BY <1>4, <1>0, <2>1, OneBus DEF Bus0, Bus1, SpOut, CarryIn, BusD
  <2>3. t = View([cpu EXCEPT !.ps = cpu.regs[ctl.ir.rd]], ram, q, u)
    BY <1>0, <2>1, SameOperators DEF View, Machine!Effect, Machine!SetPs
  <2> QED
    BY <1>4, <1>0, <2>1, <2>2, <2>3 DEF Does, View, Registered, BrRelNop, RamWritten
<1>5. CASE Op = "ldpc"
  <2>1. m = {"pc_asrtD", "r_latch", "cut"} /\ ctl.ir.op = "ldpc"
    BY <1>5, <1>0, RowsOfMoves3 DEF Op, Decode
  <2>2. Datapath(m) = [address |-> 0, data |-> cpu.pc, flags |-> 0]
    BY <1>5, <1>0, <2>1, OneBus DEF Bus0, Bus1, SpOut, CarryIn, BusD
  <2>3. t = View([cpu EXCEPT !.regs = [@ EXCEPT ![ctl.ir.rd] = cpu.pc]], ram, q, u)
    BY <1>0, <2>1, SameOperators DEF View, Machine!Effect, Machine!SetReg
  <2> QED
    BY <1>5, <1>0, <2>1, <2>2, <2>3 DEF Does, View, Registered, BrRelNop, RamWritten
<1>6. CASE Op = "stpc"
  <2>1. m = {"pc_latch", "r_asrtD", "cut"} /\ ctl.ir.op = "stpc"
    BY <1>6, <1>0, RowsOfMoves3 DEF Op, Decode
  <2>2. Datapath(m) = [address |-> 0, data |-> cpu.regs[ctl.ir.rd], flags |-> 0]
    BY <1>6, <1>0, <2>1, OneBus DEF Bus0, Bus1, SpOut, CarryIn, BusD
  <2>3. t = View([cpu EXCEPT !.pc = cpu.regs[ctl.ir.rd]], ram, q, u)
    BY <1>0, <2>1, SameOperators DEF View, Machine!Effect, Machine!Goto
  <2> QED
    BY <1>6, <1>0, <2>1, <2>2, <2>3 DEF Does, View, Registered, BrRelNop, RamWritten
<1>7. CASE Op = "ldi_p"
  <2>1. m = {"r_latch", "imm_asrtD", "cut"} /\ ctl.ir.op = "ldi_p"
    BY <1>7, <1>0, RowsOfAccesses DEF Op, Decode
  <2>2. Datapath(m) = [address |-> 0, data |-> ctl.ir.num, flags |-> 0]
    BY <1>7, <1>0, <2>1, OneBus, OfWord DEF Bus0, Bus1, SpOut, CarryIn, BusD, Imm, IntInstruction
  <2>3. t = View([cpu EXCEPT !.regs = [@ EXCEPT ![ctl.ir.rd] = ctl.ir.num]], ram, q, u)
    BY <1>0, <2>1, SameOperators, OfWord DEF View, Machine!Effect, Machine!SetReg
  <2> QED
    BY <1>7, <1>0, <2>1, <2>2, <2>3 DEF Does, View, Registered, BrRelNop, RamWritten
<1> QED
  BY <1>1, <1>2, <1>3, <1>4, <1>5, <1>6, <1>7

\* Loading and storing, at once.
LEMMA AccessesDone ==
    ASSUME TypeInv, ~ctl.fetch, ctl.phase = 0, ~ctl.incAddress, Even(cpu.pc), Even(cpu.sp),
           ctl.ir.num \in Word, NEW e, ~e.triggered, NEW q, NEW u,
           Op \in {"ldi", "ldw", "ldb", "stw", "stb"},
           Op \in {"ldw", "stw"} => Even(cpu.regs[ctl.ir.rs])
    PROVE  LET b == View(cpu, ram, q, u) IN
           Does(MainRow(Op, 0), e, b, Machine!Effect(ctl.ir, b))
<1> DEFINE m == MainRow(Op, 0)
           b == View(cpu, ram, q, u)
           t == Machine!Effect(ctl.ir, b)
<1>0. /\ cpu = [pc |-> cpu.pc, sp |-> cpu.sp, ps |-> cpu.ps, regs |-> cpu.regs]
      /\ cpu.pc \in Word /\ cpu.pc % 2 = 0
      /\ Op \in {"ldw", "stw"} => cpu.regs[ctl.ir.rs] % 2 = 0
  BY DEF TypeInv, CpuTypes, Even
<1>1. CASE Op = "ldi"
  <2>1. m = {"mem", "word", "read", "pc_asrt0", "r_latch", "pc_inc", "cut"} /\ ctl.ir.op = "ldi"
    BY <1>1, <1>0, RowsOfAccesses DEF Op, Decode
  <2>2. Datapath(m) = [address |-> cpu.pc, data |-> rom(cpu.pc).num, flags |-> 0]
    BY <1>1, <1>0, <2>1, OneBus DEF Bus0, Bus1, SpOut, CarryIn, BusD, FromMemory, DataIn, WordAccess
  <2>3. t = View([pc |-> Plus(cpu.pc, 2), sp |-> cpu.sp, ps |-> cpu.ps,
               regs |-> [cpu.regs EXCEPT ![ctl.ir.rd] = rom(cpu.pc).num]], ram, q, u)
    BY <1>0, <2>1, SameOperators DEF View, Machine!Effect, Machine!SetReg, Machine!Goto
  <2> QED
    BY <1>1, <1>0, <2>1, <2>2, <2>3 DEF Does, View, Registered, BrRelNop, RamWritten
<1>2. CASE Op = "ldw"
  <2>1. m = {"mem", "data", "word", "read", "r_asrt0", "r_latch", "cut"} /\ ctl.ir.op = "ldw"
    BY <1>2, <1>0, RowsOfAccesses DEF Op, Decode
  <2>2. Datapath(m) = [address |-> cpu.regs[ctl.ir.rs], data |-> Load(ram, cpu.regs[ctl.ir.rs]), flags |-> 0]
    BY <1>2, <1>0, <2>1, OneBus DEF Bus0, Bus1, SpOut, CarryIn, BusD, FromMemory, DataIn, WordAccess
  <2>3. t = View([cpu EXCEPT !.regs = [@ EXCEPT ![ctl.ir.rd] = Load(ram, cpu.regs[ctl.ir.rs])]], ram, q, u)
    BY <1>0, <2>1, SameOperators DEF View, Machine!Effect, Machine!SetReg
  <2> QED
    BY <1>2, <1>0, <2>1, <2>2, <2>3 DEF Does, View, Registered, BrRelNop, RamWritten
<1>3. CASE Op = "ldb"
  <2>1. m = {"mem", "data", "read", "r_asrt0", "r_latch", "cut"} /\ ctl.ir.op = "ldb"
    BY <1>3, <1>0, RowsOfAccesses DEF Op, Decode
  <2>2. Datapath(m) = [address |-> cpu.regs[ctl.ir.rs], data |-> At(ram, cpu.regs[ctl.ir.rs]), flags |-> 0]
    BY <1>3, <1>0, <2>1, OneBus DEF Bus0, Bus1, SpOut, CarryIn, BusD, FromMemory, DataIn, WordAccess
  <2>3. t = View([cpu EXCEPT !.regs = [@ EXCEPT ![ctl.ir.rd] = At(ram, cpu.regs[ctl.ir.rs])]], ram, q, u)
    BY <1>0, <2>1, SameOperators DEF View, Machine!Effect, Machine!SetReg
  <2> QED
    BY <1>3, <1>0, <2>1, <2>2, <2>3 DEF Does, View, Registered, BrRelNop, RamWritten
<1>4. CASE Op = "stw"
  <2>1. m = {"mem", "data", "word", "r_asrt0", "r_asrtD", "cut"} /\ ctl.ir.op = "stw"
    BY <1>4, <1>0, RowsOfAccesses DEF Op, Decode
  <2>2. Datapath(m) = [address |-> cpu.regs[ctl.ir.rs], data |-> cpu.regs[ctl.ir.rd], flags |-> 0]
    BY <1>4, <1>0, <2>1, OneBus DEF Bus0, Bus1, SpOut, CarryIn, BusD
  <2>3. t = View(cpu, Store(ram, cpu.regs[ctl.ir.rs], cpu.regs[ctl.ir.rd]), q, u)
    BY <1>0, <2>1, SameOperators DEF View, Machine!Effect
  <2> QED
    BY <1>4, <1>0, <2>1, <2>2, <2>3 DEF Does, View, Registered, BrRelNop, RamWritten, WordAccess
<1>5. CASE Op = "stb"
  <2>1. m = {"mem", "data", "r_asrt0", "r_asrtD", "cut"} /\ ctl.ir.op = "stb"
    BY <1>5, <1>0, RowsOfAccesses DEF Op, Decode
  <2>2. Datapath(m) = [address |-> cpu.regs[ctl.ir.rs], data |-> cpu.regs[ctl.ir.rd], flags |-> 0]
    BY <1>5, <1>0, <2>1, OneBus DEF Bus0, Bus1, SpOut, CarryIn, BusD
  <2>3. t = View(cpu, StoreByte(ram, cpu.regs[ctl.ir.rs], cpu.regs[ctl.ir.rd]), q, u)
    BY <1>0, <2>1, SameOperators DEF View, Machine!Effect
  <2> QED
    BY <1>5, <1>0, <2>1, <2>2, <2>3 DEF Does, View, Registered, BrRelNop, RamWritten, WordAccess
<1> QED
  BY <1>1, <1>2, <1>3, <1>4, <1>5

\* Adding to a register in the width of a word.
LEMMA SumsOfBuses ==
    ASSUME TypeInv, NEW s, NEW a \in Word, NEW n \in Nat, "alu_asrtD" \in s, "read" \notin s,
           "r_asrtD" \notin s, "imm_asrtD" \notin s, "sp_asrtD" \notin s, "pc_asrtD" \notin s,
           "ps_asrtD" \notin s, ~CarryIn(s), Bus0(s) = a, Bus1(s) = n % WordSize
    PROVE  Datapath(s).data = Plus(a, n)
<1>1. a \in Nat /\ n % WordSize \in Nat
  BY Sizes, ModWord
<1>2. Sum(s) = a + (n % WordSize)
  BY <1>1 DEF Sum
<1>3. Sum(s) % WordSize = Plus(a, n)
  BY <1>1, <1>2, RestOfRest DEF Plus
<1> QED
  BY <1>3 DEF Datapath, BusD

\* Control.
LEMMA ControlDone ==
    ASSUME TypeInv, ~ctl.fetch, ctl.phase = 0, ~ctl.incAddress, Even(cpu.pc), Even(cpu.sp),
           ctl.ir.num \in Word, NEW e, ~e.triggered, NEW q, NEW u,
           Op \in {"halt", "wait", "ei", "di", "invalid"}
    PROVE  LET b == View(cpu, ram, q, u) IN
           Does(MainRow(Op, 0), e, b, Machine!Effect(ctl.ir, b))
<1> DEFINE m == MainRow(Op, 0)
           b == View(cpu, ram, q, u)
           t == Machine!Effect(ctl.ir, b)
<1>0. cpu = [pc |-> cpu.pc, sp |-> cpu.sp, ps |-> cpu.ps, regs |-> cpu.regs]
  BY DEF TypeInv, CpuTypes
<1>p. cpu.ps % InterruptBit \in Nat
  <2>1. cpu.ps \in Nat
    BY Sizes DEF TypeInv, CpuTypes
  <2>2. InterruptBit \in Nat \ {0}
    BY Sizes DEF InterruptBit
  <2> QED
    BY <2>1, <2>2
<1>1. CASE Op = "halt"
  <2>1. m = {"word", "cut"} /\ ctl.ir.op = "halt"
    BY <1>1, <1>0, RowsOfControl DEF Op, Decode
  <2>3. t = View(cpu, ram, q, u)
    BY <1>0, <2>1, SameOperators DEF View, Machine!Effect
  <2> QED
    BY <1>1, <1>0, <2>1, <2>3 DEF Does, View, Registered, BrRelNop, RamWritten
<1>2. CASE Op = "wait"
  <2>1. m = {"word", "cut"} /\ ctl.ir.op = "wait"
    BY <1>2, <1>0, RowsOfControl DEF Op, Decode
  <2>3. t = View(cpu, ram, q, u)
    BY <1>0, <2>1, SameOperators DEF View, Machine!Effect
  <2> QED
    BY <1>2, <1>0, <2>1, <2>3 DEF Does, View, Registered, BrRelNop, RamWritten
<1>3. CASE Op = "ei"
  <2>1. m = {"word", "cut"} /\ ctl.ir.op = "ei"
    BY <1>3, <1>0, RowsOfControl DEF Op, Decode
  <2>3. t = View([cpu EXCEPT !.ps = SetInterrupt(cpu.ps, TRUE)], ram, q, u)
    BY <1>0, <2>1, SameOperators, <1>p DEF View, Machine!Effect, Machine!SetPs, SetInterrupt
  <2> QED
    BY <1>3, <1>0, <2>1, <2>3 DEF Does, View, Registered, BrRelNop, RamWritten, SetInterrupt
<1>4. CASE Op = "di"
  <2>1. m = {"word", "cut"} /\ ctl.ir.op = "di"
    BY <1>4, <1>0, RowsOfControl DEF Op, Decode
  <2>3. t = View([cpu EXCEPT !.ps = SetInterrupt(cpu.ps, FALSE)], ram, q, u)
    BY <1>0, <2>1, SameOperators, <1>p DEF View, Machine!Effect, Machine!SetPs, SetInterrupt
  <2> QED
    BY <1>4, <1>0, <2>1, <2>3 DEF Does, View, Registered, BrRelNop, RamWritten, SetInterrupt
<1>5. CASE Op = "invalid"
  <2>1. m = {} /\ ctl.ir.op = "invalid"
    BY <1>5, <1>0, RowsOfControl DEF Op, Decode
  <2>3. t = View(cpu, ram, q, u)
    BY <1>0, <2>1, SameOperators DEF View, Machine!Effect
  <2> QED
    BY <1>5, <1>0, <2>1, <2>3 DEF Does, View, Registered, BrRelNop, RamWritten
<1> QED
  BY <1>1, <1>2, <1>3, <1>4, <1>5

\* Branches.
LEMMA BranchesDone ==
    ASSUME TypeInv, ~ctl.fetch, ctl.phase = 0, ~ctl.incAddress, Even(cpu.pc), Even(cpu.sp),
           ctl.ir.num \in Word, NEW e, ~e.triggered, NEW q, NEW u,
           Op \in {"br_abs", "br_rel", "br_nop"}
    PROVE  LET b == View(cpu, ram, q, u) IN
           Does(MainRow(Op, 0), e, b, Machine!Effect(ctl.ir, b))
<1> DEFINE m == MainRow(Op, 0)
           b == View(cpu, ram, q, u)
           t == Machine!Effect(ctl.ir, b)
<1>0. cpu = [pc |-> cpu.pc, sp |-> cpu.sp, ps |-> cpu.ps, regs |-> cpu.regs]
  BY DEF TypeInv, CpuTypes
<1>i. ctl.ir.op \notin {"br_abs", "br_rel", "br_nop"}
  BY DEF TypeInv, CtlTypes, Instructions, Opcodes
<1>n. ctl.ir.num \in Nat
  BY Sizes
<1>t. cpu.pc \in Word /\ cpu.pc % 2 = 0 /\ 2 * ctl.ir.num \in Nat
  BY <1>n DEF TypeInv, CpuTypes, Even
<1>1. CASE Op = "br_abs"
  <2>1. m = {"mem", "word", "read", "pc_asrt0", "pc_latch", "cut"} /\ ctl.ir.op = "bcs_abs" /\ Carry(cpu.ps)
    BY <1>1, <1>0, RowsOfBranches, <1>i DEF Op, Decode
  <2>2. Datapath(m) = [address |-> cpu.pc, data |-> rom(cpu.pc).num, flags |-> 0]
    BY <1>1, <1>0, <1>t, <2>1, OneBus DEF Bus0, Bus1, CarryIn, BusD, FromMemory, DataIn
  <2>3. t = View([cpu EXCEPT !.pc = rom(cpu.pc).num], ram, q, u)
    BY <1>0, <2>1, <1>1, SameOperators DEF View, Machine!Effect, Machine!Goto
  <2> QED
    BY <1>1, <1>0, <2>1, <2>2, <2>3 DEF Does, View, Registered, BrRelNop, RamWritten
<1>2. CASE Op = "br_rel"
  <2>1. m = {"pc_asrt0", "imm_asrt1", "imm_shift", "alu_asrtD", "pc_latch", "cut"} /\ ctl.ir.op = "bcs_rel" /\ Carry(cpu.ps)
    BY <1>2, <1>0, RowsOfBranches, <1>i DEF Op, Decode
  <2>2. Datapath(m).data = Plus(cpu.pc, 2 * ctl.ir.num)
    <3>1. Bus0(m) = cpu.pc /\ Bus1(m) = (2 * ctl.ir.num) % WordSize /\ ~CarryIn(m)
      BY <1>2, <2>1 DEF Bus0, Bus1, CarryIn, Imm, IntInstruction
    <3> QED
      BY <1>t, <2>1, <3>1, SumsOfBuses
  <2>3. t = View([cpu EXCEPT !.pc = Plus(cpu.pc, 2 * ctl.ir.num)], ram, q, u)
    BY <1>0, <2>1, <1>2, SameOperators DEF View, Machine!Effect, Machine!Goto
  <2> QED
    BY <1>2, <1>0, <2>1, <2>2, <2>3 DEF Does, View, Registered, BrRelNop, RamWritten
<1>3. CASE Op = "br_nop" /\ ctl.ir.op = "bcs_abs"
  <2>1. m = {"pc_inc", "cut"} /\ ~Carry(cpu.ps)
    BY <1>3, RowsOfBranches DEF Op, Decode
  <2>2. t = View([cpu EXCEPT !.pc = Plus(cpu.pc, 2)], ram, q, u)
    BY <1>3, <1>0, <2>1, SameOperators DEF View, Machine!Effect, Machine!Goto
  <2> QED
    BY <1>3, <1>0, <2>1, <2>2 DEF Does, View, Registered, BrRelNop, RamWritten
<1>4. CASE Op = "br_nop" /\ ctl.ir.op = "bcs_rel"
  <2>1. m = {"pc_inc", "cut"} /\ ~Carry(cpu.ps)
    BY <1>4, RowsOfBranches DEF Op, Decode
  <2>2. t = View(cpu, ram, q, u)
    BY <1>4, <1>0, <2>1, SameOperators DEF View, Machine!Effect
  <2> QED
    BY <1>4, <1>0, <2>1, <2>2 DEF Does, View, Registered, BrRelNop, RamWritten
<1>5. Op = "br_nop" => ctl.ir.op \in {"bcs_abs", "bcs_rel"}
  BY <1>i DEF Op, Decode
<1> QED
  BY <1>1, <1>2, <1>3, <1>4, <1>5

\* Adding.
LEMMA SumsDone ==
    ASSUME TypeInv, ~ctl.fetch, ctl.phase = 0, ~ctl.incAddress, Even(cpu.pc), Even(cpu.sp),
           ctl.ir.num \in Word, NEW e, ~e.triggered, NEW q, NEW u,
           Op \in {"addsp", "addsp_p", "move", "add_p", "alu3"}
    PROVE  LET b == View(cpu, ram, q, u) IN
           Does(MainRow(Op, 0), e, b, Machine!Effect(ctl.ir, b))
<1> DEFINE m == MainRow(Op, 0)
           b == View(cpu, ram, q, u)
           t == Machine!Effect(ctl.ir, b)
           d == cpu.regs[ctl.ir.rd]
           s == cpu.regs[ctl.ir.rs]
           Added(n) == [pc |-> cpu.pc, sp |-> cpu.sp,
                        ps |-> SetFlags(cpu.ps, IF s + n >= WordSize THEN 8 ELSE 0),
                        regs |-> [cpu.regs EXCEPT ![ctl.ir.rd] = (s + n) % WordSize]]
<1>0. cpu = [pc |-> cpu.pc, sp |-> cpu.sp, ps |-> cpu.ps, regs |-> cpu.regs]
  BY DEF TypeInv, CpuTypes
<1>w. cpu.sp \in Word /\ d \in Word /\ s \in Word /\ ctl.ir.num \in Nat
  BY Sizes DEF TypeInv, CpuTypes, CtlTypes, Instructions
<1>t. /\ cpu.sp \in Word /\ d \in Word /\ s \in Word /\ 2 * ctl.ir.num \in Nat
      /\ s \in Nat /\ d \in Nat /\ ctl.ir.num \in Nat /\ d % WordSize = d
  BY <1>w, OfWord
<1>1. CASE Op = "addsp"
  <2>1. m = {"sp_asrt0", "r_asrt1", "alu_asrtD", "sp_latch", "cut"} /\ ctl.ir.op = "addsp"
    BY <1>1, <1>0, RowsOfPops2 DEF Op, Decode
  <2>2. Datapath(m).data = Plus(cpu.sp, d)
    <3>1. Bus0(m) = cpu.sp /\ Bus1(m) = d % WordSize /\ ~CarryIn(m)
      BY <1>1, <1>t, <2>1 DEF Bus0, Bus1, SpOut, CarryIn
    <3> QED
      BY <1>t, <2>1, <3>1, SumsOfBuses
  <2>3. t = View([cpu EXCEPT !.sp = Plus(cpu.sp, d)], ram, q, u)
    BY <1>0, <2>1, SameOperators DEF View, Machine!Effect, Machine!SetSp
  <2> QED
    BY <1>1, <1>0, <2>1, <2>2, <2>3 DEF Does, View, Registered, BrRelNop, RamWritten
<1>2. CASE Op = "addsp_p"
  <2>1. m = {"sp_asrt0", "imm_asrt1", "imm_shift", "alu_asrtD", "sp_latch", "cut"} /\ ctl.ir.op = "addsp_p"
    BY <1>2, <1>0, RowsOfSums DEF Op, Decode
  <2>2. Datapath(m).data = Plus(cpu.sp, 2 * ctl.ir.num)
    <3>1. Bus0(m) = cpu.sp /\ Bus1(m) = (2 * ctl.ir.num) % WordSize /\ ~CarryIn(m)
      BY <1>2, <1>t, <2>1 DEF Bus0, Bus1, SpOut, CarryIn, Imm, IntInstruction
    <3> QED
      BY <1>t, <2>1, <3>1, SumsOfBuses
  <2>3. t = View([cpu EXCEPT !.sp = Plus(cpu.sp, 2 * ctl.ir.num)], ram, q, u)
    BY <1>0, <2>1, SameOperators DEF View, Machine!Effect, Machine!SetSp
  <2> QED
    BY <1>2, <1>0, <2>1, <2>2, <2>3 DEF Does, View, Registered, BrRelNop, RamWritten
<1>3. CASE Op = "move"
  <2>1. m = {"r_asrt0", "alu_asrtD", "r_latch", "ps_latch_flags", "cut"} /\ ctl.ir.op = "move"
    BY <1>3, <1>0, RowsOfMoves4 DEF Op, Decode
  <2>2. Datapath(m).data = (s + 0) % WordSize
        /\ Datapath(m).flags = IF s + 0 >= WordSize THEN 8 ELSE 0
    <3>1. Sum(m) = s + 0
      BY <1>3, <1>t, <2>1 DEF Sum, Bus0, Bus1, CarryIn
    <3> QED
      BY <2>1, <3>1 DEF Datapath, BusD
  <2>3. t = View(Added(0), ram, q, u)
    BY <1>0, <2>1, SameOperators DEF View, Machine!Effect, Machine!AddTo, Machine!SetPs, Machine!SetReg,
         Machine!WithCarry, SetFlags
  <2> QED
    BY <1>3, <1>0, <2>1, <2>2, <2>3 DEF Does, View, Registered, BrRelNop, RamWritten
<1>4. CASE Op = "add_p"
  <2>1. m = {"r_asrt0", "imm_asrt1", "alu_asrtD", "r_latch", "ps_latch_flags", "cut"} /\ ctl.ir.op = "add_p"
    BY <1>4, <1>0, RowsOfSums DEF Op, Decode
  <2>2. Datapath(m).data = (s + ctl.ir.num) % WordSize
        /\ Datapath(m).flags = IF s + ctl.ir.num >= WordSize THEN 8 ELSE 0
    <3>1. Sum(m) = s + ctl.ir.num
      <4>1. Bus0(m) = s /\ Bus1(m) = ctl.ir.num /\ ~CarryIn(m)
        BY <1>4, <2>1, OfWord DEF Bus0, Bus1, CarryIn, Imm, IntInstruction
      <4> QED
        BY <1>t, <4>1 DEF Sum
    <3> QED
      BY <2>1, <3>1 DEF Datapath, BusD
  <2>3. t = View(Added(ctl.ir.num), ram, q, u)
    BY <1>0, <2>1, SameOperators DEF View, Machine!Effect, Machine!AddTo, Machine!SetPs, Machine!SetReg,
         Machine!WithCarry, SetFlags
  <2> QED
    BY <1>4, <1>0, <2>1, <2>2, <2>3 DEF Does, View, Registered, BrRelNop, RamWritten
<1>5. CASE Op = "alu3"
  <2>1. m = {"r_asrt0", "r_asrt1", "alu_asrtD", "r_latch", "ps_latch_flags", "cut"} /\ ctl.ir.op = "alu3"
    BY <1>5, <1>0, RowsOfSums DEF Op, Decode
  <2>2. Datapath(m).data = (s + (d + (IF Carry(cpu.ps) THEN 1 ELSE 0))) % WordSize
        /\ Datapath(m).flags = IF s + (d + (IF Carry(cpu.ps) THEN 1 ELSE 0)) >= WordSize THEN 8 ELSE 0
    <3>1. Sum(m) = s + (d + (IF Carry(cpu.ps) THEN 1 ELSE 0))
      <4>1. Bus0(m) = s /\ Bus1(m) = d /\ CarryIn(m) = Carry(cpu.ps)
        BY <1>5, <2>1 DEF Bus0, Bus1, CarryIn, Carry
      <4> QED
        BY <1>t, <4>1 DEF Sum
    <3> QED
      BY <2>1, <3>1 DEF Datapath, BusD
  <2>3. t = View(Added(d + (IF Carry(cpu.ps) THEN 1 ELSE 0)), ram, q, u)
    BY <1>0, <2>1, SameOperators DEF View, Machine!Effect, Machine!AddTo, Machine!SetPs, Machine!SetReg,
         Machine!WithCarry, SetFlags
  <2> QED
    BY <1>5, <1>0, <2>1, <2>2, <2>3 DEF Does, View, Registered, BrRelNop, RamWritten
<1> QED
  BY <1>1, <1>2, <1>3, <1>4, <1>5

-------------------------------------------------------------------------------
(* Instructions of several phases.  c and r are the registers and the memory   *)
(* they begin with.                                                           *)

\* The registers after a row: pc, sp and ps, no other one.
Registers3(m, e, pc, sp, ps) ==
    Registered(m, e, Datapath(m)) = [pc |-> pc, sp |-> sp, ps |-> ps, regs |-> cpu.regs]

\* A call writes the way back and then leaves.
LEMMA CallPhases ==
    ASSUME TypeInv, ~ctl.fetch, ~ctl.incAddress, ctl.ir.num \in Word, NEW e, ~e.triggered,
           NEW q, NEW u, NEW sp \in Word, Even(cpu.pc), Even(sp), Op \in Calls, NEW r
    PROVE  LET b == View([cpu EXCEPT !.sp = sp], r, q, u)
               t == Machine!Effect(ctl.ir, b)
           IN  /\ ctl.phase = 0 /\ cpu.sp = sp /\ ram = r =>
                    /\ Registers3(MainRow(Op, 0), e, cpu.pc, Minus(sp, 2), cpu.ps)
                    /\ RamWritten(MainRow(Op, 0), Datapath(MainRow(Op, 0))) = t.ram
               /\ ctl.phase = 1 /\ cpu.sp = Minus(sp, 2) /\ ram = t.ram =>
                    Does(MainRow(Op, 1), e, b, t)
<1> DEFINE b == View([cpu EXCEPT !.sp = sp], r, q, u)
           t == Machine!Effect(ctl.ir, b)
           a == Minus(sp, 2)
           m == MainRow(Op, 0)
           n == MainRow(Op, 1)
           back == IF Op = "jsr" THEN Plus(cpu.pc, 2) ELSE cpu.pc
           there == CASE Op = "jsr" -> rom(cpu.pc).num
                      [] Op = "jsrr" -> cpu.regs[ctl.ir.rd]
                      [] Op = "jsr_rel" -> Plus(cpu.pc, 2 * ctl.ir.num)
<1>0. /\ cpu = [pc |-> cpu.pc, sp |-> cpu.sp, ps |-> cpu.ps, regs |-> cpu.regs]
      /\ a \in Word /\ a % 2 = 0 /\ cpu.pc \in Word /\ cpu.pc % 2 = 0
  BY PlusMinus, EvenSteps DEF TypeInv, CpuTypes, Even
<1>n. ctl.ir.num \in Nat
  BY Sizes
<1>1. t = View([pc |-> there, sp |-> a, ps |-> cpu.ps, regs |-> cpu.regs], Store(r, a, back), q, u)
  <2>1. CASE Op = "jsr"
    <3>1. ctl.ir.op = "jsr"
      BY <2>1 DEF Op, Decode
    <3> QED
      BY <1>0, <2>1, <3>1, SameOperators DEF View, Machine!Effect, Machine!Push, Machine!Goto
  <2>2. CASE Op = "jsrr"
    <3>1. ctl.ir.op = "jsrr"
      BY <2>2 DEF Op, Decode
    <3> QED
      BY <1>0, <2>2, <3>1, SameOperators DEF View, Machine!Effect, Machine!Push, Machine!Goto
  <2>3. CASE Op = "jsr_rel"
    <3>1. ctl.ir.op = "jsr_rel"
      BY <2>3 DEF Op, Decode
    <3> QED
      BY <1>0, <2>3, <3>1, SameOperators DEF View, Machine!Effect, Machine!Push, Machine!Goto
  <2> QED
    BY <2>1, <2>2, <2>3 DEF Calls
<1>2. ASSUME ctl.phase = 0, cpu.sp = sp, ram = r
      PROVE  /\ Registers3(m, e, cpu.pc, Minus(sp, 2), cpu.ps)
             /\ RamWritten(m, Datapath(m)) = t.ram
  <2>1. m = {"mem", "data", "word", "sp_asrt0", "sp_dec", "pc_asrtD"}
    BY RowsOfJsr, RowsOfJsrr, RowsOfJsrRel DEF Calls
  <2>2. Datapath(m) = [address |-> a, data |-> back, flags |-> 0]
    BY <1>0, <1>2, <2>1, OneBus DEF Bus0, Bus1, SpOut, CarryIn, BusD, Calls
  <2> QED
    BY <1>0, <1>1, <1>2, <2>1, <2>2
    DEF Registers3, View, Registered, BrRelNop, RamWritten, WordAccess, Calls
<1>3. ASSUME ctl.phase = 1, cpu.sp = a, ram = t.ram
      PROVE  Does(n, e, b, t)
  <2>1. CASE Op = "jsr"
    <3>1. n = {"mem", "word", "read", "pc_asrt0", "pc_latch", "cut"}
      BY <2>1, RowsOfJsr
    <3>2. Datapath(n) = [address |-> cpu.pc, data |-> there, flags |-> 0]
      BY <1>0, <2>1, <3>1, OneBus DEF Bus0, Bus1, CarryIn, BusD, FromMemory, DataIn
    <3> QED
      BY <1>0, <1>1, <1>3, <2>1, <3>1, <3>2 DEF Does, View, Registered, BrRelNop, RamWritten
  <2>2. CASE Op = "jsrr"
    <3>1. n = {"r_asrtD", "pc_latch", "cut"}
      BY <2>2, RowsOfJsrr
    <3>2. Datapath(n) = [address |-> 0, data |-> there, flags |-> 0]
      BY <1>0, <2>2, <3>1, OneBus DEF Bus0, Bus1, CarryIn, BusD
    <3> QED
      BY <1>0, <1>1, <1>3, <2>2, <3>1, <3>2 DEF Does, View, Registered, BrRelNop, RamWritten
  <2>3. CASE Op = "jsr_rel"
    <3>1. n = {"pc_asrt0", "imm_asrt1", "imm_shift", "alu_asrtD", "pc_latch", "cut"}
      BY <2>3, RowsOfJsrRel
    <3>2. Datapath(n).data = there
      <4>1. Bus0(n) = cpu.pc /\ Bus1(n) = (2 * ctl.ir.num) % WordSize /\ ~CarryIn(n)
        BY <2>3, <3>1 DEF Bus0, Bus1, CarryIn, Imm, IntInstruction
      <4>2. 2 * ctl.ir.num \in Nat
        BY <1>n
      <4>3. Datapath(n).data = Plus(cpu.pc, 2 * ctl.ir.num)
        BY <1>0, <3>1, <4>1, <4>2, SumsOfBuses
      <4> QED
        BY <2>3, <4>3
    <3> QED
      BY <1>0, <1>1, <1>3, <2>3, <3>1, <3>2 DEF Does, View, Registered, BrRelNop, RamWritten
  <2> QED
    BY <2>1, <2>2, <2>3 DEF Calls
<1> QED
  BY <1>2, <1>3

\* The return from a handler pops pc and then ps.
LEMMA ReturnPhases ==
    ASSUME TypeInv, ~ctl.fetch, ~ctl.incAddress, NEW e, ~e.triggered,
           NEW q, NEW u, NEW c \in CpuTypes, Even(cpu.sp), Op = "rti",
           cpu.regs = c.regs, cpu.ps = c.ps
    PROVE  LET b == View(c, ram, q, u)
               t == Machine!Effect(ctl.ir, b)
           IN  /\ t.ram = ram
               /\ \A ph \in {0, 1} : RamWritten(MainRow(Op, ph), Datapath(MainRow(Op, ph))) = ram
               /\ ctl.phase = 0 /\ cpu = c =>
                    Registers3(MainRow(Op, 0), e, Load(ram, c.sp), Plus(c.sp, 2), c.ps)
               /\ ctl.phase = 1 /\ cpu.sp = Plus(c.sp, 2) /\ cpu.pc = Load(ram, c.sp) =>
                    Does(MainRow(Op, 1), e, b, t)
<1> DEFINE b == View(c, ram, q, u)
           t == Machine!Effect(ctl.ir, b)
           m == MainRow(Op, 0)
           n == MainRow(Op, 1)
<1>0. /\ cpu = [pc |-> cpu.pc, sp |-> cpu.sp, ps |-> cpu.ps, regs |-> cpu.regs]
      /\ c = [pc |-> c.pc, sp |-> c.sp, ps |-> c.ps, regs |-> c.regs]
      /\ cpu.sp % 2 = 0 /\ ctl.ir.op = "rti"
  BY DEF TypeInv, CpuTypes, Even, Op, Decode
<1>1. t = View([pc |-> Load(ram, c.sp), sp |-> Plus(Plus(c.sp, 2), 2),
                ps |-> Load(ram, Plus(c.sp, 2)), regs |-> c.regs], ram, q, u)
  BY <1>0, SameOperators
  DEF View, Machine!Effect, Machine!Pop, Machine!Goto, Machine!Top, Machine!SetPs
<1>2. /\ m = {"mem", "data", "word", "read", "sp_asrt0", "pc_latch", "sp_inc"}
      /\ n = {"mem", "data", "word", "read", "sp_asrt0", "ps_latch_word", "sp_inc", "cut"}
  BY RowsOfRti
<1>3. /\ Datapath(m) = [address |-> cpu.sp, data |-> Load(ram, cpu.sp), flags |-> 0]
      /\ Datapath(n) = [address |-> cpu.sp, data |-> Load(ram, cpu.sp), flags |-> 0]
  BY <1>0, <1>2, OneBus DEF Bus0, Bus1, SpOut, CarryIn, BusD, FromMemory, DataIn, WordAccess
<1>4. RamWritten(m, Datapath(m)) = ram /\ RamWritten(n, Datapath(n)) = ram
  BY <1>2 DEF RamWritten
<1>5. ctl.phase = 0 /\ cpu = c => Registers3(m, e, Load(ram, c.sp), Plus(c.sp, 2), c.ps)
  BY <1>0, <1>2, <1>3 DEF Registers3, Registered, BrRelNop
<1>6. ctl.phase = 1 /\ cpu.sp = Plus(c.sp, 2) /\ cpu.pc = Load(ram, c.sp) => Does(n, e, b, t)
  BY <1>0, <1>1, <1>2, <1>3, <1>4 DEF Does, View, Registered, BrRelNop
<1> QED
  BY <1>1, <1>4, <1>5, <1>6 DEF View

\* A vector: its two words are at even addresses within the program memory.
LEMMA VectorWords ==
    ASSUME TypeInv, ~ctl.fetch, Op \in {"int", "reset"}, 4 * ctl.ir.num + 2 < WordSize, NEW s,
           s \subseteq {"mem", "word", "read", "imm_asrt1", "pc_latch", "ps_latch_word", "cut"},
           "imm_asrt1" \in s, "read" \in s, "word" \in s, ~ctl.incAddress
    PROVE  /\ ctl.phase % 2 = 0 => Datapath(s).data = rom(4 * ctl.ir.num).num
           /\ ctl.phase % 2 = 1 => Datapath(s).data = rom(4 * ctl.ir.num + 2).num
<1> DEFINE v == 4 * ctl.ir.num
<1>1. ctl.ir.num \in Nat /\ WordSize \in Nat
  BY Sizes DEF TypeInv, CtlTypes, Instructions
<1>2. v \in Word /\ v + 2 \in Word /\ v % 2 = 0 /\ (v + 2) % 2 = 0
  BY <1>1 DEF Word
<1>3. Bus0(s) = 0 /\ Bus1(s) = Imm(s) /\ ~CarryIn(s)
  BY DEF Bus0, Bus1, CarryIn
<1>4. Imm(s) = (v + 2 * (ctl.phase % 2)) % WordSize
  BY DEF Imm, IntInstruction
<1>5. Datapath(s).data = DataIn(s, Imm(s))
  <2>1. Datapath(s) = [address |-> Bus1(s), data |-> BusD(s, Bus1(s)), flags |-> 0]
    BY <1>3, OneBus
  <2>2. BusD(s, Imm(s)) = DataIn(s, Imm(s))
    BY DEF BusD, FromMemory
  <2> QED
    BY <1>3, <2>1, <2>2
<1>6. \A a : a % 2 = 0 => DataIn(s, a) = rom(a).num
  BY DEF DataIn
<1>7. ASSUME ctl.phase % 2 = 0 PROVE Imm(s) = v
  <2>1. v + 2 * 0 = v
    BY <1>1
  <2> QED
    BY <1>2, <1>4, <1>7, <2>1, OfWord
<1>8. ASSUME ctl.phase % 2 = 1 PROVE Imm(s) = v + 2
  <2>1. v + 2 * 1 = v + 2
    BY <1>1
  <2> QED
    BY <1>2, <1>4, <1>8, <2>1, OfWord
<1> QED
  BY <1>2, <1>5, <1>6, <1>7, <1>8

\* The reset takes pc and then ps from its vector.
LEMMA ResetPhases ==
    ASSUME TypeInv, ~ctl.fetch, ~ctl.incAddress, NEW e, ~e.triggered,
           NEW q, NEW u, NEW c \in CpuTypes, Op = "reset", 4 * ctl.ir.num + 2 < WordSize,
           cpu.regs = c.regs, cpu.ps = c.ps, cpu.sp = c.sp
    PROVE  LET b == View(c, ram, q, u)
               t == Machine!Effect(ctl.ir, b)
           IN  /\ t.ram = ram
               /\ \A ph \in {0, 1} : RamWritten(MainRow(Op, ph), Datapath(MainRow(Op, ph))) = ram
               /\ ctl.phase = 0 =>
                    Registers3(MainRow(Op, 0), e, rom(4 * ctl.ir.num).num, c.sp, c.ps)
               /\ ctl.phase = 1 /\ cpu.pc = rom(4 * ctl.ir.num).num => Does(MainRow(Op, 1), e, b, t)
<1> DEFINE b == View(c, ram, q, u)
           t == Machine!Effect(ctl.ir, b)
           m == MainRow(Op, 0)
           n == MainRow(Op, 1)
<1>0. /\ cpu = [pc |-> cpu.pc, sp |-> cpu.sp, ps |-> cpu.ps, regs |-> cpu.regs]
      /\ c = [pc |-> c.pc, sp |-> c.sp, ps |-> c.ps, regs |-> c.regs]
      /\ ctl.ir.op = "reset"
  BY DEF TypeInv, CpuTypes, Op, Decode
<1>1. t = View([pc |-> rom(4 * ctl.ir.num).num, sp |-> c.sp,
                ps |-> rom(4 * ctl.ir.num + 2).num, regs |-> c.regs], ram, q, u)
  BY <1>0, SameOperators
  DEF View, Machine!Effect, Machine!Through, Machine!Goto, Machine!SetPs
<1>2. /\ m = {"mem", "word", "read", "imm_asrt1", "pc_latch"}
      /\ n = {"mem", "word", "read", "imm_asrt1", "ps_latch_word", "cut"}
  BY RowsOfReset
<1>3. /\ ctl.phase = 0 => Datapath(m).data = rom(4 * ctl.ir.num).num
      /\ ctl.phase = 1 => Datapath(n).data = rom(4 * ctl.ir.num + 2).num
  BY <1>2, VectorWords
<1>4. RamWritten(m, Datapath(m)) = ram /\ RamWritten(n, Datapath(n)) = ram
  BY <1>2 DEF RamWritten
<1>5. ctl.phase = 0 => Registers3(m, e, rom(4 * ctl.ir.num).num, c.sp, c.ps)
  BY <1>0, <1>2, <1>3 DEF Registers3, Registered, BrRelNop
<1>6. ctl.phase = 1 /\ cpu.pc = rom(4 * ctl.ir.num).num => Does(n, e, b, t)
  BY <1>0, <1>1, <1>2, <1>3, <1>4 DEF Does, View, Registered, BrRelNop
<1> QED
  BY <1>1, <1>4, <1>5, <1>6 DEF View

\* What a push leaves.
LEMMA PushIs ==
    ASSUME NEW pc, NEW sp, NEW ps, NEW regs, NEW r, NEW q, NEW u, NEW v
    PROVE  Machine!Push(View([pc |-> pc, sp |-> sp, ps |-> ps, regs |-> regs], r, q, u), v) =
             View([pc |-> pc, sp |-> Minus(sp, 2), ps |-> ps, regs |-> regs],
                  Store(r, Minus(sp, 2), v), q, u)
<1> DEFINE b == View([pc |-> pc, sp |-> sp, ps |-> ps, regs |-> regs], r, q, u)
<1>1. Machine!Minus(sp, 2) = Minus(sp, 2)
  BY SameOperators
<1>2. Machine!Store(r, Minus(sp, 2), v) = Store(r, Minus(sp, 2), v)
  BY SameOperators
<1>3. Machine!Push(b, v) = [b EXCEPT !.cpu.sp = Minus(sp, 2), !.ram = Store(r, Minus(sp, 2), v)]
  BY <1>1, <1>2 DEF View, Machine!Push
<1> QED
  BY <1>3 DEF View

\* On the way to a handler ps and pc are pushed, then both are taken from the vector.
LEMMA EntryPhases ==
    ASSUME TypeInv, ~ctl.fetch, ~ctl.incAddress, NEW e, ~e.triggered, Even(cpu.sp),
           NEW q, NEW u, NEW c \in CpuTypes, NEW r, Op = "int", 4 * ctl.ir.num + 2 < WordSize,
           cpu.regs = c.regs, cpu.ps = c.ps
    PROVE  LET b == View(c, r, q, u)
               t == Machine!Effect(ctl.ir, b)
               s1 == Minus(c.sp, 2)
               s2 == Minus(s1, 2)
           IN  /\ ctl.phase = 0 /\ cpu.sp = c.sp /\ ram = r =>
                    /\ Registers3(MainRow(Op, 0), e, cpu.pc, s1, c.ps)
                    /\ RamWritten(MainRow(Op, 0), Datapath(MainRow(Op, 0))) = Machine!Push(b, c.ps).ram
               /\ ctl.phase = 1 /\ cpu.sp = s1 /\ cpu.pc = c.pc /\ ram = Machine!Push(b, c.ps).ram =>
                    /\ Registers3(MainRow(Op, 1), e, cpu.pc, s2, c.ps)
                    /\ RamWritten(MainRow(Op, 1), Datapath(MainRow(Op, 1))) = t.ram
               /\ \A ph \in {2, 3} : RamWritten(MainRow(Op, ph), Datapath(MainRow(Op, ph))) = ram
               /\ ctl.phase = 2 /\ cpu.sp = s2 =>
                    Registers3(MainRow(Op, 2), e, rom(4 * ctl.ir.num).num, s2, c.ps)
               /\ ctl.phase = 3 /\ cpu.sp = s2 /\ cpu.pc = rom(4 * ctl.ir.num).num /\ ram = t.ram =>
                    Does(MainRow(Op, 3), e, b, t)
<1> DEFINE b == View(c, r, q, u)
           t == Machine!Effect(ctl.ir, b)
           s1 == Minus(c.sp, 2)
           s2 == Minus(s1, 2)
           r1 == Store(r, s1, c.ps)
           r2 == Store(r1, s2, c.pc)
           m(ph) == MainRow(Op, ph)
<1>0. /\ cpu = [pc |-> cpu.pc, sp |-> cpu.sp, ps |-> cpu.ps, regs |-> cpu.regs]
      /\ c = [pc |-> c.pc, sp |-> c.sp, ps |-> c.ps, regs |-> c.regs]
      /\ ctl.ir.op = "int" /\ cpu.sp \in Word /\ Minus(cpu.sp, 2) % 2 = 0
  BY EvenSteps DEF TypeInv, CpuTypes, Op, Decode, Even
<1>1. /\ Machine!Push(b, c.ps).ram = r1
      /\ t = View([pc |-> rom(4 * ctl.ir.num).num, sp |-> s2,
                   ps |-> rom(4 * ctl.ir.num + 2).num, regs |-> c.regs], r2, q, u)
  <2> DEFINE c1 == [pc |-> c.pc, sp |-> s1, ps |-> c.ps, regs |-> c.regs]
             c2 == [pc |-> c.pc, sp |-> s2, ps |-> c.ps, regs |-> c.regs]
  <2>1. Machine!Push(b, c.ps) = View(c1, r1, q, u)
    BY <1>0, PushIs
  <2>2. Machine!Push(View(c1, r1, q, u), c.pc) = View(c2, r2, q, u)
    BY PushIs
  <2>3. t = Machine!Through(Machine!Push(Machine!Push(b, c.ps), c.pc), ctl.ir.num)
    BY <1>0 DEF View, Machine!Effect, Machine!Enter
  <2>4. t = Machine!Through(View(c2, r2, q, u), ctl.ir.num)
    BY <2>1, <2>2, <2>3
  <2>5. t = View([pc |-> rom(4 * ctl.ir.num).num, sp |-> s2,
                  ps |-> rom(4 * ctl.ir.num + 2).num, regs |-> c.regs], r2, q, u)
    BY <2>4, SameOperators DEF View, Machine!Through, Machine!Goto, Machine!SetPs
  <2> QED
    BY <2>1, <2>5 DEF View
<1>2. /\ m(0) = {"mem", "data", "word", "sp_asrt0", "sp_dec", "ps_asrtD"}
      /\ m(1) = {"mem", "data", "word", "sp_asrt0", "sp_dec", "pc_asrtD"}
      /\ m(2) = {"mem", "word", "read", "imm_asrt1", "pc_latch"}
      /\ m(3) = {"mem", "word", "read", "imm_asrt1", "ps_latch_word", "cut"}
  BY RowsOfInt1, RowsOfInt2
<1> HIDE DEF m, t, b
<1>3. /\ Datapath(m(0)) = [address |-> Minus(cpu.sp, 2), data |-> cpu.ps, flags |-> 0]
      /\ Datapath(m(1)) = [address |-> Minus(cpu.sp, 2), data |-> cpu.pc, flags |-> 0]
  BY <1>0, <1>2, OneBus DEF Bus0, Bus1, SpOut, CarryIn, BusD
<1>4. /\ ctl.phase = 2 => Datapath(m(2)).data = rom(4 * ctl.ir.num).num
      /\ ctl.phase = 3 => Datapath(m(3)).data = rom(4 * ctl.ir.num + 2).num
  BY <1>2, VectorWords
<1>5. ASSUME ctl.phase = 0, cpu.sp = c.sp, ram = r
      PROVE  /\ Registers3(m(0), e, cpu.pc, s1, c.ps)
             /\ RamWritten(m(0), Datapath(m(0))) = Machine!Push(b, c.ps).ram
  BY <1>0, <1>1, <1>2, <1>3, <1>5 DEF Registers3, Registered, BrRelNop, RamWritten, WordAccess
<1>6. ASSUME ctl.phase = 1, cpu.sp = s1, cpu.pc = c.pc, ram = Machine!Push(b, c.ps).ram
      PROVE  /\ Registers3(m(1), e, cpu.pc, s2, c.ps)
             /\ RamWritten(m(1), Datapath(m(1))) = t.ram
  BY <1>0, <1>1, <1>2, <1>3, <1>6
  DEF View, Registers3, Registered, BrRelNop, RamWritten, WordAccess
<1>7. \A ph \in {2, 3} : RamWritten(m(ph), Datapath(m(ph))) = ram
  BY <1>2 DEF RamWritten
<1>8. ASSUME ctl.phase = 2, cpu.sp = s2
      PROVE  Registers3(m(2), e, rom(4 * ctl.ir.num).num, s2, c.ps)
  BY <1>0, <1>2, <1>4, <1>8 DEF Registers3, Registered, BrRelNop
<1>9. ASSUME ctl.phase = 3, cpu.sp = s2, cpu.pc = rom(4 * ctl.ir.num).num, ram = t.ram
      PROVE  Does(m(3), e, b, t)
  <2>1. t.pending = b.pending /\ t.startup = b.startup
    BY <1>1 DEF View, b
  <2> QED
    BY <1>0, <1>1, <1>2, <1>4, <1>7, <1>9, <2>1 DEF Does, View, Registered, BrRelNop
<1> QED
  BY <1>5, <1>6, <1>7, <1>8, <1>9 DEF m, t, b

-------------------------------------------------------------------------------
(* Unaligned accesses by halves.                                              *)

\* The first half stores one byte or puts one aside.
LEMMA FirstHalf ==
    ASSUME TypeInv, ~ctl.fetch, ctl.phase = 0, ~ctl.incAddress, Op \in {"ldw", "stw"},
           ~Even(cpu.regs[ctl.ir.rs])
    PROVE  LET m == MainRow(Op, 0)
               a == cpu.regs[ctl.ir.rs]
           IN  /\ Datapath(m).address = a /\ ClkInhibit(m, a)
               /\ RamWritten(m, Datapath(m)) =
                    IF Op = "ldw" THEN ram ELSE StoreByte(ram, a, cpu.regs[ctl.ir.rd])
               /\ Op = "ldw" => DataIn(m, a) % ByteSize = At(ram, a)
<1> DEFINE m == MainRow(Op, 0)
           a == cpu.regs[ctl.ir.rs]
<1>0. a \in Word /\ a \in Nat
  BY Sizes DEF TypeInv, CpuTypes, CtlTypes, Instructions
<1>1. a % 2 = 1
  BY <1>0 DEF Even
<1>2. CASE Op = "ldw"
  <2>1. m = {"mem", "data", "word", "read", "r_asrt0", "r_latch", "cut"}
    BY <1>2, RowsOfAccesses
  <2>2. Datapath(m).address = a
    BY <1>2, <2>1, OneBus DEF Bus0, Bus1, CarryIn
  <2>3. DataIn(m, a) = At(ram, a)
    BY <1>1, <2>1 DEF DataIn, WordAccess
  <2>4. At(ram, a) \in Byte
    BY <1>0, Reading DEF TypeInv
  <2>5. At(ram, a) % ByteSize = At(ram, a)
    BY <2>4, Sizes DEF Byte
  <2> QED
    BY <1>1, <1>2, <2>1, <2>2, <2>3, <2>5 DEF RamWritten, ClkInhibit
<1>3. CASE Op = "stw"
  <2>1. m = {"mem", "data", "word", "r_asrt0", "r_asrtD", "cut"}
    BY <1>3, RowsOfAccesses
  <2>2. Datapath(m) = [address |-> a, data |-> cpu.regs[ctl.ir.rd], flags |-> 0]
    BY <1>3, <2>1, OneBus DEF Bus0, Bus1, CarryIn, BusD
  <2> QED
    BY <1>1, <1>3, <2>1, <2>2 DEF RamWritten, ClkInhibit, WordAccess
<1> QED
  BY <1>2, <1>3

\* The second half makes the access complete.
LEMMA SecondHalf ==
    ASSUME TypeInv, ~ctl.fetch, ctl.phase = 0, ctl.incAddress, Op \in {"ldw", "stw"},
           ~Even(cpu.regs[ctl.ir.rs]), NEW e, ~e.triggered, NEW q, NEW u, NEW r, Bytes(r),
           LET a == cpu.regs[ctl.ir.rs] IN
           /\ Op = "ldw" => ram = r /\ ctl.dtr = At(ram, a)
           /\ Op = "stw" => ram = StoreByte(r, a, cpu.regs[ctl.ir.rd])
    PROVE  LET b == View(cpu, r, q, u) IN
           Does(MainRow(Op, 0), e, b, Machine!Effect(ctl.ir, b))
<1> DEFINE m == MainRow(Op, 0)
           a == cpu.regs[ctl.ir.rs]
           d == cpu.regs[ctl.ir.rd]
           b == View(cpu, r, q, u)
           t == Machine!Effect(ctl.ir, b)
<1>0. /\ cpu = [pc |-> cpu.pc, sp |-> cpu.sp, ps |-> cpu.ps, regs |-> cpu.regs]
      /\ a \in Word /\ d \in Word
  BY DEF TypeInv, CpuTypes, CtlTypes, Instructions
<1>1. a \in Nat /\ d \in Nat /\ Plus(a, 1) \in Word
  BY <1>0, Sizes, PlusMinus
<1>2. ~(Plus(a, 1) % 2 = 1) /\ Plus(a, 1) % 2 = 0
  BY <1>0, EvenSteps DEF Even
<1>3. ASSUME NEW s, CarryIn(s), Bus0(s) = a, Bus1(s) = 0
      PROVE  Datapath(s).address = Plus(a, 1) /\ Datapath(s).data = BusD(s, Plus(a, 1))
  <2>1. Sum(s) = a + 1
    BY <1>1, <1>3 DEF Sum
  <2> QED
    BY <2>1 DEF Datapath, Plus
<1>4. CASE Op = "ldw"
  <2>1. m = {"mem", "data", "word", "read", "r_asrt0", "r_latch", "cut"} /\ ctl.ir.op = "ldw"
    BY <1>4, RowsOfAccesses DEF Op, Decode
  <2>2. Datapath(m).address = Plus(a, 1) /\ Datapath(m).data = BusD(m, Plus(a, 1))
    BY <1>3, <1>4, <2>1 DEF Bus0, Bus1, CarryIn
  <2>3. BusD(m, Plus(a, 1)) = (ByteSize * At(ram, Plus(a, 1)) + ctl.dtr) % WordSize
    BY <2>1 DEF BusD, FromMemory, DataIn, WordAccess
  <2>4. ByteSize * At(ram, Plus(a, 1)) + ctl.dtr = Load(ram, a)
    <3>1. At(ram, a) \in Nat /\ At(ram, Plus(a, 1)) \in Nat /\ ByteSize \in Nat
      BY <1>0, <1>1, Reading, Sizes DEF TypeInv
    <3>2. ByteSize * At(ram, Plus(a, 1)) \in Nat
      BY <3>1
    <3> QED
      BY <1>4, <3>1, <3>2 DEF Load
  <2>5. Load(ram, a) \in Word
    BY <1>0, Reading DEF TypeInv
  <2>6. Datapath(m).data = Load(ram, a)
    BY <2>2, <2>3, <2>4, <2>5, OfWord
  <2>7. t = View([cpu EXCEPT !.regs = [@ EXCEPT ![ctl.ir.rd] = Load(r, a)]], r, q, u)
    BY <1>0, <2>1, SameOperators DEF View, Machine!Effect, Machine!SetReg
  <2> QED
    BY <1>0, <1>4, <2>1, <2>6, <2>7 DEF Does, View, Registered, BrRelNop, RamWritten
<1>5. CASE Op = "stw"
  <2>1. m = {"mem", "data", "word", "r_asrt0", "r_asrtD", "cut"} /\ ctl.ir.op = "stw"
    BY <1>5, RowsOfAccesses DEF Op, Decode
  <2>2. Datapath(m).address = Plus(a, 1) /\ Datapath(m).data = d
    BY <1>3, <1>5, <2>1 DEF Bus0, Bus1, CarryIn, BusD
  <2>3. RamWritten(m, Datapath(m)) = StoreByte(ram, Plus(a, 1), d \div ByteSize)
    BY <2>1, <2>2 DEF RamWritten, WordAccess
  <2>4. t = View(cpu, Store(r, a, d), q, u)
    BY <1>0, <2>1, SameOperators DEF View, Machine!Effect
  <2> QED
    BY <1>0, <1>5, <2>1, <2>3, <2>4 DEF Does, View, Registered, BrRelNop, Store
<1> QED
  BY <1>4, <1>5

-------------------------------------------------------------------------------
(* An instruction under way.                                                   *)

\* The phases of a fetch.
LEMMA RowsOfFetch ==
    /\ MainRow("fetch", 0) = {"mem", "word", "read", "pc_asrt0", "pc_inc", "cut"}
    /\ ExcRow("fetch", 0) = {"mem", "word", "read", "pc_asrt0", "cut"}
BY DEF MainRow, ExcRow, Row, Main, Exc, Code

Busy ==
    /\ TypeInv /\ BoundaryOK /\ Even(cpu.pc) /\ Even(cpu.sp)
    /\ ~ctl.fetch /\ Executing

\* What is in ir: the word at pc, an int or the reset; its vector is within the program
\* memory.
LEMMA UnderWay ==
    ASSUME Busy
    PROVE  /\ Op \in Operations /\ Op # "fetch" /\ ctl.ir.op \in Opcodes
           /\ ctl.ir.num \in Word
           /\ Op \in {"int", "reset"} => 4 * ctl.ir.num + 2 < WordSize
           /\ ctl.virtual => Op \in {"int", "reset"} /\ ctl.ir.op = Op
           /\ ~ctl.virtual => Machine!Inst = ctl.ir
<1>1. TypeInv /\ Executing /\ BoundaryOK /\ ~ctl.fetch
  BY DEF Busy
<1>2. Op \in Operations /\ ctl.ir.op \in Opcodes /\ Op = Decode(ctl.ir, cpu.ps)
  BY <1>1, Decoded DEF TypeInv, CtlTypes, Instructions, Op
<1>3. Op # "fetch"
  BY <1>2 DEF Decode, Opcodes
<1>4. Op \in {"int", "reset"} => ctl.ir.op = Op
  BY <1>2 DEF Decode
<1>5. CASE ctl.virtual
  <2>1. CASE boundary.startup
    <3>1. ctl.ir = ResetInstruction
      BY <1>1, <1>5, <2>1 DEF Executing, Entered
    <3>2. ctl.ir.num = 0 /\ ctl.ir.op = "reset"
      BY <3>1 DEF ResetInstruction
    <3>3. 4 * 0 + 2 < WordSize /\ 0 \in Word
      BY Sizes
    <3> QED
      BY <1>2, <1>3, <1>5, <3>2, <3>3 DEF Decode
  <2>2. CASE ~boundary.startup
    <3>1. ctl.ir = Int(ctl.ir.num) /\ 4 * ctl.ir.num + 2 < WordSize
      BY <1>1, <1>5, <2>2 DEF Executing, Entered
    <3>2. ctl.ir.op = "int"
      BY <3>1 DEF Int
    <3>3. ctl.ir.num \in Word
      <4>1. ctl.ir.num \in Nat /\ WordSize \in Nat
        BY <1>1, Sizes DEF TypeInv, CtlTypes, Instructions
      <4> QED
        BY <3>1, <4>1 DEF Word
    <3> QED
      BY <1>2, <1>3, <1>5, <3>1, <3>2, <3>3 DEF Decode
  <2> QED
    BY <2>1, <2>2
<1>6. CASE ~ctl.virtual
  <2> DEFINE a == boundary.cpu.pc
  <2>1. ctl.ir = rom(a) /\ a \in Word
    BY <1>1, <1>6 DEF Executing, BoundaryOK, CpuTypes
  <2>2. ctl.ir.num \in Word
    BY <1>1, <2>1, RomHolds
  <2>3. ctl.ir.op \in {"int", "reset"} => 4 * ctl.ir.num + 2 < WordSize
    <3>1. (a \div 2) + 1 \in 1 .. WordSize \div 2
      BY <2>1, Sizes DEF Word
    <3>2. image \in DOMAIN Programs
      BY <1>1 DEF TypeInv
    <3> QED
      BY <2>1, <3>1, <3>2, ProgramAssumption DEF rom
  <2>4. Machine!Inst = ctl.ir
    BY <2>1, SameOperators DEF Machine!Inst
  <2> QED
    BY <1>2, <1>3, <1>4, <1>6, <2>2, <2>3, <2>4
<1> QED
  BY <1>5, <1>6

\* The phase has a row in both tables.
LEMMA InPhase ==
    ASSUME Busy
    PROVE  /\ ctl.phase \in 0 .. 5 /\ ctl.phase <= LastExc(Op) /\ Agree(Op, ctl.phase)
           /\ ctl.phase > LastMain(Op) => ctl.exc
           /\ LastMain(Op) \in 0 .. 3 /\ LastMain(Op) <= LastExc(Op) /\ LastExc(Op) \in 0 .. 5
<1>1. /\ LastMain(Op) \in 0 .. 3 /\ LastMain(Op) <= LastExc(Op) /\ LastExc(Op) \in 0 .. 5
  BY DEF LastMain, LastExc, Calls, Pushing, Popping, Setting
<1>2. ctl.phase \in Nat
  BY DEF Busy, TypeInv, CtlTypes
<1>3. /\ ctl.exc => ctl.phase <= LastExc(Op)
      /\ ~ctl.exc => ctl.phase <= LastMain(Op)
  BY DEF Busy, Executing
<1>4. ctl.phase <= LastExc(Op) /\ ctl.phase \in 0 .. 5 /\ (ctl.phase > LastMain(Op) => ctl.exc)
  BY <1>1, <1>2, <1>3
<1> QED
  BY <1>1, <1>2, <1>4, UnderWay, Tables

\* What the instruction is executed on.
LEMMA BaseIs ==
    ASSUME Busy
    PROVE  LET pc == IF ctl.virtual THEN boundary.cpu.pc ELSE Plus(boundary.cpu.pc, 2) IN
           /\ Base = View([pc |-> pc, sp |-> boundary.cpu.sp, ps |-> boundary.cpu.ps,
                           regs |-> boundary.cpu.regs],
                          boundary.ram, boundary.pending, boundary.startup)
           /\ Base.cpu = [pc |-> pc, sp |-> boundary.cpu.sp, ps |-> boundary.cpu.ps,
                          regs |-> boundary.cpu.regs]
           /\ Base.cpu \in CpuTypes /\ Even(pc)
<1> DEFINE c == boundary.cpu
           pc == IF ctl.virtual THEN c.pc ELSE Plus(c.pc, 2)
<1>1. /\ c = [pc |-> c.pc, sp |-> c.sp, ps |-> c.ps, regs |-> c.regs]
      /\ c.pc \in Word /\ c.sp \in Word /\ c.ps \in Word /\ c.regs \in [Registers -> Word]
      /\ Even(c.pc)
  BY DEF Busy, BoundaryOK, CpuTypes
<1>2. pc \in Word /\ Even(pc)
  BY <1>1, PlusMinus, EvenSteps
<1>3. [c EXCEPT !.pc = IF ctl.virtual THEN @ ELSE Plus(@, 2)] =
        [pc |-> pc, sp |-> c.sp, ps |-> c.ps, regs |-> c.regs]
  BY <1>1
<1> QED
  BY <1>1, <1>2, <1>3 DEF Base, View, CpuTypes

\* In the first phase nothing has been done yet.
LEMMA FirstPhase ==
    ASSUME Busy, ctl.phase = 0
    PROVE  /\ cpu = Base.cpu
           /\ ~ctl.incAddress => ram = boundary.ram
           /\ ~ctl.incAddress => View(cpu, ram, boundary.pending, boundary.startup) = Base
<1> DEFINE pc == IF ctl.virtual THEN boundary.cpu.pc ELSE Plus(boundary.cpu.pc, 2)
<1>1. cpu = [pc |-> cpu.pc, sp |-> cpu.sp, ps |-> cpu.ps, regs |-> cpu.regs]
  BY DEF Busy, TypeInv, CpuTypes
<1>2. cpu.regs = boundary.cpu.regs /\ cpu.ps = boundary.cpu.ps /\ cpu.sp = boundary.cpu.sp
  BY DEF Busy, Executing, SpAt
<1>3. cpu.pc = pc
  <2>1. cpu.pc = PcAt(Op, 0)
    BY DEF Busy, Executing, PcKept
  <2> QED
    BY <2>1, BaseIs DEF PcAt
<1>4. ~ctl.incAddress => ram = boundary.ram
  BY DEF Busy, Executing
<1> QED
  BY <1>1, <1>2, <1>3, <1>4, BaseIs

\* Half of an access is that of an instruction with one phase.
LEMMA HalfOf ==
    ASSUME Busy, ctl.incAddress
    PROVE  /\ ctl.phase = 0 /\ Op \in {"ldw", "stw"} /\ LastMain(Op) = 0 /\ LastExc(Op) = 0
           /\ ~Even(cpu.regs[ctl.ir.rs])
<1>1. Halfway
  BY DEF Busy, Executing
<1> QED
  BY <1>1 DEF Halfway, LastMain, LastExc, Calls, Pushing, Popping, Setting

-------------------------------------------------------------------------------
(* The phases of an undisturbed instruction.                                   *)

\* An aligned access, or the second half of an unaligned one.
Aligned ==
    Op \in {"ldw", "stw"} => ctl.incAddress \/ Even(cpu.regs[ctl.ir.rs])

\* What leaves memory alone.
LEMMA KeepingRam ==
    ASSUME NEW c \in CpuTypes, NEW r, NEW q, NEW u, NEW a \in Word
    PROVE  /\ \E d \in CpuTypes : Machine!Goto(View(c, r, q, u), a) = View(d, r, q, u)
           /\ \E d \in CpuTypes : Machine!SetPs(View(c, r, q, u), a) = View(d, r, q, u)
           /\ \E d \in CpuTypes : Machine!Pop(View(c, r, q, u)) = View(d, r, q, u)
<1> DEFINE m == View(c, r, q, u)
           d1 == [pc |-> a, sp |-> c.sp, ps |-> c.ps, regs |-> c.regs]
           d2 == [pc |-> c.pc, sp |-> c.sp, ps |-> a, regs |-> c.regs]
           d3 == [pc |-> c.pc, sp |-> Plus(c.sp, 2), ps |-> c.ps, regs |-> c.regs]
<1>1. c = [pc |-> c.pc, sp |-> c.sp, ps |-> c.ps, regs |-> c.regs]
  BY DEF CpuTypes
<1>2. d1 \in CpuTypes /\ d2 \in CpuTypes /\ d3 \in CpuTypes
  BY PlusMinus DEF CpuTypes
<1>3. Machine!Goto(m, a) = View(d1, r, q, u)
  BY <1>1 DEF View, Machine!Goto
<1>4. Machine!SetPs(m, a) = View(d2, r, q, u)
  BY <1>1 DEF View, Machine!SetPs
<1>5. Machine!Pop(m) = View(d3, r, q, u)
  <2>1. Machine!Plus(c.sp, 2) = Plus(c.sp, 2)
    BY SameOperators
  <2>2. m.cpu.sp = c.sp
    BY DEF View
  <2>3. Machine!Pop(m) = [m EXCEPT !.cpu.sp = Plus(c.sp, 2)]
    BY <2>1, <2>2 DEF Machine!Pop
  <2> QED
    BY <1>1, <2>3 DEF View
<1> QED
  BY <1>2, <1>3, <1>4, <1>5

\* The return and the reset write nothing.
LEMMA NothingWritten ==
    ASSUME TypeInv, NEW c \in CpuTypes, NEW r, Bytes(r), NEW q, NEW u,
           \/ ctl.ir.op = "rti"
           \/ ctl.ir.op = "reset" /\ 4 * ctl.ir.num + 2 < WordSize
    PROVE  Machine!Effect(ctl.ir, View(c, r, q, u)).ram = r
<1> DEFINE m == View(c, r, q, u)
<1>1. ASSUME NEW d \in CpuTypes
      PROVE  View(d, r, q, u).ram = r /\ Machine!Top(View(d, r, q, u)) \in Word
  BY Reading, SameOperators DEF View, CpuTypes, Machine!Top
<1>2. CASE ctl.ir.op = "rti"
  <2>1. PICK d1 \in CpuTypes : Machine!Goto(m, Machine!Top(m)) = View(d1, r, q, u)
    BY <1>1, KeepingRam
  <2>2. PICK d2 \in CpuTypes : Machine!Pop(View(d1, r, q, u)) = View(d2, r, q, u)
    BY KeepingRam, Sizes
  <2>3. PICK d3 \in CpuTypes :
          Machine!SetPs(View(d2, r, q, u), Machine!Top(View(d2, r, q, u))) = View(d3, r, q, u)
    BY <1>1, KeepingRam
  <2>4. PICK d4 \in CpuTypes : Machine!Pop(View(d3, r, q, u)) = View(d4, r, q, u)
    BY KeepingRam, Sizes
  <2> HIDE DEF m
  <2>5. Machine!Effect(ctl.ir, m) = View(d4, r, q, u)
    BY <1>2, <2>1, <2>2, <2>3, <2>4 DEF Machine!Effect
  <2> QED
    BY <1>1, <2>5 DEF m
<1>3. CASE ctl.ir.op = "reset" /\ 4 * ctl.ir.num + 2 < WordSize
  <2> DEFINE n == ctl.ir.num
  <2>1. Machine!rom(4 * n).num \in Word /\ Machine!rom(4 * n + 2).num \in Word
    <3>1. 4 * n \in Word /\ 4 * n + 2 \in Word
      BY <1>3, Sizes DEF TypeInv, CtlTypes, Instructions, Word
    <3> QED
      BY <3>1, RomHolds, SameOperators
  <2>2. PICK d1 \in CpuTypes : Machine!Goto(m, Machine!rom(4 * n).num) = View(d1, r, q, u)
    BY <2>1, KeepingRam
  <2>3. PICK d2 \in CpuTypes :
          Machine!SetPs(View(d1, r, q, u), Machine!rom(4 * n + 2).num) = View(d2, r, q, u)
    BY <2>1, KeepingRam
  <2> HIDE DEF m
  <2>4. Machine!Effect(ctl.ir, m) = View(d2, r, q, u)
    BY <1>3, <2>2, <2>3 DEF Machine!Effect, Machine!Through
  <2> QED
    BY <1>1, <2>4 DEF m
<1> QED
  BY <1>2, <1>3

\* The last phase leaves what the instruction set says.
LEMMA LastPhase ==
    ASSUME Busy, ctl.phase = LastMain(Op), cpu.pc = PcAt(Op, ctl.phase), Aligned,
           NEW e, ~e.triggered
    PROVE  Does(MainRow(Op, ctl.phase), e, Base, Target)
<1> DEFINE q == boundary.pending
           u == boundary.startup
<1>1. /\ TypeInv /\ ~ctl.fetch /\ Even(cpu.pc) /\ Even(cpu.sp) /\ ctl.ir.num \in Word
      /\ Executing /\ BoundaryOK
  BY UnderWay DEF Busy
<1>b. /\ Base = View(Base.cpu, boundary.ram, q, u) /\ Base.cpu \in CpuTypes
      /\ Base.cpu = [pc |-> Base.cpu.pc, sp |-> boundary.cpu.sp, ps |-> boundary.cpu.ps,
                     regs |-> boundary.cpu.regs]
  BY BaseIs
<1>c. cpu = [pc |-> cpu.pc, sp |-> cpu.sp, ps |-> cpu.ps, regs |-> cpu.regs]
  BY <1>1 DEF TypeInv, CpuTypes
<1>2. CASE LastMain(Op) = 0 /\ ~ctl.incAddress
  <2> DEFINE b == View(cpu, ram, q, u)
  <2>1. b = Base /\ ctl.phase = 0
    BY <1>2, FirstPhase
  <2>2. Op \in {"ldw", "stw"} => Even(cpu.regs[ctl.ir.rs])
    BY <1>2 DEF Aligned
  <2>3. Op \notin Calls \cup {"rti", "reset", "int"}
    BY <1>2 DEF LastMain
  <2>4. \/ Op \in {"pupc", "pusp", "pups", "push", "push_p"}
        \/ Op \in {"popc", "posp", "pops", "pop"}
        \/ Op \in {"ldsp", "stsp", "ldps", "stps", "ldpc", "stpc", "ldi_p"}
        \/ Op \in {"ldi", "ldw", "ldb", "stw", "stb"}
        \/ Op \in {"halt", "wait", "ei", "di", "invalid"}
        \/ Op \in {"br_abs", "br_rel", "br_nop"}
        \/ Op \in {"addsp", "addsp_p", "move", "add_p", "alu3"}
    BY <2>3, UnderWay DEF Operations, Main, Calls
  <2>5. Does(MainRow(Op, 0), e, b, Machine!Effect(ctl.ir, b))
    BY <1>1, <1>2, <2>1, <2>2, <2>4, PushesDone, PopsDone, MovesDone, AccessesDone, ControlDone,
       BranchesDone, SumsDone
  <2> QED
    BY <2>1, <2>5 DEF Target
<1>3. CASE ctl.incAddress
  <2>1. ctl.phase = 0 /\ Op \in {"ldw", "stw"} /\ ~Even(cpu.regs[ctl.ir.rs]) /\ Halfway
    BY <1>1, <1>3, HalfOf DEF Executing
  <2>2. cpu = Base.cpu
    BY <2>1, FirstPhase
  <2>3. Base = View(cpu, boundary.ram, q, u)
    BY <1>b, <2>2
  <2>4. Bytes(boundary.ram)
    BY <1>1 DEF BoundaryOK
  <2>5. Does(MainRow(Op, 0), e, View(cpu, boundary.ram, q, u),
             Machine!Effect(ctl.ir, View(cpu, boundary.ram, q, u)))
    <3>1. LET a == cpu.regs[ctl.ir.rs] IN
          /\ Op = "ldw" => ram = boundary.ram /\ ctl.dtr = At(boundary.ram, a)
          /\ Op = "stw" => ram = StoreByte(boundary.ram, a, cpu.regs[ctl.ir.rd])
      BY <2>1 DEF Halfway
    <3> QED
      BY <1>1, <1>3, <2>1, <2>4, <3>1, SecondHalf
  <2> QED
    BY <2>1, <2>3, <2>5 DEF Target
<1>4. CASE Op \in Calls
  <2> DEFINE sp == boundary.cpu.sp
             b == View([cpu EXCEPT !.sp = sp], boundary.ram, q, u)
  <2>1. ctl.phase = 1 /\ ~ctl.incAddress
    BY <1>4, HalfOf DEF LastMain, Calls
  <2>2. cpu.sp = Minus(sp, 2) /\ cpu.pc = Base.cpu.pc
    BY <1>1, <1>4, <2>1 DEF Executing, SpAt, PcAt, Pushing, Popping, Calls
  <2>3. sp \in Word /\ Even(sp) /\ cpu.regs = boundary.cpu.regs /\ cpu.ps = boundary.cpu.ps
    BY <1>1 DEF BoundaryOK, CpuTypes, Executing
  <2> DEFINE c == [cpu EXCEPT !.sp = sp]
  <2>4. c = Base.cpu
    <3>1. c = [pc |-> cpu.pc, sp |-> sp, ps |-> cpu.ps, regs |-> cpu.regs]
      BY <1>c
    <3> QED
      BY <1>b, <2>2, <2>3, <3>1
  <2>5. b = Base
    <3> HIDE DEF c
    <3>1. View(c, boundary.ram, q, u) = Base
      BY <1>b, <2>4
    <3> QED
      BY <3>1 DEF c
  <2>6. ram = Target.ram
    BY <1>1, <1>4, <2>1 DEF Executing, RamAt, Calls
  <2>7. Does(MainRow(Op, 1), e, b, Machine!Effect(ctl.ir, b))
    BY <1>1, <1>4, <2>1, <2>2, <2>3, <2>5, <2>6, CallPhases DEF Target
  <2> QED
    BY <2>1, <2>5, <2>7 DEF Target
<1>5. CASE Op = "rti"
  <2>1. ctl.phase = 1 /\ ~ctl.incAddress
    BY <1>5, HalfOf DEF LastMain, Calls
  <2>2. /\ cpu.sp = Plus(Base.cpu.sp, 2) /\ cpu.pc = Load(boundary.ram, Base.cpu.sp)
        /\ cpu.regs = Base.cpu.regs /\ cpu.ps = Base.cpu.ps
    BY <1>1, <1>5, <1>b, <2>1 DEF Executing, SpAt, PcAt, Pushing, Popping, Calls
  <2>3. Target.ram = boundary.ram
    <3>1. ctl.ir.op = "rti"
      BY <1>1, <1>5 DEF Op, Decode
    <3>2. Machine!Effect(ctl.ir, View(Base.cpu, boundary.ram, q, u)).ram = boundary.ram
      BY <1>1, <1>b, <3>1, NothingWritten, UnderWay DEF BoundaryOK
    <3> QED
      BY <1>b, <3>2 DEF Target
  <2>4. ram = boundary.ram
    BY <1>1, <1>5, <2>1, <2>3 DEF Executing, RamAt
  <2>5. Base = View(Base.cpu, ram, q, u)
    BY <1>b, <2>4
  <2>6. Does(MainRow(Op, 1), e, View(Base.cpu, ram, q, u),
             Machine!Effect(ctl.ir, View(Base.cpu, ram, q, u)))
    BY <1>1, <1>5, <1>b, <2>1, <2>2, <2>4, ReturnPhases
  <2> QED
    BY <2>1, <2>5, <2>6 DEF Target
<1>6. CASE Op = "reset"
  <2>1. ctl.phase = 1 /\ ~ctl.incAddress
    BY <1>6, HalfOf DEF LastMain, Calls
  <2>2. /\ cpu.sp = Base.cpu.sp /\ cpu.pc = rom(4 * ctl.ir.num).num
        /\ cpu.regs = Base.cpu.regs /\ cpu.ps = Base.cpu.ps
    BY <1>1, <1>6, <1>b, <2>1 DEF Executing, SpAt, PcAt, Pushing, Popping, Calls
  <2>3. Target.ram = boundary.ram
    <3>1. ctl.ir.op = "reset"
      BY <1>1, <1>6 DEF Op, Decode
    <3>2. Machine!Effect(ctl.ir, View(Base.cpu, boundary.ram, q, u)).ram = boundary.ram
      BY <1>1, <1>6, <1>b, <3>1, NothingWritten, UnderWay DEF BoundaryOK
    <3> QED
      BY <1>b, <3>2 DEF Target
  <2>4. ram = boundary.ram
    BY <1>1, <1>6, <2>1, <2>3 DEF Executing, RamAt
  <2>5. Base = View(Base.cpu, ram, q, u)
    BY <1>b, <2>4
  <2>6. Does(MainRow(Op, 1), e, View(Base.cpu, ram, q, u),
             Machine!Effect(ctl.ir, View(Base.cpu, ram, q, u)))
    BY <1>1, <1>6, <1>b, <2>1, <2>2, ResetPhases, UnderWay
  <2> QED
    BY <2>1, <2>5, <2>6 DEF Target
<1>7. CASE Op = "int"
  <2>1. ctl.phase = 3 /\ ~ctl.incAddress
    BY <1>7, HalfOf DEF LastMain, Calls
  <2>2. /\ cpu.sp = Minus(Minus(Base.cpu.sp, 2), 2) /\ cpu.pc = rom(4 * ctl.ir.num).num
        /\ cpu.regs = Base.cpu.regs /\ cpu.ps = Base.cpu.ps
    BY <1>1, <1>7, <1>b, <2>1 DEF Executing, SpAt, PcAt, Pushing, Popping, Calls
  <2>3. ram = Target.ram
    BY <1>1, <1>7, <2>1 DEF Executing, RamAt
  <2>4. Does(MainRow(Op, 3), e, View(Base.cpu, boundary.ram, q, u),
             Machine!Effect(ctl.ir, View(Base.cpu, boundary.ram, q, u)))
    BY <1>1, <1>7, <1>b, <2>1, <2>2, <2>3, EntryPhases, UnderWay DEF Target
  <2> QED
    BY <1>b, <2>1, <2>4 DEF Target
<1>8. LastMain(Op) # 0 => Op \in Calls \cup {"rti", "reset", "int"}
  BY DEF LastMain
<1> QED
  BY <1>2, <1>3, <1>4, <1>5, <1>6, <1>7, <1>8

\* An earlier phase leads to the next.
LEMMA EarlierPhase ==
    ASSUME Busy, ctl.phase < LastMain(Op), cpu.pc = PcAt(Op, ctl.phase),
           NEW e, ~e.triggered
    PROVE  LET m == MainRow(Op, ctl.phase) IN
           /\ Registered(m, e, Datapath(m)) =
                [pc |-> PcAt(Op, ctl.phase + 1), sp |-> SpAt(Op, ctl.phase + 1),
                 ps |-> boundary.cpu.ps, regs |-> boundary.cpu.regs]
           /\ RamWritten(m, Datapath(m)) = RamAt(Op, ctl.phase + 1)
<1> DEFINE q == boundary.pending
           u == boundary.startup
           m == MainRow(Op, ctl.phase)
           sp == boundary.cpu.sp
<1>1. /\ TypeInv /\ ~ctl.fetch /\ Even(cpu.pc) /\ Even(cpu.sp) /\ ctl.ir.num \in Word
      /\ Executing /\ BoundaryOK /\ ctl.phase \in 0 .. 5
      /\ cpu.regs = boundary.cpu.regs /\ cpu.ps = boundary.cpu.ps
  BY UnderWay, InPhase DEF Busy, Executing
<1>b. /\ Base = View(Base.cpu, boundary.ram, q, u) /\ Base.cpu \in CpuTypes
      /\ Base.cpu = [pc |-> Base.cpu.pc, sp |-> sp, ps |-> boundary.cpu.ps,
                     regs |-> boundary.cpu.regs]
  BY BaseIs
<1>2. ~ctl.incAddress
  BY HalfOf
<1>c. cpu = [pc |-> cpu.pc, sp |-> cpu.sp, ps |-> cpu.ps, regs |-> cpu.regs]
  BY <1>1 DEF TypeInv, CpuTypes
<1>d. ctl.phase = 0 => cpu = Base.cpu /\ ram = boundary.ram
  BY <1>2, FirstPhase
<1>3. CASE Op \in Calls
  <2> DEFINE b == View([cpu EXCEPT !.sp = sp], boundary.ram, q, u)
  <2>1. ctl.phase = 0 /\ LastMain(Op) = 1
    BY <1>1, <1>3 DEF LastMain, Calls
  <2>2. cpu = Base.cpu /\ ram = boundary.ram
    BY <1>d, <2>1
  <2>3. sp \in Word /\ Even(sp) /\ cpu.sp = sp
    BY <1>1, <1>b, <2>2 DEF BoundaryOK, CpuTypes
  <2> DEFINE c == [cpu EXCEPT !.sp = sp]
  <2>4. c = Base.cpu
    BY <1>b, <2>2
  <2>5. b = Base
    <3> HIDE DEF c
    <3>1. View(c, boundary.ram, q, u) = Base
      BY <1>b, <2>4
    <3> QED
      BY <3>1 DEF c
  <2>6. /\ Registers3(MainRow(Op, 0), e, cpu.pc, Minus(sp, 2), cpu.ps)
        /\ RamWritten(MainRow(Op, 0), Datapath(MainRow(Op, 0))) = Target.ram
    BY <1>1, <1>2, <1>3, <2>1, <2>2, <2>3, <2>5, CallPhases DEF Target
  <2>7. PcAt(Op, 1) = cpu.pc /\ SpAt(Op, 1) = Minus(sp, 2) /\ RamAt(Op, 1) = Target.ram
    BY <1>3, <2>2 DEF PcAt, SpAt, RamAt, Calls, Pushing, Popping
  <2> QED
    BY <1>1, <2>1, <2>6, <2>7 DEF Registers3
<1>4. CASE Op = "rti"
  <2>1. ctl.phase = 0
    BY <1>1, <1>4 DEF LastMain, Calls
  <2>2. cpu = Base.cpu /\ ram = boundary.ram
    BY <1>d, <2>1
  <2>3. LET b == View(Base.cpu, ram, q, u) IN
        /\ Machine!Effect(ctl.ir, b).ram = ram
        /\ RamWritten(MainRow(Op, 0), Datapath(MainRow(Op, 0))) = ram
        /\ Registers3(MainRow(Op, 0), e, Load(ram, Base.cpu.sp), Plus(Base.cpu.sp, 2), Base.cpu.ps)
    BY <1>1, <1>2, <1>4, <1>b, <2>1, <2>2, ReturnPhases
  <2>4. View(Base.cpu, ram, q, u) = Base
    BY <1>b, <2>2
  <2>5. /\ PcAt(Op, 1) = Load(ram, Base.cpu.sp) /\ SpAt(Op, 1) = Plus(Base.cpu.sp, 2)
        /\ RamAt(Op, 1) = Target.ram
    BY <1>4, <1>b, <2>2 DEF PcAt, SpAt, RamAt, Calls, Pushing, Popping
  <2> QED
    BY <1>1, <1>b, <2>1, <2>2, <2>3, <2>4, <2>5 DEF Registers3, Target
<1>5. CASE Op = "reset"
  <2>1. ctl.phase = 0
    BY <1>1, <1>5 DEF LastMain, Calls
  <2>2. cpu = Base.cpu /\ ram = boundary.ram
    BY <1>d, <2>1
  <2>3. LET b == View(Base.cpu, ram, q, u) IN
        /\ Machine!Effect(ctl.ir, b).ram = ram
        /\ RamWritten(MainRow(Op, 0), Datapath(MainRow(Op, 0))) = ram
        /\ Registers3(MainRow(Op, 0), e, rom(4 * ctl.ir.num).num, Base.cpu.sp, Base.cpu.ps)
    BY <1>1, <1>2, <1>5, <1>b, <2>1, <2>2, ResetPhases, UnderWay
  <2>4. View(Base.cpu, ram, q, u) = Base
    BY <1>b, <2>2
  <2>5. /\ PcAt(Op, 1) = rom(4 * ctl.ir.num).num /\ SpAt(Op, 1) = Base.cpu.sp
        /\ RamAt(Op, 1) = Target.ram
    BY <1>5, <1>b DEF PcAt, SpAt, RamAt, Calls, Pushing, Popping
  <2> QED
    BY <1>1, <1>b, <2>1, <2>2, <2>3, <2>4, <2>5 DEF Registers3, Target
<1>6. CASE Op = "int"
  <2> DEFINE b == View(Base.cpu, boundary.ram, q, u)
             t == Machine!Effect(ctl.ir, b)
             s1 == Minus(Base.cpu.sp, 2)
             s2 == Minus(s1, 2)
  <2>1. b = Base /\ t = Target /\ ctl.phase \in 0 .. 2
    BY <1>1, <1>6, <1>b DEF Target, LastMain, Calls
  <2>2. cpu.regs = Base.cpu.regs /\ cpu.ps = Base.cpu.ps /\ 4 * ctl.ir.num + 2 < WordSize
    BY <1>1, <1>6, <1>b, UnderWay
  <2>3. /\ ctl.phase = 0 /\ cpu.sp = Base.cpu.sp /\ ram = boundary.ram =>
             /\ Registers3(MainRow(Op, 0), e, cpu.pc, s1, Base.cpu.ps)
             /\ RamWritten(MainRow(Op, 0), Datapath(MainRow(Op, 0))) = Machine!Push(b, Base.cpu.ps).ram
        /\ ctl.phase = 1 /\ cpu.sp = s1 /\ cpu.pc = Base.cpu.pc /\ ram = Machine!Push(b, Base.cpu.ps).ram =>
             /\ Registers3(MainRow(Op, 1), e, cpu.pc, s2, Base.cpu.ps)
             /\ RamWritten(MainRow(Op, 1), Datapath(MainRow(Op, 1))) = t.ram
        /\ RamWritten(MainRow(Op, 2), Datapath(MainRow(Op, 2))) = ram
        /\ ctl.phase = 2 /\ cpu.sp = s2 =>
             Registers3(MainRow(Op, 2), e, rom(4 * ctl.ir.num).num, s2, Base.cpu.ps)
    BY <1>1, <1>2, <1>6, <1>b, <2>2, EntryPhases
  <2>4. /\ SpAt(Op, 0) = Base.cpu.sp /\ SpAt(Op, 1) = s1 /\ SpAt(Op, 2) = s2 /\ SpAt(Op, 3) = s2
        /\ PcAt(Op, 0) = Base.cpu.pc /\ PcAt(Op, 1) = Base.cpu.pc /\ PcAt(Op, 2) = Base.cpu.pc
        /\ PcAt(Op, 3) = rom(4 * ctl.ir.num).num
        /\ RamAt(Op, 1) = Machine!Push(b, Base.cpu.ps).ram /\ RamAt(Op, 2) = t.ram /\ RamAt(Op, 3) = t.ram
    BY <1>6, <1>b, <2>1 DEF PcAt, SpAt, RamAt, Calls, Pushing, Popping
  <2>5. /\ cpu.sp = SpAt(Op, ctl.phase) /\ cpu.pc = PcAt(Op, ctl.phase)
        /\ ctl.phase # 0 => ram = RamAt(Op, ctl.phase)
    BY <1>1, <1>2 DEF Executing
  <2> HIDE DEF b, t
  <2>6. CASE ctl.phase = 0
    BY <1>1, <1>b, <1>d, <2>3, <2>4, <2>5, <2>6 DEF Registers3
  <2>7. CASE ctl.phase = 1
    BY <1>1, <1>b, <2>3, <2>4, <2>5, <2>7 DEF Registers3
  <2>8. CASE ctl.phase = 2
    BY <1>1, <1>b, <2>3, <2>4, <2>5, <2>8 DEF Registers3
  <2> QED
    BY <2>1, <2>6, <2>7, <2>8
<1>7. Op \in Calls \cup {"rti", "reset", "int"}
  BY <1>1 DEF LastMain
<1> QED
  BY <1>3, <1>4, <1>5, <1>6, <1>7

-------------------------------------------------------------------------------
(* The phases of an instruction that an exception breaks off.                 *)

\* Rows that access the same leave the same.
LEMMA SameAccess ==
    ASSUME NEW s, NEW t, \A b \in Accesses : b \in s <=> b \in t
    PROVE  /\ Datapath(s) = Datapath(t)
           /\ \A p : RamWritten(s, p) = RamWritten(t, p)
           /\ \A a : DataIn(s, a) = DataIn(t, a)
<1>1. /\ ("mem" \in s <=> "mem" \in t) /\ ("data" \in s <=> "data" \in t)
      /\ ("word" \in s <=> "word" \in t) /\ ("read" \in s <=> "read" \in t)
      /\ ("r_asrt0" \in s <=> "r_asrt0" \in t) /\ ("sp_asrt0" \in s <=> "sp_asrt0" \in t)
      /\ ("pc_asrt0" \in s <=> "pc_asrt0" \in t) /\ ("r_asrt1" \in s <=> "r_asrt1" \in t)
      /\ ("imm_asrt1" \in s <=> "imm_asrt1" \in t) /\ ("imm_shift" \in s <=> "imm_shift" \in t)
      /\ ("r_asrtD" \in s <=> "r_asrtD" \in t) /\ ("imm_asrtD" \in s <=> "imm_asrtD" \in t)
      /\ ("sp_asrtD" \in s <=> "sp_asrtD" \in t) /\ ("pc_asrtD" \in s <=> "pc_asrtD" \in t)
      /\ ("ps_asrtD" \in s <=> "ps_asrtD" \in t) /\ ("alu_asrtD" \in s <=> "alu_asrtD" \in t)
      /\ ("sp_dec" \in s <=> "sp_dec" \in t)
  BY DEF Accesses
<1>2. Imm(s) = Imm(t) /\ SpOut(s) = SpOut(t) /\ (CarryIn(s) <=> CarryIn(t))
  BY <1>1 DEF Imm, SpOut, CarryIn
<1>3. Bus0(s) = Bus0(t) /\ Bus1(s) = Bus1(t)
  BY <1>1, <1>2 DEF Bus0, Bus1
<1>4. Sum(s) = Sum(t)
  BY <1>2, <1>3 DEF Sum
<1>5. \A a : WordAccess(s, a) <=> WordAccess(t, a)
  BY <1>1 DEF WordAccess
<1>6. \A a : DataIn(s, a) = DataIn(t, a)
  BY <1>1, <1>5 DEF DataIn
<1>7. \A in : FromMemory(s, in) = FromMemory(t, in)
  BY <1>1 DEF FromMemory
<1>8. \A a : BusD(s, a) = BusD(t, a)
  BY <1>1, <1>2, <1>6, <1>7 DEF BusD
<1>9. \A p : RamWritten(s, p) = RamWritten(t, p)
  BY <1>1, <1>5 DEF RamWritten
<1> QED
  BY <1>4, <1>6, <1>8, <1>9 DEF Datapath

\* With or without an exception a phase leaves the same memory.
LEMMA RamStep ==
    ASSUME Busy, Aligned
    PROVE  LET m == MainRow(Op, ctl.phase)
               x == ExcRow(Op, ctl.phase)
           IN  /\ ctl.phase <= LastMain(Op) =>
                    RamWritten(m, Datapath(m)) = RamAt(Op, ctl.phase + 1)
               /\ RamWritten(x, Datapath(x)) = RamAt(Op, ctl.phase + 1)
<1> DEFINE m == MainRow(Op, ctl.phase)
           x == ExcRow(Op, ctl.phase)
           ph == ctl.phase
           e == [triggered |-> FALSE]
<1>1. /\ TypeInv /\ ~ctl.fetch /\ Even(cpu.pc) /\ Even(cpu.sp) /\ ctl.ir.num \in Word
      /\ Executing /\ BoundaryOK /\ cpu.regs = boundary.cpu.regs /\ cpu.ps = boundary.cpu.ps
      /\ ph \in 0 .. 5 /\ LastMain(Op) \in 0 .. 3
      /\ ph > LastMain(Op) => ctl.exc
  BY UnderWay, InPhase DEF Busy, Executing
<1>2. ExcRowOf(x, m, Op, ph)
  BY InPhase DEF Agree
<1>3. ASSUME ph <= LastMain(Op)
      PROVE  RamWritten(m, Datapath(m)) = RamAt(Op, ph + 1)
  <2>1. CASE cpu.pc = PcAt(Op, ph) /\ ph < LastMain(Op)
    <3>1. ~e.triggered
      OBVIOUS
    <3> QED
      BY <2>1, <3>1, EarlierPhase
  <2>2. CASE cpu.pc = PcAt(Op, ph) /\ ph = LastMain(Op)
    <3>1. ~e.triggered
      OBVIOUS
    <3> HIDE DEF e
    <3>2. RamWritten(m, Datapath(m)) = Target.ram
      BY <2>2, <3>1, LastPhase DEF Does
    <3>3. RamAt(Op, ph + 1) = Target.ram
      BY <2>2 DEF RamAt, LastMain, Calls
    <3> QED
      BY <3>2, <3>3
  <2>3. CASE cpu.pc # PcAt(Op, ph)
    <3>1. ~PcKept
      BY <1>1, <2>3 DEF Executing
    <3>2. \/ Op = "rti" /\ ph = 1
          \/ Op = "reset" /\ ph = 1
          \/ Op = "int" /\ ph = 3
      BY <1>1, <1>3, <3>1 DEF PcKept, LastMain, Calls
    <3>3. ~ctl.incAddress
      BY <3>2, HalfOf
    <3>4. ram = RamAt(Op, ph)
      BY <1>1, <3>2, <3>3 DEF Executing
    <3>5. RamAt(Op, ph) = RamAt(Op, ph + 1)
      BY <3>2 DEF RamAt
    <3>6. m \in {{"mem", "data", "word", "read", "sp_asrt0", "ps_latch_word", "sp_inc", "cut"},
                 {"mem", "word", "read", "imm_asrt1", "ps_latch_word", "cut"}}
      BY <3>2, RowsOfRti, RowsOfReset, RowsOfInt2
    <3>7. RamWritten(m, Datapath(m)) = ram
      BY <3>6 DEF RamWritten
    <3> QED
      BY <3>4, <3>5, <3>7
  <2> QED
    BY <1>1, <1>3, <2>1, <2>2, <2>3
<1>4. CASE ph <= LastMain(Op)
  BY <1>2, <1>3, <1>4, SameAccess DEF ExcRowOf
<1>5. CASE ph > LastMain(Op)
  <2>1. "mem" \notin x
    BY <1>2, <1>5 DEF ExcRowOf
  <2>2. RamWritten(x, Datapath(x)) = ram
    BY <2>1 DEF RamWritten
  <2>3. ph # 0 /\ ~ctl.incAddress
    BY <1>1, <1>5, HalfOf
  <2>4. ram = RamAt(Op, ph)
    BY <1>1, <2>3 DEF Executing
  <2>5. RamAt(Op, ph) = RamAt(Op, ph + 1)
    BY <1>1, <1>5, <2>3 DEF RamAt, LastMain, Calls
  <2> QED
    BY <1>1, <1>5, <2>2, <2>4, <2>5
<1> QED
  BY <1>1, <1>3, <1>4, <1>5

\* sp is where it was, in the end.
LEMMA SpBack ==
    ASSUME Busy
    PROVE  LET x == ExcRow(Op, ctl.phase) IN
           (CASE "sp_inc" \in x -> Plus(cpu.sp, 2)
              [] "sp_dec" \in x -> Minus(cpu.sp, 2)
              [] OTHER -> cpu.sp) =
           IF ctl.phase = LastExc(Op) THEN boundary.cpu.sp ELSE SpAt(Op, ctl.phase + 1)
<1> DEFINE x == ExcRow(Op, ctl.phase)
           ph == ctl.phase
           sp == boundary.cpu.sp
<1>1. /\ cpu.sp = SpAt(Op, ph) /\ sp \in Word /\ ph \in 0 .. 5 /\ ph <= LastExc(Op)
      /\ ExcRowOf(x, MainRow(Op, ph), Op, ph)
  BY InPhase DEF Busy, Executing, BoundaryOK, CpuTypes, Agree
<1>2. /\ "sp_inc" \in x <=> \/ Op \in Pushing /\ ph = LastExc(Op)
                            \/ Op \in Popping /\ ph = 0
                            \/ Op = "rti" /\ ph <= 1
                            \/ Op = "int" /\ ph >= 4
      /\ "sp_dec" \in x <=> \/ Op \in Pushing /\ ph = 0
                            \/ Op \in Popping /\ ph = 1
                            \/ Op = "rti" /\ ph >= 2
                            \/ Op = "int" /\ ph <= 1
  BY <1>1 DEF ExcRowOf
<1>3. /\ Plus(Minus(sp, 2), 2) = sp /\ Minus(Plus(sp, 2), 2) = sp
      /\ Plus(Minus(Minus(sp, 2), 2), 2) = Minus(sp, 2)
      /\ Minus(Plus(Plus(sp, 2), 2), 2) = Plus(sp, 2)
  <2>1. sp \in Word /\ Minus(sp, 2) \in Word /\ Plus(sp, 2) \in Word
    BY <1>1, PlusMinus
  <2> QED
    BY <2>1, ThereAndBack
<1> HIDE DEF x, sp
<1>4. CASE Op \in Pushing
  <2>1. LastExc(Op) \in {1, 2} /\ Op \notin Popping /\ Op # "rti" /\ Op # "int"
    BY <1>4 DEF LastExc, Pushing, Popping, Setting, Calls
  <2>2. SpAt(Op, 0) = sp /\ SpAt(Op, 1) = Minus(sp, 2) /\ SpAt(Op, 2) = Minus(sp, 2)
    BY <1>4, <2>1 DEF SpAt, sp
  <2>3. ph \in 0 .. 2
    BY <1>1, <2>1
  <2> QED
    BY <1>1, <1>2, <1>3, <1>4, <2>1, <2>2, <2>3 DEF x, sp
<1>5. CASE Op \in Popping
  <2>1. LastExc(Op) = 1 /\ Op \notin Pushing /\ Op # "rti" /\ Op # "int"
    BY <1>5 DEF LastExc, Pushing, Popping, Setting, Calls
  <2>2. SpAt(Op, 0) = sp /\ SpAt(Op, 1) = Plus(sp, 2)
    BY <1>5, <2>1 DEF SpAt, sp
  <2>3. ph \in 0 .. 1
    BY <1>1, <2>1
  <2> QED
    BY <1>1, <1>2, <1>3, <1>5, <2>1, <2>2, <2>3 DEF x, sp
<1>6. CASE Op = "rti"
  <2>1. LastExc(Op) = 3 /\ Op \notin Pushing /\ Op \notin Popping /\ Op # "int"
    BY <1>6 DEF LastExc, Pushing, Popping, Setting, Calls
  <2>2. /\ SpAt(Op, 0) = sp /\ SpAt(Op, 1) = Plus(sp, 2) /\ SpAt(Op, 2) = Plus(Plus(sp, 2), 2)
        /\ SpAt(Op, 3) = Plus(sp, 2)
    BY <1>6, <2>1 DEF SpAt, sp
  <2>3. ph \in 0 .. 3
    BY <1>1, <2>1
  <2> QED
    BY <1>1, <1>2, <1>3, <1>6, <2>1, <2>2, <2>3 DEF x, sp
<1>7. CASE Op = "int"
  <2>1. LastExc(Op) = 5 /\ Op \notin Pushing /\ Op \notin Popping /\ Op # "rti"
    BY <1>7 DEF LastExc, Pushing, Popping, Setting, Calls
  <2>2. /\ SpAt(Op, 0) = sp /\ SpAt(Op, 1) = Minus(sp, 2) /\ SpAt(Op, 2) = Minus(Minus(sp, 2), 2)
        /\ SpAt(Op, 3) = Minus(Minus(sp, 2), 2) /\ SpAt(Op, 4) = Minus(Minus(sp, 2), 2)
        /\ SpAt(Op, 5) = Minus(sp, 2)
    BY <1>7, <2>1 DEF SpAt, sp
  <2>3. ph \in 0 .. 5
    BY <1>1, <2>1
  <2> QED
    BY <1>1, <1>2, <1>3, <1>7, <2>1, <2>2, <2>3 DEF x, sp
<1>8. CASE Op \notin Pushing \cup Popping \cup {"rti", "int"}
  <2>1. SpAt(Op, ph) = sp /\ SpAt(Op, ph + 1) = sp
    BY <1>1, <1>8 DEF SpAt, sp
  <2> QED
    BY <1>1, <1>2, <1>8, <2>1 DEF x, sp
<1> QED
  BY <1>4, <1>5, <1>6, <1>7, <1>8

\* A broken phase latches nothing but the flags of an addition.
LEMMA BrokenPhase ==
    ASSUME Busy, NEW e, e.triggered
    PROVE  LET x == ExcRow(Op, ctl.phase)
               last == ctl.phase = LastExc(Op)
           IN  Registered(x, e, Datapath(x)) =
                 [pc |-> IF last /\ Op \notin Lost /\ ~ctl.virtual THEN Minus(cpu.pc, 2) ELSE cpu.pc,
                  sp |-> IF last THEN boundary.cpu.sp ELSE SpAt(Op, ctl.phase + 1),
                  ps |-> IF Op = "add_p" THEN SetFlags(cpu.ps, Datapath(x).flags) ELSE cpu.ps,
                  regs |-> cpu.regs]
<1> DEFINE x == ExcRow(Op, ctl.phase)
           sp2 == CASE "sp_inc" \in x -> Plus(cpu.sp, 2)
                    [] "sp_dec" \in x -> Minus(cpu.sp, 2)
                    [] OTHER -> cpu.sp
<1>1. ExcRowOf(x, MainRow(Op, ctl.phase), Op, ctl.phase)
  BY InPhase DEF Agree
<1>2. /\ "r_latch" \notin x /\ "pc_latch" \notin x /\ "sp_latch" \notin x /\ "ps_latch_word" \notin x
      /\ "ps_latch_flags" \in x <=> Op = "add_p"
      /\ "pc_inc" \in x <=> ctl.phase = LastExc(Op) /\ Op \notin Lost
  BY <1>1 DEF ExcRowOf
<1>3. sp2 = IF ctl.phase = LastExc(Op) THEN boundary.cpu.sp ELSE SpAt(Op, ctl.phase + 1)
  BY SpBack
<1> HIDE DEF x
<1>4. Registered(x, e, Datapath(x)) =
        [pc |-> IF "pc_inc" \in x /\ ~ctl.virtual THEN Minus(cpu.pc, 2) ELSE cpu.pc,
         sp |-> sp2,
         ps |-> IF Op = "add_p" THEN SetFlags(cpu.ps, Datapath(x).flags) ELSE cpu.ps,
         regs |-> cpu.regs]
  BY <1>2 DEF Registered
<1> QED
  BY <1>2, <1>3, <1>4 DEF x

-------------------------------------------------------------------------------
(* Addresses and exceptions.                                                  *)

\* pc and sp stay even: an odd value for one of them breaks the instruction.
LEMMA EvenKept ==
    ASSUME TypeInv, Even(cpu.pc), Even(cpu.sp), NEW s, NEW e, NEW p, p.data \in Word,
           "pc_latch" \in s \/ "sp_latch" \in s => Even(p.data)
    PROVE  Even(Registered(s, e, p).pc) /\ Even(Registered(s, e, p).sp)
<1> DEFINE pc1 == IF "pc_latch" \in s THEN p.data ELSE cpu.pc
           sp1 == IF "sp_latch" \in s THEN p.data ELSE cpu.sp
<1>1. pc1 \in Word /\ Even(pc1) /\ sp1 \in Word /\ Even(sp1)
  BY DEF TypeInv, CpuTypes
<1> HIDE DEF pc1, sp1
<1>2. /\ Even(Plus(pc1, 2)) /\ Even(Minus(pc1, 2))
      /\ Even(Plus(sp1, 2)) /\ Even(Minus(sp1, 2))
  BY <1>1, EvenSteps
<1>3. /\ Registered(s, e, p).pc \in {pc1, Plus(pc1, 2), Minus(pc1, 2)}
      /\ Registered(s, e, p).sp \in {sp1, Plus(sp1, 2), Minus(sp1, 2)}
  BY DEF Registered, pc1, sp1
<1> QED
  BY <1>1, <1>2, <1>3

\* Words are accessed at even addresses, but for those of a register.
LEMMA WordsAligned ==
    ASSUME TypeInv, Even(cpu.pc), Even(cpu.sp), NEW m, "word" \in m, "r_asrt0" \notin m,
           "r_asrt1" \notin m, ~CarryIn(m), "imm_asrt1" \in m => IntInstruction
    PROVE  ~ClkInhibit(m, Datapath(m).address)
<1>1. /\ cpu.pc \in Word /\ cpu.sp \in Word /\ ctl.ir.num \in Nat /\ ctl.phase \in Nat
      /\ WordSize \in Nat \ {0} /\ WordSize % 16 = 0 /\ Word \subseteq Nat
  BY Sizes DEF TypeInv, CpuTypes, CtlTypes, Instructions
<1>2. Bus0(m) \in Word /\ Even(Bus0(m))
  <2>1. Even(SpOut(m)) /\ SpOut(m) \in Word
    <3>1. cpu.sp \in Word
      BY <1>1
    <3>2. Even(Minus(cpu.sp, 2))
      BY <3>1, EvenSteps
    <3>3. Minus(cpu.sp, 2) \in Word
      BY <3>1, PlusMinus
    <3> QED
      BY <3>1, <3>2, <3>3 DEF SpOut
  <2>2. Bus0(m) \in {SpOut(m), cpu.pc, 0}
    BY DEF Bus0
  <2>3. Even(0) /\ 0 \in Word
    BY Sizes DEF Even
  <2> QED
    BY <1>1, <2>1, <2>2, <2>3
<1>3. PICK k \in Nat : Bus1(m) = (2 * k) % WordSize
  <2>1. CASE "imm_asrt1" \in m
    <3> DEFINE k == 2 * ctl.ir.num + (ctl.phase % 2)
    <3>1. k \in Nat /\ 2 * k = 4 * ctl.ir.num + 2 * (ctl.phase % 2)
      BY <1>1
    <3>2. Bus1(m) = (4 * ctl.ir.num + 2 * (ctl.phase % 2)) % WordSize
      BY <2>1 DEF Bus1, Imm
    <3> QED
      BY <3>1, <3>2
  <2>2. CASE "imm_asrt1" \notin m
    <3>1. Bus1(m) = 0
      BY <2>2 DEF Bus1
    <3>2. 0 = (2 * 0) % WordSize
      BY <1>1
    <3> QED
      BY <3>1, <3>2
  <2> QED
    BY <2>1, <2>2
<1>4. Datapath(m).address = Plus(Bus0(m), 2 * k)
  <2>1. Bus0(m) \in Nat /\ 2 * k \in Nat /\ (2 * k) % WordSize \in Nat
    <3>1. 2 * k \in Nat
      OBVIOUS
    <3>2. (2 * k) % WordSize \in Word
      BY <3>1, ModWord
    <3> QED
      BY <1>1, <1>2, <3>1, <3>2
  <2>2. Sum(m) = Bus0(m) + ((2 * k) % WordSize)
    BY <1>3, <2>1 DEF Sum
  <2>3. Sum(m) % WordSize = Plus(Bus0(m), 2 * k)
    BY <2>1, <2>2, RestOfRest DEF Plus
  <2> QED
    BY <2>3 DEF Datapath
<1>5. Even(Plus(Bus0(m), 2 * k))
  BY <1>2, <1>3, EvenSum
<1> QED
  BY <1>4, <1>5 DEF ClkInhibit, Even

\* The clock is held by the first half of an unaligned access, and by nothing else.
LEMMA InhibitIs ==
    ASSUME Busy
    PROVE  LET m == MainRow(Op, ctl.phase) IN
           ClkInhibit(m, Datapath(m).address) <=> ~Aligned
<1> DEFINE m == MainRow(Op, ctl.phase)
           a == cpu.regs[ctl.ir.rs]
<1>1. /\ TypeInv /\ ~ctl.fetch /\ Even(cpu.pc) /\ Even(cpu.sp) /\ Executing
      /\ a \in Word /\ a \in Nat
  BY Sizes DEF Busy, TypeInv, CpuTypes, CtlTypes, Instructions
<1>2. MainRowOf(m, Op, ctl.phase) /\ ctl.phase <= LastExc(Op) /\ ctl.phase \in Nat
  BY InPhase DEF Agree
<1>3. CASE Op \in {"ldw", "stw"}
  <2>1. ctl.phase = 0
    BY <1>2, <1>3 DEF LastExc, Calls, Pushing, Popping, Setting
  <2>2. CASE ~ctl.incAddress /\ ~Even(a)
    BY <1>1, <1>3, <2>1, <2>2, FirstHalf DEF Aligned
  <2>3. CASE ~ctl.incAddress /\ Even(a)
    <3>1. /\ "r_asrt0" \in m /\ "sp_asrt0" \notin m /\ "pc_asrt0" \notin m
          /\ "r_asrt1" \notin m /\ "imm_asrt1" \notin m
      BY <1>3, <2>1, RowsOfAccesses
    <3> HIDE DEF m
    <3>2. Bus0(m) = a /\ Bus1(m) = 0 /\ ~CarryIn(m)
      BY <1>3, <2>3, <3>1 DEF Bus0, Bus1, CarryIn
    <3>3. Datapath(m).address = a
      BY <1>1, <3>2, OneBus
    <3> QED
      BY <1>3, <2>3, <3>3 DEF Aligned, ClkInhibit, Even, m
  <2>4. CASE ctl.incAddress
    <3>1. ~Even(a)
      BY <2>4, HalfOf
    <3>2. /\ "r_asrt0" \in m /\ "sp_asrt0" \notin m /\ "pc_asrt0" \notin m
          /\ "r_asrt1" \notin m /\ "imm_asrt1" \notin m /\ "mem" \in m
      BY <1>3, <2>1, RowsOfAccesses
    <3> HIDE DEF m
    <3>3. Bus0(m) = a /\ Bus1(m) = 0 /\ CarryIn(m)
      BY <1>3, <2>4, <3>2 DEF Bus0, Bus1, CarryIn
    <3>4. Datapath(m).address = Plus(a, 1)
      BY <1>1, <3>3 DEF Datapath, Sum, Plus
    <3>5. Even(Plus(a, 1))
      BY <1>1, <3>1, EvenSteps
    <3> QED
      BY <1>3, <2>4, <3>4, <3>5 DEF Aligned, ClkInhibit, Even, m
  <2> QED
    BY <2>2, <2>3, <2>4
<1>4. CASE Op \notin {"ldw", "stw"}
  <2>1. ~ctl.incAddress /\ Aligned
    BY <1>4, HalfOf DEF Aligned
  <2>2. CASE "word" \in m
    <3>1. /\ "r_asrt0" \notin m /\ "r_asrt1" \notin m /\ Op # "alu3"
          /\ "imm_asrt1" \in m => IntInstruction
      BY <1>2, <1>4, <2>2 DEF MainRowOf, IntInstruction
    <3>2. ~CarryIn(m)
      BY <2>1, <3>1 DEF CarryIn
    <3> QED
      BY <1>1, <2>1, <2>2, <3>1, <3>2, WordsAligned
  <2>3. CASE "word" \notin m
    BY <2>1, <2>3 DEF ClkInhibit
  <2> QED
    BY <2>2, <2>3
<1> QED
  BY <1>3, <1>4

\* What the exception unit latches while an instruction is under way.
LEMMA Latching ==
    ASSUME ~ctl.fetch, TypeInv, NEW in \in Inputs, NEW m, NEW d
    PROVE  LET e == Ecu(in, m, d)
               internal == TrigSp(m, d) \/ TrigPc(m, d) \/ TrigInvalid(m)
               n == Vector(IntVec(e), ExtVec(in))
           IN  /\ ExcLatch(e) = e.triggered /\ e.triggered = (e.got \/ ctl.exc)
               /\ e.got = (internal \/ External(in))
               /\ e.got /\ (ctl.exc \/ Op \in {"int", "reset", "rti"} \/ (internal /\ External(in))) =>
                    n = DOUBLE_FAULT
               /\ e.got /\ ~ctl.exc /\ Op \notin {"int", "reset", "rti"} /\ ~internal =>
                    n \in Externals
               /\ e.got /\ ~ctl.exc /\ Op \notin {"int", "reset", "rti"} /\ ~External(in) =>
                    n = IF TrigInvalid(m) THEN 3 ELSE IF TrigPc(m, d) THEN 2 ELSE 1
               /\ ~e.got => n = Vector(ctl.intVec, ctl.extVec)
               /\ e.critical => ctl.ir = Int(DOUBLE_FAULT)
<1> DEFINE e == Ecu(in, m, d)
           internal == TrigSp(m, d) \/ TrigPc(m, d) \/ TrigInvalid(m)
           n == Vector(IntVec(e), ExtVec(in))
<1>1. ctl.exc \in BOOLEAN
  BY DEF TypeInv, CtlTypes
<1>2. /\ e.got = (internal \/ External(in))
      /\ e.triggered = (e.got \/ ctl.exc)
      /\ e.double = (\/ Op = "rti" \/ IntInstruction
                     \/ internal /\ External(in)
                     \/ e.got /\ ctl.exc)
      /\ e.reset = FALSE
      /\ e.critical => ctl.ir = Int(DOUBLE_FAULT)
  BY Zenon DEF Ecu
<1>3. e.number = IF External(in) THEN EXTERNAL_EXC
                 ELSE IF TrigInvalid(m) THEN INVALID_INST
                 ELSE IF TrigPc(m, d) THEN UNALIGNED_PC ELSE UNALIGNED_SP
  BY DEF Ecu
<1> HIDE DEF e, internal
<1>4. ExcLatch(e) = e.triggered
  BY <1>1, <1>2 DEF ExcLatch
<1>5. External(in) => ExtVec(in) \in Externals
  BY DeviceNumbers DEF ExtVec
<1>6. ~e.got => n = Vector(ctl.intVec, ctl.extVec)
  BY <1>2 DEF IntVec, ExtVec
<1>7. e.got /\ (ctl.exc \/ Op \in {"int", "reset", "rti"} \/ (internal /\ External(in))) =>
        n = DOUBLE_FAULT
  BY <1>2 DEF IntVec, Vector, DOUBLE_FAULT, EXTERNAL_EXC, IntInstruction
<1>8. e.got /\ ~ctl.exc /\ Op \notin {"int", "reset", "rti"} /\ ~internal => n \in Externals
  BY <1>2, <1>3, <1>5 DEF IntVec, Vector, IntInstruction
<1>9. e.got /\ ~ctl.exc /\ Op \notin {"int", "reset", "rti"} /\ ~External(in) =>
        n = IF TrigInvalid(m) THEN 3 ELSE IF TrigPc(m, d) THEN 2 ELSE 1
  BY <1>2, <1>3
  DEF IntVec, Vector, IntInstruction, INVALID_INST, UNALIGNED_PC, UNALIGNED_SP, EXTERNAL_EXC
<1> QED
  BY <1>2, <1>4, <1>6, <1>7, <1>8, <1>9 DEF e, internal

Unrecoverable == {"int", "reset", "rti"}

\* What an instruction raises by itself is seen in its last phase.
LEMMA OwnException ==
    ASSUME Busy, ctl.phase = LastMain(Op), Aligned, Op \notin Unrecoverable
    PROVE  LET m == MainRow(Op, ctl.phase)
               d == Datapath(m).data
           IN  Own = IF TrigInvalid(m) THEN 3
                     ELSE IF TrigPc(m, d) THEN 2
                     ELSE IF TrigSp(m, d) THEN 1 ELSE 0
<1> DEFINE m == MainRow(Op, ctl.phase)
           p == Datapath(m)
           d == p.data
           e == [triggered |-> FALSE]
<1>1. /\ TypeInv /\ ~ctl.fetch /\ Executing /\ Even(cpu.pc) /\ Even(cpu.sp)
      /\ cpu.pc \in Word /\ cpu.sp \in Word /\ d \in Word /\ d \in Nat
  BY DatapathTypes, Sizes DEF Busy, TypeInv, CpuTypes
<1>2. ~ctl.virtual /\ Machine!Inst = ctl.ir
  BY UnderWay DEF Unrecoverable
<1>3. MainRowOf(m, Op, ctl.phase)
  BY InPhase DEF Agree
<1>4. Op = "invalid" <=> ctl.ir.op = "invalid"
  BY <1>1 DEF Op, Decode
<1>5. TrigInvalid(m) <=> Op = "invalid"
  <2>1. Op = "invalid" => m = {} /\ ctl.phase = 0 /\ ~ctl.incAddress
    BY <1>3, HalfOf DEF MainRowOf, LastMain, Calls
  <2>2. Op = "invalid" => ~ctl.exc
    BY <1>1, <1>2, <2>1 DEF Executing
  <2>3. Op # "invalid" => m # {}
    <3>1. ctl.phase <= LastMain(Op)
      BY InPhase
    <3> QED
      BY <1>3, <3>1 DEF MainRowOf
  <2> QED
    BY <2>1, <2>2, <2>3 DEF TrigInvalid
<1>6. CASE Op = "invalid"
  <2>1. Own = 3
    BY <1>2, <1>4, <1>6 DEF Own, Machine!Raised
  <2> QED
    BY <1>5, <1>6, <2>1
<1>7. CASE Op # "invalid"
  <2>1. cpu.pc = PcAt(Op, ctl.phase)
    BY <1>1 DEF Executing, PcKept, Unrecoverable
  <2>2. ~e.triggered
    OBVIOUS
  <2> HIDE DEF e
  <2>3. Target.cpu = Registered(m, e, p)
    BY <2>1, <2>2, LastPhase DEF Does
  <2> HIDE DEF m, p
  <2>4. /\ "pc_latch" \in m => "pc_inc" \notin m
        /\ "sp_latch" \in m => "sp_inc" \notin m /\ "sp_dec" \notin m
    BY <1>3 DEF MainRowOf
  <2>5. /\ "pc_latch" \in m => Target.cpu.pc = d
        /\ "sp_latch" \in m => Target.cpu.sp = d
    BY <2>3, <2>4 DEF Registered
  <2>6. "pc_latch" \notin m => Even(Target.cpu.pc)
    <3>1. Even(Plus(cpu.pc, 2))
      BY <1>1, EvenSteps
    <3>2. "pc_latch" \notin m => Target.cpu.pc \in {cpu.pc, Plus(cpu.pc, 2)}
      BY <2>2, <2>3 DEF Registered
    <3> QED
      BY <1>1, <3>1, <3>2
  <2>7. "sp_latch" \notin m => Even(Target.cpu.sp)
    <3>1. Even(Plus(cpu.sp, 2)) /\ Even(Minus(cpu.sp, 2))
      BY <1>1, EvenSteps
    <3>2. "sp_latch" \notin m => Target.cpu.sp \in {cpu.sp, Plus(cpu.sp, 2), Minus(cpu.sp, 2)}
      BY <2>3 DEF Registered
    <3> QED
      BY <1>1, <3>1, <3>2
  <2>8. /\ Target.cpu.pc % 2 = 1 <=> TrigPc(m, d)
        /\ Target.cpu.pc % 2 = 0 <=> ~TrigPc(m, d)
        /\ Target.cpu.sp % 2 = 1 <=> TrigSp(m, d)
    <3>1. d % 2 = 0 \/ d % 2 = 1
      BY <1>1
    <3> QED
      BY <2>5, <2>6, <2>7, <3>1 DEF TrigPc, TrigSp, Even
  <2>9. Machine!Inst.op # "invalid" /\ ~TrigInvalid(m)
    BY <1>2, <1>4, <1>5, <1>7 DEF m
  <2>10. Own = IF TrigPc(m, d) THEN 2 ELSE IF TrigSp(m, d) THEN 1 ELSE 0
    BY <2>8, <2>9 DEF Own, Machine!Raised
  <2> QED
    BY <2>9, <2>10 DEF m, p
<1> QED
  BY <1>6, <1>7

\* The exception latched in a clock is one that the instruction set allows for.
LEMMA PendingIs ==
    ASSUME Busy, NEW in \in Inputs
    PROVE  LET m == MainRow(Op, ctl.phase)
               e == Ecu(in, m, Datapath(m).data)
               n == Vector(IntVec(e), ExtVec(in))
           IN  e.triggered =>
                 /\ Op \in Unrecoverable => n = DOUBLE_FAULT
                 /\ Op \notin Unrecoverable /\ (ctl.phase < LastMain(Op) \/ ~Aligned) =>
                      n \in {DOUBLE_FAULT} \cup Externals
                 /\ Op \notin Unrecoverable /\ ctl.phase >= LastMain(Op) /\ Aligned =>
                      n \in {DOUBLE_FAULT} \cup (IF Own = 0 THEN Externals ELSE {Own})
                 /\ Op \in Lost => n \in Externals
<1> DEFINE m == MainRow(Op, ctl.phase)
           d == Datapath(m).data
           e == Ecu(in, m, d)
           n == Vector(IntVec(e), ExtVec(in))
           internal == TrigSp(m, d) \/ TrigPc(m, d) \/ TrigInvalid(m)
<1>1. /\ TypeInv /\ ~ctl.fetch /\ Executing /\ ctl.phase \in 0 .. 5
      /\ LastMain(Op) \in 0 .. 3
      /\ MainRowOf(m, Op, ctl.phase)
      /\ ctl.phase > LastMain(Op) => ctl.exc
  BY InPhase DEF Busy, Agree
<1>2. /\ e.triggered = (e.got \/ ctl.exc)
      /\ e.got = (internal \/ External(in))
      /\ e.got /\ (ctl.exc \/ Op \in Unrecoverable \/ (internal /\ External(in))) => n = DOUBLE_FAULT
      /\ e.got /\ ~ctl.exc /\ Op \notin Unrecoverable /\ ~internal => n \in Externals
      /\ e.got /\ ~ctl.exc /\ Op \notin Unrecoverable /\ ~External(in) =>
           n = IF TrigInvalid(m) THEN 3 ELSE IF TrigPc(m, d) THEN 2 ELSE 1
      /\ ~e.got => n = Vector(ctl.intVec, ctl.extVec)
  BY <1>1, Latching DEF Unrecoverable
<1>3. ctl.exc => Broken /\ Pending = Vector(ctl.intVec, ctl.extVec)
  BY <1>1 DEF Executing, Pending
<1> HIDE DEF m, d, e, n, internal
<1>4. ASSUME e.triggered, Op \in Unrecoverable PROVE n = DOUBLE_FAULT
  BY <1>2, <1>3, <1>4 DEF Broken, Unrecoverable
<1>5. ctl.phase < LastMain(Op) /\ Op \notin Unrecoverable => ~internal
  <2> SUFFICES ASSUME ctl.phase < LastMain(Op), Op \notin Unrecoverable PROVE ~internal
    OBVIOUS
  <2>1. Op # "invalid" /\ ctl.phase <= LastMain(Op) /\ ctl.phase # LastMain(Op)
    BY <1>1 DEF LastMain, Calls
  <2>2. m # {} /\ "pc_latch" \notin m /\ "sp_latch" \notin m
    BY <1>1, <2>1 DEF MainRowOf, Unrecoverable
  <2> QED
    BY <2>2 DEF internal, TrigPc, TrigSp, TrigInvalid
<1>6. ~Aligned => ~internal /\ Op \notin Unrecoverable /\ ctl.phase <= LastMain(Op)
  <2> SUFFICES ASSUME ~Aligned
               PROVE  ~internal /\ Op \notin Unrecoverable /\ ctl.phase <= LastMain(Op)
    OBVIOUS
  <2>1. Op \in {"ldw", "stw"} /\ ctl.phase = 0
    BY <1>1, InPhase DEF Aligned, LastExc, Calls, Pushing, Popping, Setting
  <2>2. m # {} /\ "pc_latch" \notin m /\ "sp_latch" \notin m
    BY <2>1, RowsOfAccesses DEF m
  <2> QED
    BY <1>1, <2>1, <2>2 DEF internal, TrigPc, TrigSp, TrigInvalid, Unrecoverable
<1>7. ASSUME e.triggered, Op \notin Unrecoverable, ctl.phase < LastMain(Op) \/ ~Aligned
      PROVE  n \in {DOUBLE_FAULT} \cup Externals
  <2>1. ~internal /\ ctl.phase <= LastMain(Op)
    BY <1>1, <1>5, <1>6, <1>7
  <2>2. ctl.exc => Pending \in {DOUBLE_FAULT} \cup Externals
    BY <1>3, <1>7, <2>1 DEF Broken, Unrecoverable
  <2> QED
    BY <1>2, <1>3, <1>7, <2>1, <2>2
<1>8. ASSUME e.triggered, Op \notin Unrecoverable, ctl.phase >= LastMain(Op), Aligned
      PROVE  n \in {DOUBLE_FAULT} \cup (IF Own = 0 THEN Externals ELSE {Own})
  <2>1. CASE ctl.phase = LastMain(Op)
    <3>1. /\ Own = IF TrigInvalid(m) THEN 3
                   ELSE IF TrigPc(m, d) THEN 2
                   ELSE IF TrigSp(m, d) THEN 1 ELSE 0
      BY <1>8, <2>1, OwnException DEF m, d
    <3>2. Own = 0 <=> ~internal
      BY <3>1 DEF internal
    <3>3. ctl.exc => Pending \in {DOUBLE_FAULT} \cup Externals
      BY <1>1, <1>3, <1>8, <2>1 DEF Broken, Unrecoverable
    <3>4. CASE ~e.got
      BY <1>2, <1>3, <1>8, <3>2, <3>3, <3>4
    <3>5. CASE e.got /\ ctl.exc
      BY <1>2, <3>5
    <3>6. CASE e.got /\ ~ctl.exc /\ ~internal
      BY <1>2, <1>8, <3>2, <3>6
    <3>7. CASE e.got /\ ~ctl.exc /\ internal /\ External(in)
      BY <1>2, <3>7
    <3>8. CASE e.got /\ ~ctl.exc /\ internal /\ ~External(in)
      <4>1. n = IF TrigInvalid(m) THEN 3 ELSE IF TrigPc(m, d) THEN 2 ELSE 1
        BY <1>2, <1>8, <3>8
      <4>2. n = Own
        BY <3>1, <3>8, <4>1 DEF internal
      <4> QED
        BY <3>2, <3>8, <4>2
    <3> QED
      BY <3>4, <3>5, <3>6, <3>7, <3>8
  <2>2. CASE ctl.phase > LastMain(Op)
    <3>1. ctl.exc
      BY <1>1, <2>2
    <3>2. ~(ctl.phase <= LastMain(Op))
      BY <1>1, <2>2
    <3>3. Pending \in {DOUBLE_FAULT} \cup (IF Own = 0 THEN Externals ELSE {Own})
      BY <1>3, <1>8, <3>1, <3>2 DEF Broken, Unrecoverable
    <3> QED
      BY <1>2, <1>3, <3>1, <3>3
  <2> QED
    BY <1>1, <1>8, <2>1, <2>2
<1>9. ASSUME e.triggered, Op \in Lost PROVE n \in Externals
  <2>1. ctl.phase = 0 /\ Op \notin Unrecoverable /\ LastMain(Op) = 0
    BY <1>9, InPhase DEF Lost, Unrecoverable, LastMain, LastExc, Calls, Pushing, Popping, Setting
  <2>2. ~ctl.virtual /\ ~ctl.incAddress
    BY <1>9, <2>1, UnderWay, HalfOf DEF Lost, Unrecoverable
  <2>3. ~ctl.exc
    BY <1>1, <2>1, <2>2 DEF Executing
  <2>4. ~internal
    <3>1. m # {} /\ "pc_latch" \notin m /\ "sp_latch" \notin m
      BY <1>1, <1>9, <2>1 DEF MainRowOf, Lost
    <3> QED
      BY <3>1 DEF internal, TrigPc, TrigSp, TrigInvalid
  <2> QED
    BY <1>2, <1>9, <2>1, <2>3, <2>4
<1> QED
  BY <1>4, <1>7, <1>8, <1>9 DEF m, d, e, n

-------------------------------------------------------------------------------
(* What a clock leaves of an instruction under way.                           *)

\* Base and what follows from it depend on the last boundary and on the instruction only.
LEMMA Continued ==
    ASSUME UNCHANGED <<image, boundary>>, ctl'.ir = ctl.ir, ctl'.virtual = ctl.virtual
    PROVE  /\ \A a : rom(a)' = rom(a)
           /\ Base' = Base /\ Target' = Target /\ Own' = Own
           /\ \A op, ph : /\ SpAt(op, ph)' = SpAt(op, ph)
                          /\ RamAt(op, ph)' = RamAt(op, ph)
                          /\ PcAt(op, ph)' = PcAt(op, ph)
<1>1. \A a : rom(a)' = rom(a) /\ Machine!rom(a)' = Machine!rom(a)
  BY DEF rom, Machine!rom
<1>2. Base' = Base
  BY DEF Base
<1>3. Target' = Target
  <2>1. \A i, m : Machine!Effect(i, m)' = Machine!Effect(i, m)
    BY <1>1 DEF Machine!Effect, Machine!Enter, Machine!Through
  <2> QED
    BY <1>2, <2>1 DEF Target
<1>4. Own' = Own
  BY <1>1, <1>3 DEF Own, Machine!Raised, Machine!Inst
<1>5. \A op, ph : SpAt(op, ph)' = SpAt(op, ph)
  BY DEF SpAt
<1>6. \A op, ph : RamAt(op, ph)' = RamAt(op, ph)
  BY <1>2, <1>3 DEF RamAt
<1>7. \A op, ph : PcAt(op, ph)' = PcAt(op, ph)
  BY <1>1, <1>2 DEF PcAt
<1> QED
  BY <1>1, <1>2, <1>3, <1>4, <1>5, <1>6, <1>7

\* A clock that is not suspended finds a program that goes on.
LEMMA Awake ==
    ASSUME TypeInv, Sim, NEW in \in Inputs, ~Suspended(in)
    PROVE  /\ ~ctl.halt /\ ~ctl.fault /\ ~ctl.wait /\ ~ctl.hold /\ ~HoldLatch(in)
           /\ status = "RUNNING"
           /\ ctl.fetch => Fetching
           /\ ~ctl.fetch => Executing /\ Busy
<1>1. ~ctl.halt /\ ~ctl.fault /\ ~ctl.wait /\ ~HoldLatch(in)
  BY DEF Suspended
<1>2. ~ctl.hold
  BY <1>1 DEF HoldLatch, Sim
<1> QED
  BY <1>1, <1>2 DEF Sim, Busy, StatusOf

\* The latches of a clock, field by field.
LEMMA LatchFields ==
    ASSUME TypeInv, NEW in, NEW e
    PROVE  LET l == Latched(in, e) IN
           /\ DOMAIN l = DOMAIN ctl
           /\ l.ir = ctl.ir /\ l.fetch = ctl.fetch /\ l.phase = ctl.phase /\ l.high = ctl.high
           /\ l.startup = ctl.startup /\ l.virtual = ctl.virtual
           /\ l.incAddress = ctl.incAddress /\ l.dtr = ctl.dtr
           /\ l.intVec = IntVec(e) /\ l.extVec = ExtVec(in) /\ l.exc = ExcLatch(e)
           /\ l.wait = (ctl.wait \/ (Op = "wait" /\ ~e.triggered /\ ~Irq(in)))
           /\ l.halt = (ctl.halt \/ (Op = "halt" /\ ~e.triggered))
           /\ l.fault = (ctl.fault \/ e.critical)
           /\ l.hold = HoldLatch(in)
BY DEF TypeInv, CtlTypes, Latched

\* The row of a clock while an instruction is under way.
LEMMA RowUnderWay ==
    ASSUME Busy, NEW in, status = "RUNNING"
    PROVE  LET m == MainRow(Op, ctl.phase)
               e == Ecu(in, m, Datapath(m).data)
               s == IF e.triggered THEN ExcRow(Op, ctl.phase) ELSE m
               c == Signals(in)
           IN  /\ c.ecu = e /\ c.row = s /\ c.path = Datapath(s)
               /\ c.inhibit <=> ~Aligned
BY InhibitIs DEF Signals, Busy, Executing

\* What a step of the clocks has to be for the instruction set.
LEMMA AllowedSteps ==
    ASSUME \/ Machine!Execute \/ Machine!Raise \/ Machine!Lose \/ Machine!RaiseUnrecoverable
           \/ Machine!Fault \/ Machine!Startup \/ Machine!FailToStart \/ Machine!Wake \/ Machine!Reset
           \/ \E n \in {boundary.pending, 4} \cup Externals \cup Interrupts :
                  Machine!EnterHandler(n) \/ Machine!FailToEnter(n)
           \/ UNCHANGED Machine!vars
    PROVE  [Machine!Next]_Machine!vars
<1>1. CASE UNCHANGED Machine!vars
  BY <1>1
<1>2. CASE Machine!vars' # Machine!vars
  BY <1>2 DEF Machine!Next
<1> QED
  BY <1>1, <1>2

\* The inductive invariant.
AllInv == TypeInv /\ NumberInv /\ Sim

\* What a step of the clock has to be shown to do.
Allowed == Sim' /\ [Machine!Next]_Machine!vars

-------------------------------------------------------------------------------
\* The row of a fetch neither writes nor waits for a second access.
LEMMA FetchRow ==
    ASSUME TypeInv, ctl.fetch, ctl.phase = 0, ~ctl.incAddress, Even(cpu.pc), Even(cpu.sp)
    PROVE  LET m == MainRow(Op, ctl.phase) IN
           /\ Op = "fetch" /\ m = {"mem", "word", "read", "pc_asrt0", "pc_inc", "cut"}
           /\ ~ClkInhibit(m, Datapath(m).address)
           /\ RamWritten(m, Datapath(m)) = ram
<1> DEFINE m == MainRow(Op, ctl.phase)
<1>1. Op = "fetch" /\ m = {"mem", "word", "read", "pc_asrt0", "pc_inc", "cut"}
  BY RowsOfFetch DEF Op
<1>2. ~CarryIn(m)
  BY <1>1 DEF CarryIn
<1>3. /\ "word" \in m /\ "r_asrt0" \notin m /\ "r_asrt1" \notin m /\ "imm_asrt1" \notin m
      /\ "data" \notin m
  BY <1>1
<1> HIDE DEF m
<1>4. ~ClkInhibit(m, Datapath(m).address)
  BY <1>2, <1>3, WordsAligned
<1>5. RamWritten(m, Datapath(m)) = ram
  BY <1>3 DEF RamWritten
<1> QED
  BY <1>1, <1>4, <1>5 DEF m

\* A stopped clock changes nothing, but for the end of a wait.
LEMMA SuspendedStep ==
    ASSUME AllInv, NEW in \in Inputs, SuspendedClock(in)
    PROVE  Allowed
<1> DEFINE wait == ctl.wait /\ ~Irq(in)
<1>1. TypeInv /\ Sim /\ BoundaryOK
  BY DEF AllInv, Sim
<1>2. /\ UNCHANGED <<image, cpu, boundary>>
      /\ ctl' = [ctl EXCEPT !.wait = wait, !.hold = HoldLatch(in), !.high = TRUE]
      /\ status' = StatusOf(ctl')
      /\ ram' = RamWritten(Signals(in).row, Signals(in).path)
  BY DEF SuspendedClock
<1> HIDE DEF wait
<1>3. /\ ctl'.high = TRUE /\ ctl'.hold = HoldLatch(in) /\ ctl'.wait = wait
      /\ ctl'.ir = ctl.ir /\ ctl'.fetch = ctl.fetch /\ ctl'.phase = ctl.phase
      /\ ctl'.halt = ctl.halt /\ ctl'.fault = ctl.fault /\ ctl'.exc = ctl.exc
      /\ ctl'.startup = ctl.startup /\ ctl'.incAddress = ctl.incAddress
      /\ ctl'.intVec = ctl.intVec /\ ctl'.extVec = ctl.extVec
  BY <1>1, <1>2 DEF TypeInv, CtlTypes
<1>4. Sim'
  <2>1. BoundaryOK'
    BY <1>1, <1>2 DEF BoundaryOK, Bytes, CpuTypes
  <2>2. ASSUME ~ctl'.hold, ~ctl'.fault PROVE ctl'.fetch /\ Fetching'
    <3>1. ~ctl.hold
      BY <1>1, <1>3, <2>2 DEF HoldLatch, Sim
    <3>2. ctl.halt \/ ctl.wait
      BY <1>3, <2>2 DEF SuspendedClock, Suspended
    <3>3. ctl.fetch /\ Fetching
      BY <1>1, <1>3, <2>2, <3>1, <3>2 DEF Sim, Executing
    <3>4. ram' = ram
      <4> DEFINE m == MainRow(Op, ctl.phase)
                 c == Signals(in)
      <4>1. RamWritten(m, Datapath(m)) = ram
        BY <1>1, <3>3, FetchRow DEF Fetching, Sim
      <4>2. c.path = Datapath(c.row)
        BY DEF Signals
      <4>3. c.row \in {m, {"cut"}}
        <5> DEFINE e == Ecu(in, m, Datapath(m).data)
        <5>1. e.triggered => e.latchInt
          BY DEF Ecu
        <5> HIDE DEF e
        <5>2. c.row = IF status \in {"HALTED", "FAULT"} \/ ctl.startup \/ (ctl.fetch /\ e.latchInt)
                      THEN {"cut"}
                      ELSE IF e.triggered THEN ExcRow(Op, ctl.phase) ELSE m
          BY DEF Signals, e
        <5> QED
          BY <3>3, <5>1, <5>2
      <4>4. RamWritten({"cut"}, c.path) = ram
        BY DEF RamWritten
      <4> QED
        BY <1>2, <4>1, <4>2, <4>3, <4>4
    <3> QED
      BY <1>2, <1>3, <3>3, <3>4 DEF Fetching, Pending
  <2> QED
    BY <1>1, <1>2, <1>3, <2>1, <2>2 DEF Sim
<1>5. Machine!Wake \/ UNCHANGED Machine!vars
  <2>1. status = StatusOf(ctl)
    BY <1>1 DEF Sim
  <2>2. status' = status \/ (status = "WAITING" /\ status' = "RUNNING")
    BY <1>2, <1>3, <2>1 DEF StatusOf, wait
  <2> QED
    BY <1>2, <2>2 DEF Machine!Wake, Machine!vars
<1> QED
  BY <1>4, <1>5, AllowedSteps DEF Allowed

\* A reset starts the program anew.
LEMMA ResetStep ==
    ASSUME AllInv, Reset
    PROVE  Allowed
<1>1. TypeInv /\ Sim
  BY DEF AllInv
<1>2. /\ UNCHANGED <<image, ram>>
      /\ cpu' = [cpu EXCEPT !.ps = 0]
      /\ ctl' = [ctl EXCEPT !.phase = 0, !.fetch = TRUE, !.startup = TRUE, !.virtual = FALSE,
                            !.exc = FALSE, !.incAddress = FALSE, !.hold = FALSE, !.wait = FALSE,
                            !.halt = FALSE, !.fault = FALSE]
      /\ status' = "RUNNING"
      /\ boundary' = View(cpu', ram, 0, TRUE)
  BY DEF Reset
<1>3. /\ cpu' \in CpuTypes /\ cpu'.pc = cpu.pc /\ cpu'.sp = cpu.sp /\ cpu'.ps = 0
  BY <1>1, <1>2, Sizes DEF TypeInv, CpuTypes
<1>4. /\ ctl'.phase = 0 /\ ctl'.fetch = TRUE /\ ctl'.startup = TRUE /\ ctl'.exc = FALSE
      /\ ctl'.incAddress = FALSE /\ ctl'.hold = FALSE /\ ctl'.wait = FALSE
      /\ ctl'.halt = FALSE /\ ctl'.fault = FALSE
  BY <1>1, <1>2 DEF TypeInv, CtlTypes
<1>5. /\ boundary'.cpu = cpu' /\ boundary'.ram = ram' /\ boundary'.pending = 0
      /\ boundary'.startup = TRUE
      /\ boundary' = View(boundary'.cpu, boundary'.ram, boundary'.pending, boundary'.startup)
  BY <1>2 DEF View
<1>6. Bytes(ram')
  BY <1>1, <1>2 DEF TypeInv
<1>7. Sim'
  <2>1. BoundaryOK'
    BY <1>1, <1>3, <1>5, <1>6 DEF BoundaryOK, Sim, CpuTypes, Bytes, Even
  <2>2. Fetching'
    BY <1>4, <1>5 DEF Fetching, Pending
  <2> QED
    BY <1>1, <1>2, <1>3, <1>4, <2>1, <2>2 DEF Sim, StatusOf
<1>8. Machine!Reset
  BY <1>2, <1>3, <1>5 DEF Machine!Reset
<1> QED
  BY <1>7, <1>8, AllowedSteps DEF Allowed

\* The program is at the start of the reset vector.
LEMMA InitSim == Init => Sim /\ Machine!Init
<1> SUFFICES ASSUME Init PROVE Sim /\ Machine!Init
  OBVIOUS
<1>1. TypeInv
  BY InitTyped
<1>2. /\ boundary.cpu = cpu /\ boundary.ram = ram /\ boundary.pending = 0
      /\ boundary.startup = TRUE
      /\ boundary = View(boundary.cpu, boundary.ram, boundary.pending, boundary.startup)
  BY DEF View, Init
<1>3. Even(0) /\ cpu.pc = 0 /\ cpu.sp = 0 /\ cpu.ps = 0
  BY DEF Even, Init
<1>4. BoundaryOK
  BY <1>1, <1>2, <1>3 DEF BoundaryOK, TypeInv
<1>5. Fetching
  BY <1>2 DEF Init, Fetching, Pending
<1>6. Sim
  BY <1>3, <1>4, <1>5 DEF Init, Sim, StatusOf
<1>7. Machine!Init
  BY <1>2, <1>3 DEF Init, Machine!Init
<1> QED
  BY <1>6, <1>7

\* The first half of an unaligned access is no step of the program.
LEMMA InhibitedStep ==
    ASSUME AllInv, NEW in \in Inputs, InhibitedClock(in)
    PROVE  Allowed
<1> DEFINE m == MainRow(Op, ctl.phase)
           e == Ecu(in, m, Datapath(m).data)
           s == IF e.triggered THEN ExcRow(Op, ctl.phase) ELSE m
           a == cpu.regs[ctl.ir.rs]
           byte == DataIn(s, Datapath(s).address) % ByteSize
           l == Latched(in, e)
<1>1. TypeInv /\ Sim /\ BoundaryOK
  BY DEF AllInv, Sim
<1>2. ~Suspended(in) /\ Signals(in).inhibit
  BY DEF InhibitedClock
<1>3. /\ ~ctl.halt /\ ~ctl.fault /\ ~ctl.wait /\ ~ctl.hold /\ ~HoldLatch(in)
      /\ status = "RUNNING" /\ (ctl.fetch => Fetching)
      /\ (~ctl.fetch => Executing /\ Busy)
  BY <1>1, <1>2, Awake
<1>4. ~ctl.fetch
  <2> SUFFICES ASSUME ctl.fetch PROVE FALSE
    OBVIOUS
  <2>1. ~ClkInhibit(m, Datapath(m).address)
    BY <1>1, <1>3, FetchRow DEF Fetching, Sim
  <2> QED
    BY <1>2, <2>1 DEF Signals
<1>5. /\ Busy /\ Executing /\ ~Aligned
      /\ Signals(in).ecu = e /\ Signals(in).row = s /\ Signals(in).path = Datapath(s)
  BY <1>2, <1>3, <1>4, RowUnderWay
<1>6. Op \in {"ldw", "stw"} /\ ~ctl.incAddress /\ ~Even(a)
  BY <1>5 DEF Aligned
<1>7. ctl.phase = 0 /\ LastMain(Op) = 0 /\ LastExc(Op) = 0
  BY <1>5, <1>6, InPhase DEF LastMain, LastExc, Calls, Pushing, Popping, Setting
<1>8. ~ctl.virtual /\ ctl.ir # Int(DOUBLE_FAULT)
  <2>1. ctl.ir.op = Op
    BY <1>4, <1>6 DEF Op, Decode
  <2> QED
    BY <1>5, <1>6, <2>1, UnderWay DEF Int
<1>9. /\ UNCHANGED <<image, cpu, boundary>>
      /\ ctl' = [l EXCEPT !.incAddress = TRUE, !.dtr = byte, !.high = TRUE]
      /\ status' = StatusOf(ctl')
      /\ ram' = RamWritten(s, Datapath(s))
  BY <1>5 DEF InhibitedClock
<1>10. /\ e.triggered = ExcLatch(e) /\ ~e.critical
  BY <1>1, <1>4, <1>8, Latching
<1> HIDE DEF byte
<1>11. /\ ctl'.ir = ctl.ir /\ ctl'.fetch = FALSE /\ ctl'.phase = 0 /\ ctl'.high = TRUE
       /\ ctl'.startup = ctl.startup /\ ctl'.virtual = ctl.virtual /\ ctl'.incAddress = TRUE
       /\ ctl'.dtr = byte /\ ctl'.intVec = IntVec(e) /\ ctl'.extVec = ExtVec(in)
       /\ ctl'.exc = e.triggered /\ ctl'.wait = FALSE /\ ctl'.halt = FALSE
       /\ ctl'.fault = FALSE /\ ctl'.hold = FALSE
  <2>1. ctl'.fetch = ctl.fetch /\ ctl'.virtual = ctl.virtual /\ ctl'.startup = ctl.startup
        /\ ctl'.ir = ctl.ir /\ ctl'.phase = ctl.phase
        /\ ctl'.high = TRUE /\ ctl'.incAddress = TRUE /\ ctl'.dtr = byte
        /\ ctl'.intVec = l.intVec /\ ctl'.extVec = l.extVec /\ ctl'.exc = l.exc
        /\ ctl'.wait = l.wait /\ ctl'.halt = l.halt /\ ctl'.fault = l.fault /\ ctl'.hold = l.hold
    <3>1. "incAddress" \in DOMAIN l /\ "dtr" \in DOMAIN l /\ "high" \in DOMAIN l
      BY <1>1, LatchFields DEF TypeInv, CtlTypes
    <3>2. l.fetch = ctl.fetch /\ l.virtual = ctl.virtual /\ l.startup = ctl.startup
          /\ l.ir = ctl.ir /\ l.phase = ctl.phase
      BY <1>1, LatchFields
    <3> HIDE DEF l
    <3> QED
      BY <1>9, <3>1, <3>2
  <2>2. /\ l.intVec = IntVec(e) /\ l.extVec = ExtVec(in) /\ l.exc = ExcLatch(e)
        /\ l.wait = (ctl.wait \/ (Op = "wait" /\ ~e.triggered /\ ~Irq(in)))
        /\ l.halt = (ctl.halt \/ (Op = "halt" /\ ~e.triggered))
        /\ l.fault = (ctl.fault \/ e.critical)
        /\ l.hold = HoldLatch(in)
    BY <1>1, LatchFields
  <2>3. ctl.fetch \in BOOLEAN /\ ctl.virtual \in BOOLEAN /\ HoldLatch(in) \in BOOLEAN
    BY <1>1, DeviceTypes DEF TypeInv, CtlTypes, HoldLatch
  <2> HIDE DEF l, e
  <2> QED
    BY <1>3, <1>4, <1>6, <1>7, <1>8, <1>10, <2>1, <2>2, <2>3
<1>12. /\ ram' = IF Op = "ldw" THEN ram ELSE StoreByte(ram, a, cpu.regs[ctl.ir.rd])
       /\ Op = "ldw" => byte = At(ram, a)
  <2>1. /\ Datapath(m).address = a
        /\ RamWritten(m, Datapath(m)) = IF Op = "ldw" THEN ram ELSE StoreByte(ram, a, cpu.regs[ctl.ir.rd])
        /\ Op = "ldw" => DataIn(m, a) % ByteSize = At(ram, a)
    BY <1>1, <1>4, <1>6, <1>7, FirstHalf
  <2>2. \A b \in Accesses : b \in s <=> b \in m
    BY <1>5, <1>7, InPhase DEF Agree, ExcRowOf
  <2> HIDE DEF m, s
  <2>3. /\ Datapath(s) = Datapath(m) /\ RamWritten(s, Datapath(m)) = RamWritten(m, Datapath(m))
        /\ DataIn(s, a) = DataIn(m, a)
    BY <2>2, SameAccess
  <2> QED
    BY <1>9, <2>1, <2>3 DEF byte
<1>13. Op' = Op
  BY <1>4, <1>9, <1>11 DEF Op
<1>14. /\ \A x : rom(x)' = rom(x)
       /\ \A op, ph : SpAt(op, ph)' = SpAt(op, ph) /\ PcAt(op, ph)' = PcAt(op, ph)
  BY <1>8, <1>9, <1>11, Continued
<1>15. Halfway'
  <2>1. ram = boundary.ram /\ cpu.regs = boundary.cpu.regs
    BY <1>5, <1>6, <1>7 DEF Executing
  <2>2. (cpu.regs[ctl.ir.rs])' = a /\ (cpu.regs[ctl.ir.rd])' = cpu.regs[ctl.ir.rd]
    BY <1>9, <1>11
  <2> QED
    BY <1>6, <1>9, <1>11, <1>12, <1>13, <2>1, <2>2 DEF Halfway
<1>16. ctl'.exc => Broken'
  <2>1. ctl'.exc => Pending' \in {DOUBLE_FAULT} \cup Externals
    BY <1>5, <1>6, <1>7, <1>11, PendingIs DEF Pending, Unrecoverable
  <2> QED
    BY <1>6, <1>7, <1>11, <1>13, <2>1 DEF Broken
<1>17. Executing'
  <2>1. ctl.ir = rom(boundary.cpu.pc) /\ boundary.pending = 0 /\ ~boundary.startup
    BY <1>5, <1>8 DEF Executing
  <2>2. /\ cpu.regs = boundary.cpu.regs /\ cpu.ps = boundary.cpu.ps /\ cpu.sp = SpAt(Op, ctl.phase)
        /\ cpu.pc = PcAt(Op, ctl.phase) /\ ~ctl.startup
    BY <1>5, <1>7 DEF Executing, PcKept
  <2>3. SpAt(Op, ctl.phase)' = SpAt(Op, ctl.phase) /\ PcAt(Op, ctl.phase)' = PcAt(Op, ctl.phase)
    BY <1>7, <1>11, <1>13, <1>14 DEF SpAt, PcAt
  <2>4. rom(boundary.cpu.pc)' = rom(boundary.cpu.pc)
    BY <1>9 DEF rom
  <2>5. LastMain(Op)' = 0 /\ LastExc(Op)' = 0
    BY <1>7, <1>13 DEF LastMain, LastExc
  <2> QED
    BY <1>8, <1>9, <1>11, <1>13, <1>15, <1>16, <2>1, <2>2, <2>3, <2>4, <2>5 DEF Executing
<1>18. Sim'
  <2>1. BoundaryOK'
    BY <1>1, <1>9 DEF BoundaryOK, Bytes, CpuTypes
  <2> QED
    BY <1>1, <1>9, <1>11, <1>17, <2>1 DEF Sim
<1>19. UNCHANGED Machine!vars
  BY <1>3, <1>9, <1>11 DEF Machine!vars, StatusOf
<1> QED
  BY <1>18, <1>19, AllowedSteps DEF Allowed

\* What the exception unit makes of a fetch: exceptions are those of the devices, and one
\* that was latched is let go of unless another comes.
LEMMA FetchLatching ==
    ASSUME TypeInv, ctl.fetch, ctl.phase = 0, NEW in \in Inputs
    PROVE  LET m == MainRow(Op, ctl.phase)
               e == Ecu(in, m, Datapath(m).data)
           IN  /\ e.got = External(in)
               /\ e.triggered = (External(in) \/ ctl.exc)
               /\ e.latchInt = (e.triggered \/ (InterruptStatus(cpu.ps) /\ Irq(in)))
               /\ e.double = (External(in) /\ ctl.exc)
               /\ ExcLatch(e) = (External(in) /\ ctl.exc)
               /\ ExcLatch(e) => Vector(IntVec(e), ExtVec(in)) = DOUBLE_FAULT
               /\ ~External(in) => IntVec(e) = ctl.intVec /\ ExtVec(in) = ctl.extVec
<1> DEFINE m == MainRow(Op, ctl.phase)
           d == Datapath(m).data
           e == Ecu(in, m, d)
<1>1. Op = "fetch" /\ m = {"mem", "word", "read", "pc_asrt0", "pc_inc", "cut"}
  BY RowsOfFetch DEF Op
<1>2. ctl.exc \in BOOLEAN
  BY DEF TypeInv, CtlTypes
<1> HIDE DEF d
<1>3. ~TrigSp(m, d) /\ ~TrigPc(m, d) /\ ~TrigInvalid(m)
  BY <1>1 DEF TrigSp, TrigPc, TrigInvalid
<1> HIDE DEF m
<1>4. /\ e.got = External(in)
      /\ e.triggered = (External(in) \/ ctl.exc)
      /\ e.latchInt = (e.triggered \/ (InterruptStatus(cpu.ps) /\ Irq(in)))
      /\ e.double = (External(in) /\ ctl.exc)
      /\ e.reset = (External(in) \/ ctl.exc)
  <2> DEFINE internal == TrigSp(m, d) \/ TrigPc(m, d) \/ TrigInvalid(m)
  <2>1. /\ e.got = (internal \/ External(in))
        /\ e.triggered = (e.got \/ ctl.exc)
        /\ e.double = (\/ Op = "rti" \/ IntInstruction
                       \/ internal /\ External(in)
                       \/ e.got /\ ctl.exc)
        /\ e.latchInt = (e.triggered \/ (InterruptStatus(cpu.ps) /\ Irq(in)))
        /\ e.reset = (e.triggered /\ ctl.fetch)
    BY Zenon DEF Ecu
  <2>2. ~internal /\ Op # "rti" /\ ~IntInstruction
    BY <1>1, <1>3 DEF IntInstruction
  <2>3. External(in) \in BOOLEAN
    BY DEF External
  <2> HIDE DEF internal, e
  <2> QED
    BY <1>2, <2>1, <2>2, <2>3
<1> HIDE DEF e
<1>5. ExcLatch(e) = (External(in) /\ ctl.exc)
  <2>1. External(in) \in BOOLEAN
    BY DEF External
  <2> QED
    BY <1>2, <1>4, <2>1 DEF ExcLatch
<1>6. External(in) /\ ctl.exc => Vector(IntVec(e), ExtVec(in)) = DOUBLE_FAULT
  <2>1. External(in) /\ ctl.exc => IntVec(e) = DOUBLE_FAULT
    BY <1>4 DEF IntVec
  <2> QED
    BY <2>1 DEF Vector, DOUBLE_FAULT, EXTERNAL_EXC
<1>7. ~External(in) => IntVec(e) = ctl.intVec /\ ExtVec(in) = ctl.extVec
  BY <1>4 DEF IntVec, ExtVec
<1> QED
  BY <1>4, <1>5, <1>6, <1>7 DEF e, m, d

\* Every exception has a vector, and none that of the reset.
LEMMA PendingNumbered ==
    ASSUME NumberInv
    PROVE  /\ ctl.exc => Pending # 0 /\ 4 * Pending + 2 < WordSize
           /\ 4 * DOUBLE_FAULT + 2 < WordSize
           /\ \A n \in Interrupts \cup Externals : n # 0 /\ 4 * n + 2 < WordSize
<1>1. \A n \in Interrupts \cup Externals : n # 0 /\ 4 * n + 2 < WordSize
  BY SizeAssumption
<1>2. WordSize \in Nat /\ 18 < WordSize
  BY Sizes, ProgramAssumption
<1>3. \A n \in UNALIGNED_SP .. DOUBLE_FAULT : n # 0 /\ 4 * n + 2 < WordSize
  BY <1>2 DEF UNALIGNED_SP, DOUBLE_FAULT
<1>4. DOUBLE_FAULT \in UNALIGNED_SP .. DOUBLE_FAULT
  BY DEF UNALIGNED_SP, DOUBLE_FAULT
<1>5. ctl.exc => Pending \in (UNALIGNED_SP .. DOUBLE_FAULT) \cup Externals
  BY DEF NumberInv, LatchedIsNumbered, Pending, Vector
<1> QED
  BY <1>1, <1>3, <1>4, <1>5

\* The instruction that a fetch puts into ir.
LEMMA FetchedIs ==
    ASSUME AllInv, ctl.fetch, Fetching, NEW in \in Inputs
    PROVE  LET m == MainRow(Op, ctl.phase)
               e == Ecu(in, m, Datapath(m).data)
               i == FetchInstruction(in, e)
               n == i.num
           IN  /\ ctl.startup => i = ResetInstruction
               /\ ~ctl.startup /\ ~e.latchInt => i = rom(cpu.pc) /\ ~ctl.exc
               /\ ~ctl.startup /\ e.latchInt =>
                    /\ i = Int(n) /\ 4 * n + 2 < WordSize
                    /\ IF Pending = 0
                       THEN n \in Externals \/ (n \in Interrupts /\ InterruptStatus(cpu.ps))
                       ELSE n \in {Pending, DOUBLE_FAULT}
<1> DEFINE m == MainRow(Op, ctl.phase)
           e == Ecu(in, m, Datapath(m).data)
           i == FetchInstruction(in, e)
           n == i.num
           good == /\ ctl.startup => i = ResetInstruction
                   /\ ~ctl.startup /\ ~e.latchInt => i = rom(cpu.pc) /\ ~ctl.exc
                   /\ ~ctl.startup /\ e.latchInt =>
                        /\ i = Int(n) /\ 4 * n + 2 < WordSize
                        /\ IF Pending = 0
                           THEN n \in Externals \/ (n \in Interrupts /\ InterruptStatus(cpu.ps))
                           ELSE n \in {Pending, DOUBLE_FAULT}
<1> SUFFICES good
  OBVIOUS
<1>1. TypeInv /\ NumberInv /\ ctl.phase = 0
  BY DEF AllInv, Fetching
<1>2. /\ e.triggered = (External(in) \/ ctl.exc)
      /\ e.latchInt = (e.triggered \/ (InterruptStatus(cpu.ps) /\ Irq(in)))
      /\ e.double = (External(in) /\ ctl.exc)
      /\ ~External(in) => IntVec(e) = ctl.intVec /\ ExtVec(in) = ctl.extVec
  BY <1>1, FetchLatching
<1>3. /\ ctl.exc => Pending # 0 /\ 4 * Pending + 2 < WordSize
      /\ 4 * DOUBLE_FAULT + 2 < WordSize
      /\ \A k \in Interrupts \cup Externals : k # 0 /\ 4 * k + 2 < WordSize
      /\ ~ctl.exc => Pending = 0
      /\ ctl.exc => Pending = Vector(ctl.intVec, ctl.extVec)
  BY <1>1, PendingNumbered DEF Pending
<1>4. External(in) => in.exc \in Externals
  BY DeviceNumbers
<1>5. Irq(in) => in.irq \in Interrupts
  BY DeviceNumbers
<1>7. \A k : Int(k).num = k
  BY DEF Int
<1> HIDE DEF e
<1>8. CASE ctl.startup
  BY <1>8 DEF FetchInstruction
<1>9. CASE ~ctl.startup /\ ~e.latchInt
  <2>1. ~e.triggered
    BY <1>2, <1>9
  <2> QED
    BY <1>2, <1>9, <2>1 DEF FetchInstruction
<1>10. CASE ~ctl.startup /\ e.latchInt /\ ~e.triggered
  <2>1. i = Int(in.irq)
    BY <1>10 DEF FetchInstruction
  <2>2. InterruptStatus(cpu.ps) /\ Irq(in) /\ ~ctl.exc
    BY <1>2, <1>10
  <2>3. i = Int(n) /\ n = in.irq
    BY <1>7, <2>1
  <2> HIDE DEF i
  <2> QED
    BY <1>3, <1>5, <1>10, <2>2, <2>3
<1>11. CASE ~ctl.startup /\ e.triggered /\ ~External(in)
  <2>1. e.latchInt /\ ctl.exc
    BY <1>2, <1>11
  <2>2. i = Int(Vector(IntVec(e), ExtVec(in)))
    BY <1>11, <2>1 DEF FetchInstruction
  <2>3. i = Int(Pending)
    BY <1>2, <1>3, <1>11, <2>1, <2>2
  <2>4. i = Int(n) /\ n = Pending
    BY <1>7, <2>3
  <2> HIDE DEF i
  <2> QED
    BY <1>3, <1>11, <2>1, <2>4
<1>12. CASE ~ctl.startup /\ e.triggered /\ External(in)
  <2>1. e.latchInt
    BY <1>2, <1>12
  <2>2. i = Int(IF e.double THEN DOUBLE_FAULT ELSE in.exc)
    BY <1>12, <2>1 DEF FetchInstruction
  <2>3. IF ctl.exc THEN i = Int(DOUBLE_FAULT) ELSE i = Int(in.exc)
    BY <1>2, <1>12, <2>2
  <2>4. i = Int(n) /\ n = IF ctl.exc THEN DOUBLE_FAULT ELSE in.exc
    BY <1>7, <2>3
  <2> HIDE DEF i
  <2> QED
    BY <1>3, <1>4, <1>12, <2>1, <2>4
<1> QED
  BY <1>8, <1>9, <1>10, <1>11, <1>12

\* What a fetch does to the registers.
LEMMA FetchRegisters ==
    ASSUME TypeInv, ctl.fetch, Fetching, status = "RUNNING", Even(cpu.pc), Even(cpu.sp),
           NEW in \in Inputs
    PROVE  LET m == MainRow(Op, ctl.phase)
               e == Ecu(in, m, Datapath(m).data)
               c == Signals(in)
           IN  /\ c.ecu = e /\ ~c.inhibit
               /\ Registered(c.row, c.ecu, c.path) =
                    [pc |-> IF e.latchInt \/ ctl.startup THEN cpu.pc ELSE Plus(cpu.pc, 2),
                     sp |-> cpu.sp, ps |-> cpu.ps, regs |-> cpu.regs]
<1> DEFINE m == MainRow(Op, ctl.phase)
           d == Datapath(m)
           e == Ecu(in, m, d.data)
           c == Signals(in)
<1>1. /\ ctl.phase = 0 /\ ~ctl.incAddress
  BY DEF Fetching
<1>2. /\ Op = "fetch" /\ m = {"mem", "word", "read", "pc_asrt0", "pc_inc", "cut"}
      /\ ~ClkInhibit(m, d.address)
  BY <1>1, FetchRow
<1>3. /\ e.triggered = (External(in) \/ ctl.exc)
      /\ e.latchInt = (e.triggered \/ (InterruptStatus(cpu.ps) /\ Irq(in)))
  BY <1>1, FetchLatching
<1>4. ~BrRelNop
  BY <1>2 DEF BrRelNop
<1>5. c.ecu = e /\ ~c.inhibit /\ c.path = Datapath(c.row)
  BY <1>2 DEF Signals
<1> HIDE DEF d, e
<1>6. c.row = IF e.latchInt \/ ctl.startup THEN {"cut"} ELSE m
  <2>1. e.triggered => e.latchInt
    BY <1>3
  <2>2. c.row = IF status \in {"HALTED", "FAULT"} \/ ctl.startup \/ (ctl.fetch /\ e.latchInt)
                THEN {"cut"}
                ELSE IF e.triggered THEN ExcRow(Op, ctl.phase) ELSE m
    BY DEF Signals, d, e
  <2> QED
    BY <2>1, <2>2
<1>7. \A p : Registered({"cut"}, e, p) =
               [pc |-> cpu.pc, sp |-> cpu.sp, ps |-> cpu.ps, regs |-> cpu.regs]
  BY <1>2 DEF Registered
<1>8. \A p : ~e.triggered => Registered(m, e, p) =
               [pc |-> Plus(cpu.pc, 2), sp |-> cpu.sp, ps |-> cpu.ps, regs |-> cpu.regs]
  BY <1>2, <1>4 DEF Registered
<1> HIDE DEF c, m
<1>9. CASE e.latchInt \/ ctl.startup
  BY <1>5, <1>6, <1>7, <1>9 DEF d, e, c, m
<1>10. CASE ~(e.latchInt \/ ctl.startup)
  BY <1>3, <1>5, <1>6, <1>8, <1>10 DEF d, e, c, m
<1> QED
  BY <1>9, <1>10

\* A fetch is no step of the program, but for a fault.
LEMMA FetchStep ==
    ASSUME AllInv, NEW in \in Inputs, FetchClock(in)
    PROVE  Allowed
<1> DEFINE m == MainRow(Op, ctl.phase)
           e == Ecu(in, m, Datapath(m).data)
           i == FetchInstruction(in, e)
           l == Latched(in, e)
           virtual == e.latchInt \/ ctl.startup
<1>1. TypeInv /\ Sim /\ BoundaryOK /\ NumberInv /\ Even(cpu.pc) /\ Even(cpu.sp)
  BY DEF AllInv, Sim
<1>2. /\ ~ctl.halt /\ ~ctl.fault /\ ~ctl.wait /\ ~ctl.hold /\ ~HoldLatch(in)
      /\ status = "RUNNING" /\ ctl.fetch /\ Fetching
  BY <1>1, Awake DEF FetchClock
<1>3. Op = "fetch"
  BY <1>2 DEF Op
<1>4. /\ UNCHANGED <<image, ram, boundary>>
      /\ cpu' = [pc |-> IF virtual THEN cpu.pc ELSE Plus(cpu.pc, 2),
                 sp |-> cpu.sp, ps |-> cpu.ps, regs |-> cpu.regs]
      /\ ctl' = [l EXCEPT !.ir = i, !.virtual = virtual, !.startup = FALSE,
                          !.incAddress = FALSE, !.high = FALSE, !.phase = 0, !.fetch = FALSE]
      /\ status' = StatusOf(ctl')
  BY <1>1, <1>2, FetchRegisters DEF FetchClock
<1>5. /\ ctl'.ir = i /\ ctl'.virtual = virtual /\ ctl'.startup = FALSE
      /\ ctl'.incAddress = FALSE /\ ctl'.high = FALSE /\ ctl'.phase = 0 /\ ctl'.fetch = FALSE
      /\ ctl'.intVec = IntVec(e) /\ ctl'.extVec = ExtVec(in) /\ ctl'.exc = ExcLatch(e)
      /\ ctl'.wait = FALSE /\ ctl'.halt = FALSE /\ ctl'.hold = FALSE
  <2> HIDE DEF i, virtual
  <2>1. /\ DOMAIN l = DOMAIN ctl
        /\ l.intVec = IntVec(e) /\ l.extVec = ExtVec(in) /\ l.exc = ExcLatch(e)
        /\ l.wait = (ctl.wait \/ (Op = "wait" /\ ~e.triggered /\ ~Irq(in)))
        /\ l.halt = (ctl.halt \/ (Op = "halt" /\ ~e.triggered))
        /\ l.hold = HoldLatch(in)
    BY <1>1, LatchFields
  <2>2. HoldLatch(in) \in BOOLEAN
    BY <1>1, DeviceTypes DEF TypeInv, CtlTypes, HoldLatch
  <2>3. /\ "ir" \in DOMAIN ctl /\ "virtual" \in DOMAIN ctl /\ "startup" \in DOMAIN ctl
        /\ "incAddress" \in DOMAIN ctl /\ "high" \in DOMAIN ctl /\ "phase" \in DOMAIN ctl
        /\ "fetch" \in DOMAIN ctl
    BY <1>1 DEF TypeInv, CtlTypes
  <2> HIDE DEF l, e
  <2> QED
    BY <1>2, <1>3, <1>4, <2>1, <2>2, <2>3
<1>6. /\ e.triggered = (External(in) \/ ctl.exc)
      /\ e.latchInt = (e.triggered \/ (InterruptStatus(cpu.ps) /\ Irq(in)))
      /\ ExcLatch(e) = (External(in) /\ ctl.exc)
      /\ ExcLatch(e) => Vector(IntVec(e), ExtVec(in)) = DOUBLE_FAULT
  BY <1>1, <1>2, FetchLatching DEF Fetching
<1>7. /\ ctl.startup => i = ResetInstruction
      /\ ~ctl.startup /\ ~e.latchInt => i = rom(cpu.pc) /\ ~ctl.exc
      /\ ~ctl.startup /\ e.latchInt =>
           /\ i = Int(i.num) /\ 4 * i.num + 2 < WordSize
           /\ IF Pending = 0
              THEN i.num \in Externals \/ (i.num \in Interrupts /\ InterruptStatus(cpu.ps))
              ELSE i.num \in {Pending, DOUBLE_FAULT}
  BY <1>2, FetchedIs
<1>8. /\ cpu = boundary.cpu /\ ram = boundary.ram /\ boundary.pending = Pending
      /\ ctl.startup = boundary.startup
  BY <1>2 DEF Fetching
<1>9. Even(cpu'.pc) /\ Even(cpu'.sp)
  <2>1. Even(Plus(cpu.pc, 2))
    BY <1>1, EvenSteps DEF TypeInv, CpuTypes
  <2> QED
    BY <1>1, <1>4, <2>1
<1>10. BoundaryOK'
  BY <1>1, <1>4 DEF BoundaryOK, Bytes, CpuTypes
<1> HIDE DEF i, e
<1>11. Executing'
  <2>1. ctl'.virtual => Entered'
    BY <1>4, <1>5, <1>7, <1>8 DEF Entered
  <2>2. ~ctl'.virtual => ctl'.ir = rom(boundary.cpu.pc)' /\ boundary'.pending = 0 /\ ~boundary'.startup
    <3>1. rom(boundary.cpu.pc)' = rom(cpu.pc)
      BY <1>4, <1>8 DEF rom
    <3> QED
      BY <1>4, <1>5, <1>7, <1>8, <3>1 DEF Pending
  <2>3. SpAt(Op, ctl.phase)' = cpu'.sp
    BY <1>4, <1>5, <1>8 DEF SpAt
  <2>4. PcAt(Op, ctl.phase)' = cpu'.pc
    <3>1. Base'.cpu.pc = IF virtual THEN cpu.pc ELSE Plus(cpu.pc, 2)
      <4>1. Base'.cpu = [cpu EXCEPT !.pc = IF virtual THEN @ ELSE Plus(@, 2)]
        BY <1>4, <1>5, <1>8 DEF Base, View
      <4> QED
        BY <1>1, <4>1 DEF TypeInv, CpuTypes
    <3> QED
      BY <1>4, <1>5, <3>1 DEF PcAt
  <2>5. ctl'.phase <= LastMain(Op)' /\ ctl'.phase <= LastExc(Op)'
    BY <1>5 DEF LastMain, LastExc
  <2>6. ctl'.exc => Broken' /\ ctl'.virtual
    <3> SUFFICES ASSUME ctl'.exc PROVE Broken' /\ ctl'.virtual
      OBVIOUS
    <3>1. virtual /\ External(in)
      BY <1>5, <1>6
    <3>2. i.op \in {"int", "reset"}
      <4>1. \A k : Int(k).op = "int"
        BY DEF Int
      <4>2. i = ResetInstruction \/ i = Int(i.num)
        BY <1>7, <3>1
      <4> QED
        BY <4>1, <4>2 DEF ResetInstruction
    <3>3. Op' \in {"int", "reset"}
      BY <1>5, <3>2 DEF Op, Decode
    <3>4. Pending' = DOUBLE_FAULT
      BY <1>5, <1>6 DEF Pending
    <3> QED
      BY <1>5, <3>1, <3>3, <3>4 DEF Broken
  <2> QED
    BY <1>4, <1>5, <1>8, <2>1, <2>2, <2>3, <2>4, <2>5, <2>6 DEF Executing
<1>12. Sim'
  BY <1>4, <1>5, <1>9, <1>10, <1>11 DEF Sim
<1>13. Machine!Fault \/ UNCHANGED Machine!vars
  BY <1>2, <1>4, <1>5 DEF Machine!Fault, Machine!vars, StatusOf
<1> QED
  BY <1>12, <1>13, AllowedSteps DEF Allowed

-------------------------------------------------------------------------------
(* A phase of an instruction.                                                 *)

ExecEcu(in) == Ecu(in, MainRow(Op, ctl.phase), Datapath(MainRow(Op, ctl.phase)).data)
ExecRow(in) == IF ExecEcu(in).triggered THEN ExcRow(Op, ctl.phase) ELSE MainRow(Op, ctl.phase)

\* What it finds and what it leaves, latch by latch.
PhaseDone(in) ==
    LET e == ExecEcu(in)
        s == ExecRow(in)
        cut == "cut" \in s
    IN  /\ Busy /\ Aligned /\ status = "RUNNING" /\ ctl.phase \in 0 .. 5
        /\ image' = image
        /\ cpu' = Registered(s, e, Datapath(s)) /\ cpu' \in CpuTypes
        /\ Even(cpu'.pc) /\ Even(cpu'.sp)
        /\ ram' = RamWritten(s, Datapath(s)) /\ Bytes(ram')
        /\ ctl'.ir = ctl.ir /\ ctl'.virtual = ctl.virtual /\ ctl'.startup = FALSE
        /\ ctl'.incAddress = FALSE /\ ctl'.hold = FALSE
        /\ ctl'.fetch = cut /\ ctl'.phase = (IF cut THEN 0 ELSE ctl.phase + 1)
        /\ ctl'.exc = e.triggered
        /\ Pending' = (IF e.triggered THEN Vector(IntVec(e), ExtVec(in)) ELSE 0)
        /\ ctl'.wait = (Op = "wait" /\ ~e.triggered /\ ~Irq(in))
        /\ ctl'.halt = (Op = "halt" /\ ~e.triggered)
        /\ ctl'.fault = e.critical
        /\ status' = StatusOf(ctl')
        /\ boundary' = IF cut /\ ~ctl'.fault THEN View(cpu', ram', Pending', FALSE) ELSE boundary

\* A clock of an instruction under way does just that.
LEMMA ExecuteIs ==
    ASSUME AllInv, NEW in \in Inputs, ExecuteClock(in)
    PROVE  PhaseDone(in)
<1> DEFINE m == MainRow(Op, ctl.phase)
           e == ExecEcu(in)
           s == ExecRow(in)
           l == Latched(in, e)
           cut == "cut" \in s
<1>1. TypeInv /\ Sim /\ BoundaryOK /\ Even(cpu.pc) /\ Even(cpu.sp)
  BY DEF AllInv, Sim
<1>2. /\ ~ctl.halt /\ ~ctl.fault /\ ~ctl.wait /\ ~ctl.hold /\ ~HoldLatch(in)
      /\ status = "RUNNING" /\ ~ctl.fetch /\ Executing /\ Busy
  BY <1>1, Awake DEF ExecuteClock
<1>3. /\ Signals(in).ecu = e /\ Signals(in).row = s /\ Signals(in).path = Datapath(s)
      /\ Signals(in).inhibit <=> ~Aligned
  BY <1>2, RowUnderWay DEF ExecEcu, ExecRow
<1>4. Aligned
  BY <1>3 DEF ExecuteClock
<1>5. ctl.phase \in 0 .. 5
  BY <1>2, InPhase
<1>6. /\ image' = image
      /\ cpu' = Registered(s, e, Datapath(s))
      /\ ram' = RamWritten(s, Datapath(s))
      /\ ctl' = [l EXCEPT !.incAddress = FALSE, !.high = FALSE, !.fetch = cut,
                          !.phase = IF cut \/ @ = 7 THEN 0 ELSE @ + 1]
      /\ status' = IF ~cut /\ ctl.phase = 7 THEN "FAULT" ELSE StatusOf(ctl')
      /\ boundary' = IF cut /\ ~ctl'.fault THEN View(cpu', ram', Pending', FALSE) ELSE boundary
  BY <1>3 DEF ExecuteClock
<1>7. TypeInv'
  BY <1>1, NextTyped DEF Next, Clock
<1>8. /\ ExcLatch(e) = e.triggered
  BY <1>1, <1>2, Latching DEF ExecEcu
<1>9. /\ ctl'.ir = ctl.ir /\ ctl'.virtual = ctl.virtual /\ ctl'.startup = FALSE
      /\ ctl'.incAddress = FALSE /\ ctl'.hold = FALSE
      /\ ctl'.fetch = cut /\ ctl'.phase = (IF cut THEN 0 ELSE ctl.phase + 1)
      /\ ctl'.exc = e.triggered
      /\ ctl'.intVec = IntVec(e) /\ ctl'.extVec = ExtVec(in)
      /\ ctl'.wait = (Op = "wait" /\ ~e.triggered /\ ~Irq(in))
      /\ ctl'.halt = (Op = "halt" /\ ~e.triggered)
      /\ ctl'.fault = e.critical
  <2>1. /\ DOMAIN l = DOMAIN ctl
        /\ l.ir = ctl.ir /\ l.phase = ctl.phase /\ l.startup = ctl.startup
        /\ l.virtual = ctl.virtual
        /\ l.intVec = IntVec(e) /\ l.extVec = ExtVec(in) /\ l.exc = ExcLatch(e)
        /\ l.wait = (ctl.wait \/ (Op = "wait" /\ ~e.triggered /\ ~Irq(in)))
        /\ l.halt = (ctl.halt \/ (Op = "halt" /\ ~e.triggered))
        /\ l.fault = (ctl.fault \/ e.critical)
        /\ l.hold = HoldLatch(in)
    BY <1>1, LatchFields
  <2>2. HoldLatch(in) \in BOOLEAN /\ ctl.startup = FALSE
    BY <1>1, <1>2, DeviceTypes DEF TypeInv, CtlTypes, HoldLatch, Executing
  <2>3. /\ "incAddress" \in DOMAIN ctl /\ "high" \in DOMAIN ctl /\ "phase" \in DOMAIN ctl
        /\ "fetch" \in DOMAIN ctl
    BY <1>1 DEF TypeInv, CtlTypes
  <2>4. e.critical \in BOOLEAN
    BY <1>1, EcuTypes DEF ExecEcu
  <2> HIDE DEF l, e, cut
  <2> QED
    BY <1>2, <1>5, <1>6, <1>8, <2>1, <2>2, <2>3, <2>4
<1>10. Pending' = IF e.triggered THEN Vector(IntVec(e), ExtVec(in)) ELSE 0
  BY <1>9 DEF Pending
<1>11. status' = StatusOf(ctl')
  BY <1>5, <1>6
<1>12. Even(cpu'.pc) /\ Even(cpu'.sp)
  <2>1. Datapath(s).data \in Word /\ Datapath(s).data \in Nat
    BY <1>1, DatapathTypes, Sizes
  <2>2. "pc_latch" \in s \/ "sp_latch" \in s => Even(Datapath(s).data)
    <3>1. CASE e.triggered
      <4>1. "pc_latch" \notin s /\ "sp_latch" \notin s
        BY <1>2, <3>1, InPhase DEF Agree, ExcRowOf, ExecRow
      <4> QED
        BY <4>1
    <3>2. CASE ~e.triggered
      <4>1. s = m /\ ~TrigSp(m, Datapath(m).data) /\ ~TrigPc(m, Datapath(m).data)
        BY <1>1, <1>2, <3>2, Latching DEF ExecRow, ExecEcu
      <4> QED
        BY <2>1, <4>1 DEF TrigSp, TrigPc, Even
    <3> QED
      BY <3>1, <3>2
  <2> QED
    BY <1>1, <1>6, <2>1, <2>2, EvenKept
<1>13. cpu' \in CpuTypes /\ Bytes(ram')
  BY <1>7 DEF TypeInv, CpuTypes, Bytes
<1> QED
  BY <1>2, <1>4, <1>5, <1>6, <1>9, <1>10, <1>11, <1>12, <1>13 DEF PhaseDone

\* The boundary stays right.
LEMMA BoundaryKept ==
    ASSUME BoundaryOK, NEW in, PhaseDone(in)
    PROVE  BoundaryOK'
<1>1. cpu' \in CpuTypes /\ Bytes(ram') /\ Even(cpu'.pc) /\ Even(cpu'.sp)
  BY DEF PhaseDone
<1>2. CASE boundary' = boundary
  BY <1>2 DEF BoundaryOK, CpuTypes, Bytes
<1>3. CASE boundary' = View(cpu', ram', Pending', FALSE)
  <2>1. /\ boundary'.cpu = cpu' /\ boundary'.ram = ram' /\ boundary'.startup = FALSE
        /\ boundary' = View(boundary'.cpu, boundary'.ram, boundary'.pending, boundary'.startup)
    BY <1>3 DEF View
  <2> QED
    BY <1>1, <2>1 DEF BoundaryOK, CpuTypes, Bytes
<1> QED
  BY <1>2, <1>3 DEF PhaseDone

\* A second exception in the handler of the double fault.
LEMMA FaultStep ==
    ASSUME AllInv, NEW in \in Inputs, PhaseDone(in), ctl'.fault
    PROVE  Allowed
<1>1. BoundaryOK'
  BY BoundaryKept DEF AllInv, Sim
<1>2. Sim'
  BY <1>1 DEF PhaseDone, Sim
<1>3. Machine!Fault
  BY DEF PhaseDone, Machine!Fault, StatusOf
<1> QED
  BY <1>2, <1>3, AllowedSteps DEF Allowed

\* A row that does not end the instruction is a row before the last one.
LEMMA RowsBefore ==
    ASSUME Busy, NEW in \in Inputs
    PROVE  LET cut == "cut" \in ExecRow(in)
               e == ExecEcu(in)
           IN  /\ e.triggered => (cut <=> ctl.phase = LastExc(Op))
               /\ ~e.triggered =>
                    /\ ~ctl.exc /\ Op # "invalid" /\ ctl.phase <= LastMain(Op)
                    /\ cut <=> ctl.phase = LastMain(Op)
<1> DEFINE m == MainRow(Op, ctl.phase)
           e == ExecEcu(in)
<1>1. /\ TypeInv /\ ~ctl.fetch /\ MainRowOf(m, Op, ctl.phase) /\ ctl.phase \in 0 .. 5
      /\ ExcRowOf(ExcRow(Op, ctl.phase), m, Op, ctl.phase)
      /\ ctl.phase > LastMain(Op) => ctl.exc
      /\ LastMain(Op) \in 0 .. 3
  BY InPhase DEF Busy, Agree
<1>2. /\ e.triggered = (e.got \/ ctl.exc)
      /\ TrigInvalid(m) => e.got
  BY <1>1, Latching DEF ExecEcu
<1>3. CASE e.triggered
  BY <1>1, <1>3 DEF ExecRow, ExcRowOf
<1>4. CASE ~e.triggered
  <2>1. ~ctl.exc /\ ~TrigInvalid(m)
    BY <1>2, <1>4
  <2>2. m # {} /\ ctl.phase <= LastMain(Op)
    BY <1>1, <2>1 DEF TrigInvalid
  <2>3. Op # "invalid"
    BY <1>1, <2>2 DEF MainRowOf
  <2>4. ExecRow(in) = m
    BY <1>4 DEF ExecRow
  <2> QED
    BY <1>1, <1>4, <2>1, <2>2, <2>3, <2>4 DEF MainRowOf
<1> QED
  BY <1>3, <1>4

\* A phase before the last one is no step of the program.
LEMMA ContinuedStep ==
    ASSUME AllInv, NEW in \in Inputs, PhaseDone(in), ~ctl'.fault, "cut" \notin ExecRow(in)
    PROVE  Allowed
<1> DEFINE m == MainRow(Op, ctl.phase)
           e == ExecEcu(in)
           s == ExecRow(in)
<1>1. TypeInv /\ Sim /\ BoundaryOK' /\ Busy /\ Executing /\ ~ctl.fetch /\ Aligned
  BY BoundaryKept DEF AllInv, Sim, PhaseDone, Busy
<1>2. /\ e.triggered => ctl.phase # LastExc(Op)
      /\ ~e.triggered => ~ctl.exc /\ ctl.phase < LastMain(Op)
  <2>1. LastMain(Op) \in 0 .. 3 /\ ctl.phase \in 0 .. 5
    BY <1>1, InPhase
  <2> QED
    BY <1>1, <2>1, RowsBefore
<1>3. /\ image' = image /\ boundary' = boundary /\ status = "RUNNING" /\ ctl.phase \in 0 .. 5
      /\ cpu' = Registered(s, e, Datapath(s)) /\ ram' = RamWritten(s, Datapath(s))
      /\ Even(cpu'.pc) /\ Even(cpu'.sp)
      /\ ctl'.ir = ctl.ir /\ ctl'.virtual = ctl.virtual /\ ctl'.startup = FALSE
      /\ ctl'.incAddress = FALSE /\ ctl'.hold = FALSE /\ ctl'.fetch = FALSE
      /\ ctl'.phase = ctl.phase + 1 /\ ctl'.exc = e.triggered
      /\ e.triggered => Pending' = Vector(IntVec(e), ExtVec(in))
      /\ ctl'.wait = (Op = "wait" /\ ~e.triggered /\ ~Irq(in))
      /\ ctl'.halt = (Op = "halt" /\ ~e.triggered)
      /\ status' = StatusOf(ctl')
  <2> DEFINE cut == "cut" \in s
  <2>1. cut = FALSE
    OBVIOUS
  <2> HIDE DEF cut, e, s
  <2>2. /\ image' = image /\ status = "RUNNING" /\ ctl.phase \in 0 .. 5
        /\ cpu' = Registered(s, e, Datapath(s)) /\ ram' = RamWritten(s, Datapath(s))
        /\ Even(cpu'.pc) /\ Even(cpu'.sp)
        /\ ctl'.ir = ctl.ir /\ ctl'.virtual = ctl.virtual /\ ctl'.startup = FALSE
        /\ ctl'.incAddress = FALSE /\ ctl'.hold = FALSE /\ ctl'.fetch = cut
        /\ ctl'.phase = (IF cut THEN 0 ELSE ctl.phase + 1) /\ ctl'.exc = e.triggered
        /\ Pending' = (IF e.triggered THEN Vector(IntVec(e), ExtVec(in)) ELSE 0)
        /\ ctl'.wait = (Op = "wait" /\ ~e.triggered /\ ~Irq(in))
        /\ ctl'.halt = (Op = "halt" /\ ~e.triggered)
        /\ status' = StatusOf(ctl')
        /\ boundary' = IF cut /\ ~ctl'.fault THEN View(cpu', ram', Pending', FALSE) ELSE boundary
    BY DEF PhaseDone, cut, e, s
  <2> QED
    BY <2>1, <2>2
<1>4. ctl'.wait = FALSE /\ ctl'.halt = FALSE
  <2>1. Op \in {"wait", "halt"} => LastMain(Op) = 0
    BY DEF LastMain, Calls
  <2>2. Op \in {"wait", "halt"} => e.triggered
    <3>1. ~(ctl.phase < 0)
      BY <1>3
    <3> QED
      BY <1>2, <2>1, <3>1
  <2> HIDE DEF e
  <2> QED
    BY <1>3, <2>2
<1>5. /\ cpu.regs = boundary.cpu.regs /\ cpu.ps = boundary.cpu.ps
      /\ PcKept => cpu.pc = PcAt(Op, ctl.phase)
      /\ ~ctl.startup
      /\ IF ctl.virtual THEN Entered
         ELSE ctl.ir = rom(boundary.cpu.pc) /\ boundary.pending = 0 /\ ~boundary.startup
  BY <1>1 DEF Executing
<1>6. /\ ctl'.phase \in 1 .. 6 /\ ctl'.phase <= IF ctl'.exc THEN LastExc(Op) ELSE LastMain(Op)
  <2>1. /\ LastMain(Op) \in 0 .. 3 /\ LastExc(Op) \in 0 .. 5 /\ ctl.phase <= LastExc(Op)
    BY <1>1, InPhase
  <2> QED
    BY <1>2, <1>3, <2>1
<1> HIDE DEF e, s
<1>7. /\ cpu'.regs = boundary.cpu.regs /\ cpu'.ps = boundary.cpu.ps
      /\ cpu'.sp = SpAt(Op, ctl.phase + 1) /\ ram' = RamAt(Op, ctl.phase + 1)
      /\ ~e.triggered => cpu'.pc = PcAt(Op, ctl.phase + 1)
      /\ e.triggered => cpu'.pc = cpu.pc
  <2>1. CASE ~e.triggered
    <3>1. cpu.pc = PcAt(Op, ctl.phase) /\ s = m
      BY <1>2, <1>5, <2>1 DEF PcKept, ExecRow, e, s
    <3>2. /\ Registered(m, e, Datapath(m)) =
                [pc |-> PcAt(Op, ctl.phase + 1), sp |-> SpAt(Op, ctl.phase + 1),
                 ps |-> boundary.cpu.ps, regs |-> boundary.cpu.regs]
          /\ RamWritten(m, Datapath(m)) = RamAt(Op, ctl.phase + 1)
      BY <1>1, <1>2, <2>1, <3>1, EarlierPhase
    <3> QED
      BY <1>3, <2>1, <3>1, <3>2
  <2>2. CASE e.triggered
    <3> DEFINE x == ExcRow(Op, ctl.phase)
    <3>1. s = x
      BY <2>2 DEF ExecRow, e, s
    <3>2. Registered(x, e, Datapath(x)) =
             [pc |-> cpu.pc, sp |-> SpAt(Op, ctl.phase + 1),
              ps |-> IF Op = "add_p" THEN SetFlags(cpu.ps, Datapath(x).flags) ELSE cpu.ps,
              regs |-> cpu.regs]
      BY <1>1, <1>2, <2>2, BrokenPhase
    <3>3. Op # "add_p"
      <4>1. Op = "add_p" => LastExc(Op) = 0
        BY DEF LastExc, Calls, Pushing, Popping, Setting
      <4>2. ctl.phase <= LastExc(Op)
        BY <1>1, InPhase
      <4> QED
        BY <1>2, <1>3, <2>2, <4>1, <4>2
    <3>4. RamWritten(x, Datapath(x)) = RamAt(Op, ctl.phase + 1)
      BY <1>1, RamStep
    <3> HIDE DEF x
    <3> QED
      BY <1>3, <1>5, <2>2, <3>1, <3>2, <3>3, <3>4
  <2> QED
    BY <2>1, <2>2
<1>8. Op' = Op
  BY <1>1, <1>3, <1>5, <1>7 DEF Op
<1>9. /\ \A a : rom(a)' = rom(a)
      /\ Own' = Own
      /\ \A op, ph : /\ SpAt(op, ph)' = SpAt(op, ph)
                     /\ RamAt(op, ph)' = RamAt(op, ph)
                     /\ PcAt(op, ph)' = PcAt(op, ph)
  BY <1>3, Continued
<1>10. PcKept' => cpu'.pc = PcAt(Op, ctl.phase + 1)
  <2> SUFFICES ASSUME PcKept', e.triggered PROVE cpu'.pc = PcAt(Op, ctl.phase + 1)
    BY <1>7
  <2>1. Op \notin {"int", "reset", "rti"} \/ (Op = "int" /\ ctl.phase + 1 <= 2)
    BY <1>3, <1>6, <1>8 DEF PcKept
  <2>2. PcKept
    BY <1>3, <2>1 DEF PcKept
  <2>3. PcAt(Op, ctl.phase) = Base.cpu.pc /\ PcAt(Op, ctl.phase + 1) = Base.cpu.pc
    BY <1>3, <2>1 DEF PcAt
  <2> QED
    BY <1>5, <1>7, <2>2, <2>3
<1>11. ctl'.exc => Broken'
  <2> SUFFICES ASSUME e.triggered PROVE Broken'
    BY <1>3
  <2> DEFINE n == Vector(IntVec(e), ExtVec(in))
  <2>1. /\ Op \in Unrecoverable => n = DOUBLE_FAULT
        /\ Op \notin Unrecoverable /\ (ctl.phase < LastMain(Op) \/ ~Aligned) =>
             n \in {DOUBLE_FAULT} \cup Externals
        /\ Op \notin Unrecoverable /\ ctl.phase >= LastMain(Op) /\ Aligned =>
             n \in {DOUBLE_FAULT} \cup (IF Own = 0 THEN Externals ELSE {Own})
    BY <1>1, PendingIs DEF ExecEcu, e
  <2>2. /\ LastMain(Op) \in 0 .. 3 /\ LastMain(Op)' = LastMain(Op)
    BY <1>1, <1>8, InPhase DEF LastMain
  <2>3. Pending' = n
    BY <1>3
  <2> HIDE DEF n
  <2>4. /\ Op \in Unrecoverable => n = DOUBLE_FAULT
        /\ Op \notin Unrecoverable /\ ctl.phase + 1 <= LastMain(Op) => n \in {DOUBLE_FAULT} \cup Externals
        /\ Op \notin Unrecoverable /\ ~(ctl.phase + 1 <= LastMain(Op)) =>
             n \in {DOUBLE_FAULT} \cup (IF Own = 0 THEN Externals ELSE {Own})
    BY <1>1, <1>3, <2>1, <2>2
  <2> QED
    BY <1>3, <1>8, <1>9, <2>2, <2>3, <2>4 DEF Broken, Unrecoverable
<1>12. Executing'
  <2>1. IF ctl'.virtual THEN Entered'
        ELSE ctl'.ir = rom(boundary.cpu.pc)' /\ boundary'.pending = 0 /\ ~boundary'.startup
    BY <1>3, <1>5, <1>9 DEF Entered, rom
  <2>2. LastMain(Op)' = LastMain(Op) /\ LastExc(Op)' = LastExc(Op)
    BY <1>8 DEF LastMain, LastExc
  <2>3. /\ cpu'.sp = SpAt(Op, ctl.phase)' /\ ram' = RamAt(Op, ctl.phase)'
    BY <1>3, <1>7, <1>8, <1>9 DEF SpAt, RamAt, Target
  <2>4. PcKept' => cpu'.pc = PcAt(Op, ctl.phase)'
    BY <1>3, <1>8, <1>9, <1>10 DEF PcAt, Base
  <2>5. ctl'.phase # 0
    BY <1>6
  <2> QED
    BY <1>3, <1>4, <1>6, <1>7, <1>11, <2>1, <2>2, <2>3, <2>4, <2>5 DEF Executing
<1>13. Sim'
  BY <1>1, <1>3, <1>12 DEF Sim
<1>14. UNCHANGED Machine!vars
  <2>1. status' = "RUNNING"
    BY <1>3, <1>4 DEF StatusOf
  <2> QED
    BY <1>3, <2>1 DEF Machine!vars
<1> QED
  BY <1>13, <1>14, AllowedSteps DEF Allowed

-------------------------------------------------------------------------------
(* The end of an instruction.                                                 *)

\* Adding changes none of the bits above the flags.
LEMMA FlagsOnly ==
    ASSUME NEW ps \in Word, NEW f \in {0, 8}
    PROVE  SetFlags(ps, f) \div 16 = ps \div 16
<1>1. ps \in Nat
  BY Sizes
<1> QED
  BY <1>1 DEF SetFlags

\* A jump, written out.
LEMMA Fields ==
    ASSUME NEW c \in CpuTypes, NEW r, NEW q, NEW u, NEW a
    PROVE  /\ Machine!Goto(View(c, r, q, u), a) =
                View([pc |-> a, sp |-> c.sp, ps |-> c.ps, regs |-> c.regs], r, q, u)
           /\ View(c, r, q, u).cpu = c /\ View(c, r, q, u).ram = r
           /\ View(c, r, q, u).pending = q /\ View(c, r, q, u).startup = u
<1>1. [c EXCEPT !.pc = a] = [pc |-> a, sp |-> c.sp, ps |-> c.ps, regs |-> c.regs]
  BY DEF CpuTypes
<1>2. /\ View(c, r, q, u).cpu = c /\ View(c, r, q, u).ram = r
      /\ View(c, r, q, u).pending = q /\ View(c, r, q, u).startup = u
  BY DEF View
<1>3. Machine!Goto(View(c, r, q, u), a) = View([c EXCEPT !.pc = a], r, q, u)
  BY DEF View, Machine!Goto
<1> QED
  BY <1>1, <1>2, <1>3

\* What the instruction set makes of an instruction is what the clocks work towards.
LEMMA AfterIs ==
    ASSUME Busy, ~ctl.virtual
    PROVE  /\ Machine!After(boundary) = Target /\ Machine!Inst = ctl.ir
           /\ Machine!Goto(boundary, Machine!Plus(boundary.cpu.pc, 2)) = Base
           /\ boundary.pending = 0 /\ ~boundary.startup
<1>1. BoundaryOK /\ Executing
  BY DEF Busy
<1>2. Machine!Inst = ctl.ir
  BY UnderWay
<1>3. boundary.cpu \in CpuTypes
      /\ boundary = View(boundary.cpu, boundary.ram, boundary.pending, boundary.startup)
  BY <1>1 DEF BoundaryOK
<1> DEFINE a == Plus(boundary.cpu.pc, 2)
           c == boundary.cpu
<1>4. Base = View([pc |-> a, sp |-> c.sp, ps |-> c.ps, regs |-> c.regs], boundary.ram,
                  boundary.pending, boundary.startup)
  BY BaseIs
<1>5. Machine!Plus(boundary.cpu.pc, 2) = a
  BY SameOperators
<1> HIDE DEF a
<1>6. Machine!Goto(boundary, a) = Base
  BY <1>3, <1>4, Fields
<1> QED
  BY <1>1, <1>2, <1>5, <1>6 DEF Machine!After, Target, Executing

\* What a virtual instruction does.
LEMMA VirtualIs ==
    ASSUME Busy, ctl.virtual
    PROVE  /\ Base = boundary /\ Entered
           /\ boundary.startup => Target = Machine!Through(boundary, 0) /\ Op = "reset"
           /\ ~boundary.startup => Target = Machine!Enter(boundary, ctl.ir.num) /\ Op = "int"
<1>1. BoundaryOK /\ Executing /\ ~ctl.fetch
  BY DEF Busy
<1>2. Entered
  BY <1>1 DEF Executing
<1>3. Base = boundary
  <2> DEFINE c == boundary.cpu
  <2>1. c = [pc |-> c.pc, sp |-> c.sp, ps |-> c.ps, regs |-> c.regs]
    BY <1>1 DEF BoundaryOK, CpuTypes
  <2>2. boundary = View(c, boundary.ram, boundary.pending, boundary.startup)
    BY <1>1 DEF BoundaryOK
  <2>3. Base = View([pc |-> c.pc, sp |-> c.sp, ps |-> c.ps, regs |-> c.regs], boundary.ram,
                    boundary.pending, boundary.startup)
    BY BaseIs
  <2> HIDE DEF c
  <2> QED
    BY <2>1, <2>2, <2>3
<1>4. boundary.startup => ctl.ir.op = "reset" /\ ctl.ir.num = 0
  BY <1>2 DEF Entered, ResetInstruction
<1>5. ~boundary.startup => ctl.ir.op = "int"
  BY <1>2 DEF Entered, Int
<1>6. /\ ctl.ir.op = "reset" => Machine!Effect(ctl.ir, boundary) = Machine!Through(boundary, ctl.ir.num)
      /\ ctl.ir.op = "int" => Machine!Effect(ctl.ir, boundary) = Machine!Enter(boundary, ctl.ir.num)
  BY DEF Machine!Effect
<1>7. ctl.ir.op \in {"int", "reset"} => Op = ctl.ir.op
  BY <1>1 DEF Op, Decode
<1> QED
  BY <1>2, <1>3, <1>4, <1>5, <1>6, <1>7 DEF Target

\* Where the program is when an instruction has ended.
LEMMA EndKept ==
    ASSUME AllInv, NEW in \in Inputs, PhaseDone(in), ~ctl'.fault, "cut" \in ExecRow(in)
    PROVE  /\ Sim' /\ image' = image
           /\ boundary' = View(cpu', ram', Pending', FALSE)
           /\ boundary'.cpu = cpu' /\ boundary'.ram = ram' /\ boundary'.startup = FALSE
           /\ boundary'.pending = Pending'
<1>1. BoundaryOK'
  BY BoundaryKept DEF AllInv, Sim
<1>2. /\ boundary' = View(cpu', ram', Pending', FALSE) /\ image' = image
      /\ ctl'.fetch /\ ctl'.phase = 0 /\ ctl'.startup = FALSE /\ ctl'.incAddress = FALSE
      /\ ctl'.hold = FALSE /\ status' = StatusOf(ctl') /\ Even(cpu'.pc) /\ Even(cpu'.sp)
  BY DEF PhaseDone
<1>3. /\ boundary'.cpu = cpu' /\ boundary'.ram = ram' /\ boundary'.startup = FALSE
      /\ boundary'.pending = Pending'
  BY <1>2 DEF View
<1>4. Fetching'
  BY <1>2, <1>3 DEF Fetching
<1> QED
  BY <1>1, <1>2, <1>3, <1>4 DEF Sim

\* The last phase of an instruction that nothing broke is the instruction.
LEMMA DoneStep ==
    ASSUME AllInv, NEW in \in Inputs, PhaseDone(in), ~ctl'.fault, "cut" \in ExecRow(in),
           ~ExecEcu(in).triggered
    PROVE  Allowed
<1> DEFINE m == MainRow(Op, ctl.phase)
           e == ExecEcu(in)
<1>1. /\ Busy /\ Executing /\ BoundaryOK /\ Aligned /\ status = "RUNNING" /\ ~ctl.fetch
      /\ Sim' /\ image' = image
      /\ boundary' = View(cpu', ram', Pending', FALSE)
      /\ boundary'.cpu = cpu' /\ boundary'.ram = ram' /\ boundary'.startup = FALSE
  BY EndKept DEF PhaseDone, Busy
<1>2. /\ Pending' = 0 /\ Even(cpu'.pc) /\ Even(cpu'.sp) /\ status' = StatusOf(ctl')
      /\ ctl'.wait = (Op = "wait" /\ ~Irq(in)) /\ ctl'.halt = (Op = "halt")
      /\ cpu' = Registered(m, e, Datapath(m)) /\ ram' = RamWritten(m, Datapath(m))
      /\ cpu' \in CpuTypes
  <2> HIDE DEF e, m
  <2>1. ExecRow(in) = m
    BY DEF ExecRow, m
  <2> QED
    BY <2>1 DEF PhaseDone, e
<1>3. ~ctl.exc /\ Op # "invalid" /\ ctl.phase = LastMain(Op)
  BY <1>1, RowsBefore
<1>4. /\ Does(m, e, Base, Target)
  BY <1>1, <1>3, LastPhase DEF Executing, PcKept
<1> HIDE DEF m, e
<1>5. /\ Target.cpu = cpu' /\ Target.ram = ram'
      /\ Target = View(cpu', ram', Base.pending, Base.startup)
  BY <1>2, <1>4 DEF Does
<1>6. Base.pending = boundary.pending /\ Base.startup = boundary.startup
  BY DEF Base, View
<1>7. CASE ~ctl.virtual
  <2>1. /\ Machine!After(boundary) = Target /\ Machine!Inst = ctl.ir
        /\ boundary.pending = 0 /\ boundary.startup = FALSE
    BY <1>1, <1>7, AfterIs DEF BoundaryOK
  <2>2. boundary' = Target /\ boundary'.pending = 0
    BY <1>1, <1>2, <1>5, <1>6, <2>1 DEF View
  <2>3. \A o \in {"halt", "wait", "invalid"} : Op = o <=> ctl.ir.op = o
    BY <1>1 DEF Op, Decode
  <2>4. Machine!Raised(boundary') = 0
    <3>1. boundary'.cpu.pc % 2 = 0 /\ boundary'.cpu.sp % 2 = 0 /\ Machine!Inst.op # "invalid"
      BY <1>1, <1>2, <1>3, <2>1, <2>3 DEF Even
    <3> QED
      BY <3>1 DEF Machine!Raised
  <2>5. status' \in CASE Machine!Inst.op = "halt" -> {"HALTED"}
                      [] Machine!Inst.op = "wait" -> {"WAITING", "RUNNING"}
                      [] OTHER -> {"RUNNING"}
    BY <1>2, <2>1, <2>3 DEF StatusOf
  <2>6. Machine!Execute
    BY <1>1, <2>1, <2>2, <2>4, <2>5 DEF Machine!Execute, Machine!Undisturbed, Machine!Running
  <2> QED
    BY <1>1, <2>6, AllowedSteps DEF Allowed
<1>8. CASE ctl.virtual
  <2>1. /\ Base = boundary /\ Entered
        /\ boundary.startup => Target = Machine!Through(boundary, 0) /\ Op = "reset"
        /\ ~boundary.startup => Target = Machine!Enter(boundary, ctl.ir.num) /\ Op = "int"
    BY <1>1, <1>8, VirtualIs
  <2>2. status' = "RUNNING"
    BY <1>2, <2>1 DEF StatusOf
  <2>3. boundary'.cpu.pc % 2 = 0
    BY <1>1, <1>2 DEF Even
  <2>4. boundary.startup \in BOOLEAN /\ (boundary.startup => boundary.pending = 0)
    BY <1>1 DEF BoundaryOK
  <2>5. CASE boundary.startup
    <3>1. boundary' = [Target EXCEPT !.startup = boundary'.startup]
      <4>1. /\ Target = View(cpu', ram', boundary.pending, boundary.startup)
            /\ boundary' = View(cpu', ram', boundary.pending, boundary'.startup)
        BY <1>1, <1>2, <1>5, <1>6, <2>4, <2>5 DEF View
      <4>2. \A c, r, q, u, v : [View(c, r, q, u) EXCEPT !.startup = v] = View(c, r, q, v)
        BY DEF View
      <4> HIDE DEF Target
      <4> QED
        BY <4>1, <4>2
    <3>2. Machine!Startup
      BY <1>1, <2>1, <2>2, <2>3, <2>5, <3>1 DEF Machine!Startup
    <3> QED
      BY <1>1, <3>2, AllowedSteps DEF Allowed
  <2>6. CASE ~boundary.startup
    <3> DEFINE n == ctl.ir.num
    <3>1. boundary' = [Target EXCEPT !.pending = 0]
      <4>1. /\ Target = View(cpu', ram', boundary.pending, boundary.startup)
            /\ boundary' = View(cpu', ram', 0, boundary.startup)
        BY <1>1, <1>2, <1>5, <1>6, <2>4, <2>6 DEF View
      <4>2. \A c, r, q, u, v : [View(c, r, q, u) EXCEPT !.pending = v] = View(c, r, v, u)
        BY DEF View
      <4> HIDE DEF Target
      <4> QED
        BY <4>1, <4>2
    <3>2. Machine!Handles(n) /\ n \in {boundary.pending, 4} \cup Externals \cup Interrupts
      BY <1>1, <2>1, <2>6
      DEF Entered, Machine!Handles, Machine!Running, InterruptStatus, InterruptBit,
          Machine!InterruptBit, DOUBLE_FAULT
    <3>3. Machine!EnterHandler(n)
      BY <1>1, <2>1, <2>2, <2>3, <2>6, <3>1, <3>2 DEF Machine!EnterHandler
    <3> QED
      BY <1>1, <3>2, <3>3, AllowedSteps DEF Allowed
  <2> QED
    BY <2>5, <2>6
<1> QED
  BY <1>7, <1>8

\* The last phase of a broken one takes it back.
LEMMA BrokenStep ==
    ASSUME AllInv, NEW in \in Inputs, PhaseDone(in), ~ctl'.fault, "cut" \in ExecRow(in),
           ExecEcu(in).triggered
    PROVE  Allowed
<1> DEFINE x == ExcRow(Op, ctl.phase)
           e == ExecEcu(in)
           n == Vector(IntVec(e), ExtVec(in))
           old == boundary.cpu
<1>1. /\ Busy /\ Executing /\ BoundaryOK /\ Aligned /\ status = "RUNNING" /\ ~ctl.fetch
      /\ TypeInv /\ Sim' /\ image' = image
      /\ boundary'.cpu = cpu' /\ boundary'.ram = ram' /\ boundary'.startup = FALSE
      /\ boundary'.pending = Pending'
  BY EndKept DEF PhaseDone, Busy
<1>2. /\ Pending' = n /\ status' = "RUNNING"
      /\ cpu' = Registered(x, e, Datapath(x)) /\ ram' = RamWritten(x, Datapath(x))
  <2> HIDE DEF e, x, n
  <2>1. ExecRow(in) = x /\ e.triggered
    BY DEF ExecRow, x, e
  <2>2. /\ Pending' = n /\ status' = StatusOf(ctl')
        /\ ctl'.wait = FALSE /\ ctl'.halt = FALSE
        /\ cpu' = Registered(x, e, Datapath(x)) /\ ram' = RamWritten(x, Datapath(x))
    BY <2>1 DEF PhaseDone, e, n
  <2> QED
    BY <2>2 DEF StatusOf
<1>3. ctl.phase = LastExc(Op)
  BY <1>1, RowsBefore
<1>4. /\ Op \in Unrecoverable => n = 4
      /\ Op \in Lost => n \in Externals
      /\ Op \notin Unrecoverable => n \in {4} \cup (IF Own = 0 THEN Externals ELSE {Own})
  <2>1. ctl.phase >= LastMain(Op)
    BY <1>1, <1>3, InPhase
  <2> QED
    BY <1>1, <2>1, PendingIs DEF ExecEcu, DOUBLE_FAULT
<1>5. /\ cpu'.pc = IF Op \notin Lost /\ ~ctl.virtual THEN Minus(cpu.pc, 2) ELSE cpu.pc
      /\ cpu'.sp = old.sp /\ cpu'.regs = old.regs
      /\ cpu'.ps = IF Op = "add_p" THEN SetFlags(old.ps, Datapath(x).flags) ELSE old.ps
      /\ cpu' = [pc |-> cpu'.pc, sp |-> cpu'.sp, ps |-> cpu'.ps, regs |-> cpu'.regs]
  <2>1. Registered(x, e, Datapath(x)) =
           [pc |-> IF Op \notin Lost /\ ~ctl.virtual THEN Minus(cpu.pc, 2) ELSE cpu.pc,
            sp |-> old.sp,
            ps |-> IF Op = "add_p" THEN SetFlags(cpu.ps, Datapath(x).flags) ELSE cpu.ps,
            regs |-> cpu.regs]
    BY <1>1, <1>3, BrokenPhase
  <2>2. cpu.ps = old.ps /\ cpu.regs = old.regs
    BY <1>1 DEF Executing
  <2> HIDE DEF x, e, old
  <2> QED
    BY <1>2, <2>1, <2>2
<1>6. cpu'.ps \div 16 = old.ps \div 16
  <2>1. old.ps \in Word /\ Datapath(x).flags \in {0, 8}
    BY <1>1, DatapathTypes DEF BoundaryOK, CpuTypes
  <2> HIDE DEF x, old
  <2> QED
    BY <1>5, <2>1, FlagsOnly
<1>7. ram' = Target.ram
  <2>1. ram' = RamAt(Op, ctl.phase + 1)
    BY <1>1, <1>2, RamStep
  <2>2. ~(Op = "int" /\ ctl.phase + 1 = 1)
    BY <1>3 DEF LastExc, Calls, Pushing, Popping, Setting
  <2> QED
    BY <2>1, <2>2 DEF RamAt
<1>8. /\ old \in CpuTypes
      /\ old = [pc |-> old.pc, sp |-> old.sp, ps |-> old.ps, regs |-> old.regs]
  BY <1>1 DEF BoundaryOK, CpuTypes
<1> HIDE DEF x, e, n, old
<1>9. \A c \in CpuTypes : \A v, w :
        /\ [c EXCEPT !.pc = v] = [pc |-> v, sp |-> c.sp, ps |-> c.ps, regs |-> c.regs]
        /\ [c EXCEPT !.ps = w] = [pc |-> c.pc, sp |-> c.sp, ps |-> w, regs |-> c.regs]
  BY DEF CpuTypes
<1>10. CASE ctl.virtual
  <2>1. /\ Base = boundary /\ Entered
        /\ boundary.startup => Target = Machine!Through(boundary, 0) /\ Op = "reset"
        /\ ~boundary.startup => Target = Machine!Enter(boundary, ctl.ir.num) /\ Op = "int"
    BY <1>1, <1>10, VirtualIs
  <2>2. n = 4 /\ Op # "add_p"
    BY <1>4, <2>1 DEF Unrecoverable
  <2>3. cpu' = [old EXCEPT !.pc = cpu'.pc]
    BY <1>5, <1>8, <1>9, <2>2
  <2>4. CASE boundary.startup
    <3>1. ctl.ir.op = "reset" /\ 4 * ctl.ir.num + 2 < WordSize
      BY <1>1, <1>10, <2>1, <2>4, UnderWay
    <3>2. Target.ram = boundary.ram
      <4>1. boundary = View(old, boundary.ram, boundary.pending, boundary.startup)
            /\ Bytes(boundary.ram)
        BY <1>1 DEF BoundaryOK, old
      <4>2. Machine!Effect(ctl.ir, View(old, boundary.ram, boundary.pending, boundary.startup)).ram
              = boundary.ram
        BY <1>1, <1>8, <3>1, <4>1, NothingWritten
      <4> QED
        BY <2>1, <4>1, <4>2 DEF Target
    <3>3. Machine!Written(boundary.ram, boundary.ram)
      BY <1>1, <1>7, <3>2 DEF Machine!Written
    <3>4. Machine!FailToStart
      BY <1>1, <1>2, <2>2, <2>3, <2>4, <3>3 DEF Machine!FailToStart, Machine!DoubleFault, old
    <3> QED
      BY <1>1, <3>4, AllowedSteps DEF Allowed
  <2>5. CASE ~boundary.startup
    <3> DEFINE k == ctl.ir.num
    <3>1. Machine!Handles(k) /\ k \in {boundary.pending, 4} \cup Externals \cup Interrupts
      BY <1>1, <2>1, <2>5
      DEF Entered, Machine!Handles, Machine!Running, InterruptStatus, InterruptBit,
          Machine!InterruptBit, DOUBLE_FAULT
    <3>2. Machine!Written(boundary.ram, Machine!Enter(boundary, k).ram)
      BY <1>1, <1>7, <2>1, <2>5 DEF Machine!Written
    <3>3. Machine!FailToEnter(k)
      BY <1>1, <1>2, <2>2, <2>3, <3>1, <3>2 DEF Machine!FailToEnter, Machine!DoubleFault, old
    <3> QED
      BY <1>1, <3>1, <3>3, AllowedSteps DEF Allowed
  <2> QED
    BY <2>4, <2>5
<1>11. CASE ~ctl.virtual
  <2>1. /\ Machine!After(boundary) = Target /\ Machine!Inst = ctl.ir
        /\ Machine!Goto(boundary, Machine!Plus(boundary.cpu.pc, 2)) = Base
        /\ boundary.pending = 0 /\ ~boundary.startup
    BY <1>1, <1>11, AfterIs
  <2>2. Machine!Undisturbed
    BY <1>1, <2>1 DEF Machine!Undisturbed, Machine!Running
  <2>3. \A o \in Unrecoverable \cup Lost \cup {"add_p"} : Op = o <=> ctl.ir.op = o
    BY <1>1 DEF Op, Decode, Unrecoverable, Lost
  <2>4. Machine!Written(boundary.ram, Target.ram)
    BY <1>1, <1>7 DEF Machine!Written
  <2>5. Op \notin Unrecoverable => cpu.pc = Plus(old.pc, 2)
    <3> SUFFICES ASSUME Op \notin Unrecoverable PROVE cpu.pc = Plus(old.pc, 2)
      OBVIOUS
    <3>1. cpu.pc = PcAt(Op, ctl.phase)
      BY <1>1 DEF Executing, PcKept, Unrecoverable
    <3>2. PcAt(Op, ctl.phase) = Base.cpu.pc
      BY DEF PcAt, Unrecoverable
    <3>3. Base.cpu.pc = Plus(old.pc, 2)
      BY <1>1, <1>11, BaseIs DEF old
    <3> QED
      BY <3>1, <3>2, <3>3
  <2>6. CASE Op \in Unrecoverable
    <3>1. n = 4 /\ Op # "add_p" /\ ctl.ir.op \in Machine!Unrecoverable
      BY <1>4, <2>3, <2>6 DEF Unrecoverable, Machine!Unrecoverable
    <3>2. cpu' = [old EXCEPT !.pc = cpu'.pc]
      BY <1>5, <1>8, <1>9, <3>1
    <3>3. Machine!RaiseUnrecoverable
      BY <1>1, <1>2, <2>1, <2>2, <2>4, <3>1, <3>2
      DEF Machine!RaiseUnrecoverable, Machine!DoubleFault, old
    <3> QED
      BY <1>1, <3>3, AllowedSteps DEF Allowed
  <2>7. CASE Op \in Lost
    <3>1. n \in Externals /\ Op # "add_p" /\ ctl.ir.op # "add_p" /\ ctl.ir.op \in Machine!Lost
      BY <1>4, <2>3, <2>7 DEF Lost, Machine!Lost, Unrecoverable
    <3>2. cpu' = Base.cpu
      <4>1. Op \notin Unrecoverable
        BY <2>7 DEF Lost, Unrecoverable
      <4>2. cpu' = [pc |-> Plus(old.pc, 2), sp |-> old.sp, ps |-> old.ps, regs |-> old.regs]
        BY <1>5, <2>5, <2>7, <3>1, <4>1
      <4>3. Base.cpu = [pc |-> Plus(old.pc, 2), sp |-> old.sp, ps |-> old.ps, regs |-> old.regs]
        BY <1>1, <1>11, BaseIs DEF old
      <4> QED
        BY <4>2, <4>3
    <3>3. ram' = boundary.ram
      <4>1. ctl.phase = 0 /\ ~ctl.incAddress
        BY <1>1, <1>3, <2>7, HalfOf DEF LastExc, Lost, Calls, Pushing, Popping, Setting
      <4>2. "mem" \notin x
        BY <2>7, <4>1, RowsOfControl DEF x, Lost
      <4>3. ram' = ram
        BY <1>2, <4>2 DEF RamWritten
      <4> QED
        BY <1>1, <4>1, <4>3, FirstPhase
    <3>4. Base.cpu.ps = old.ps /\ Base.ram = boundary.ram
      BY <1>1, BaseIs DEF old, View
    <3>5. Machine!Written(boundary.ram, boundary.ram)
      BY <1>1, <3>3 DEF Machine!Written
    <3>6. boundary'.cpu = [Base.cpu EXCEPT !.ps = @]
      <4>1. Base.cpu \in CpuTypes
        BY <1>1, BaseIs
      <4> QED
        BY <1>1, <3>2, <4>1 DEF CpuTypes
    <3>7. Machine!Undone(Base, boundary)
      BY <1>1, <1>2, <2>1, <3>1, <3>2, <3>4, <3>5, <3>6 DEF Machine!Undone
    <3>8. Machine!Lose
      BY <1>1, <1>2, <2>1, <2>2, <3>1, <3>7 DEF Machine!Lose
    <3> QED
      BY <1>1, <3>8, AllowedSteps DEF Allowed
  <2>8. CASE Op \notin Unrecoverable \cup Lost
    <3>1. /\ ctl.ir.op \notin Machine!Unrecoverable \cup Machine!Lost
          /\ Op = "add_p" <=> ctl.ir.op = "add_p"
      BY <2>3, <2>8 DEF Unrecoverable, Lost, Machine!Unrecoverable, Machine!Lost
    <3>2. n \in {4} \cup (IF Own = 0 THEN Externals ELSE {Own})
      BY <1>4, <2>8
    <3>3. cpu'.pc = old.pc
      <4>1. old.pc \in Word
        BY <1>8 DEF CpuTypes
      <4>2. cpu'.pc = Minus(Plus(old.pc, 2), 2)
        BY <1>5, <1>11, <2>5, <2>8
      <4> QED
        BY <4>1, <4>2, ThereAndBack
    <3>4. cpu' = [old EXCEPT !.ps = IF ctl.ir.op = "add_p" THEN cpu'.ps ELSE @]
      <4>1. cpu' = [pc |-> old.pc, sp |-> old.sp,
                    ps |-> IF ctl.ir.op = "add_p" THEN cpu'.ps ELSE old.ps, regs |-> old.regs]
        BY <1>5, <3>1, <3>3
      <4> QED
        BY <1>8, <1>9, <4>1
    <3>5. Machine!Undone(boundary, Target)
      BY <1>1, <1>2, <1>6, <2>1, <2>4, <3>4 DEF Machine!Undone, old
    <3>6. Machine!Raise
      BY <1>1, <1>2, <2>1, <2>2, <3>1, <3>2, <3>5 DEF Machine!Raise, Own
    <3> QED
      BY <1>1, <3>6, AllowedSteps DEF Allowed
  <2> QED
    BY <2>6, <2>7, <2>8
<1> QED
  BY <1>10, <1>11

\* A phase of an instruction.
LEMMA ExecuteStep ==
    ASSUME AllInv, NEW in \in Inputs, ExecuteClock(in)
    PROVE  Allowed
<1>1. PhaseDone(in)
  BY ExecuteIs
<1> QED
  BY <1>1, FaultStep, ContinuedStep, DoneStep, BrokenStep

\* Every step keeps the mapping and is one of the instruction set or none.
LEMMA NextAllowed ==
    ASSUME AllInv, [Next]_vars
    PROVE  AllInv' /\ [Machine!Next]_Machine!vars
<1>1. TypeInv' /\ NumberInv'
  BY NextTyped, NextNumbered DEF AllInv
<1>2. CASE UNCHANGED vars
  <2> USE <1>2 DEF vars
  <2>1. BoundaryOK' = BoundaryOK
    BY DEF BoundaryOK, CpuTypes, Bytes
  <2>2. /\ Op' = Op /\ Pending' = Pending /\ rom(boundary.cpu.pc)' = rom(boundary.cpu.pc)
        /\ Own' = Own /\ \A op, ph : /\ SpAt(op, ph)' = SpAt(op, ph)
                                     /\ RamAt(op, ph)' = RamAt(op, ph)
                                     /\ PcAt(op, ph)' = PcAt(op, ph)
    BY Continued DEF Op, Pending, rom
  <2>3. /\ SpAt(Op, ctl.phase)' = SpAt(Op, ctl.phase)
        /\ RamAt(Op, ctl.phase)' = RamAt(Op, ctl.phase)
        /\ PcAt(Op, ctl.phase)' = PcAt(Op, ctl.phase)
        /\ LastMain(Op)' = LastMain(Op) /\ LastExc(Op)' = LastExc(Op)
    BY <2>2 DEF SpAt, RamAt, PcAt, LastMain, LastExc, Target, Base
  <2>4. /\ Fetching' = Fetching /\ PcKept' = PcKept /\ Entered' = Entered
        /\ Halfway' = Halfway
    BY <2>2 DEF Fetching, PcKept, Entered, Halfway
  <2>5. Broken' = Broken
    BY <2>2, <2>3 DEF Broken
  <2>6. Executing' = Executing
    BY <2>2, <2>3, <2>4, <2>5 DEF Executing
  <2>7. Sim'
    BY <2>1, <2>4, <2>6 DEF AllInv, Sim
  <2> QED
    BY <1>1, <2>7 DEF AllInv, Machine!vars
<1>3. CASE Next
  <2>1. Allowed
    BY <1>3, SuspendedStep, InhibitedStep, FetchStep, ExecuteStep, ResetStep DEF Next, Clock
  <2> QED
    BY <1>1, <2>1 DEF AllInv, Allowed
<1> QED
  BY <1>2, <1>3

\* The clocks of the emulator make up the instructions of the processor.
THEOREM MachineImplemented == Spec => ImplementsMachine
<1>1. Init => AllInv /\ Machine!Init
  BY InitTyped, InitNumbered, InitSim DEF AllInv
<1>2. AllInv /\ [Next]_vars => AllInv' /\ [Machine!Next]_Machine!vars
  BY NextAllowed
<1> QED
  BY <1>1, <1>2, PTL DEF Spec, ImplementsMachine, Machine!Spec
==============================================================================
