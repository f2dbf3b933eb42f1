----------------------------- MODULE MCCdm16Clock -----------------------------
(* Small instances of Cdm16Clock: words of 6 bits, bytes of 3.                *)
EXTENDS Cdm16Clock

LOCAL Inst(op, rd, rs, num) == [op |-> op, rd |-> rd, rs |-> rs, num |-> num]
LOCAL Op0(op) == Inst(op, 0, 0, 0)

\* A data word: taken for an instruction, a small one is an operation without operands.
LOCAL ZeroOp == <<"halt", "wait", "ei", "di", "jsr", "rti", "pupc", "popc", "pusp", "posp", "pups", "pops">>
LOCAL Data(n) == Inst(IF n % 16 < 4 THEN "invalid" ELSE ZeroOp[(n % 16) - 3], 0, 0, n)

\* The vectors, each with pc and ps, up to address 31; the handlers, which return or
\* halt, at 32 and 34; the program from 36 on.
LOCAL Return == 32
LOCAL Stop == 34
LOCAL Entry == 36
LOCAL Vectors(double, start) ==
    [n \in 0 .. 7 |->
        CASE n = 0 -> <<Entry, start>>
          [] n \in 1 .. 3 -> <<Stop, 0>>
          [] n = 4 -> <<double, 0>>
          [] OTHER -> <<Return, 0>>]

LOCAL Image(double, start, program) ==
    [k \in 1 .. 32 |->
        LET a == 2 * (k - 1) IN
        CASE a < 32 -> Data(Vectors(double, start)[a \div 4][((a \div 2) % 2) + 1])
          [] a = Return -> Op0("rti")
          [] a = Stop -> Op0("halt")
          [] a >= Entry /\ (a - Entry) \div 2 < Len(program) -> program[((a - Entry) \div 2) + 1]
          [] OTHER -> Op0("halt")] \o <<>>

LOCAL Ldi(r, n) == Inst("ldi_p", r, 0, n)
LOCAL I == InterruptBit

\* One program for every way an instruction can be broken off.
LOCAL Broken ==
    <<  <<Op0("jsr"), Data(40)>>, <<Op0("jsr"), Data(41)>>,
         <<Ldi(0, 40), Inst("jsrr", 0, 0, 0)>>, <<Inst("jsr_rel", 0, 0, 1)>>,
         <<Inst("push_p", 0, 0, 41), Op0("popc")>>, <<Inst("push_p", 0, 0, 40), Op0("popc")>>,
         <<Op0("pupc"), Inst("pop", 1, 0, 0)>>, <<Op0("pusp"), Op0("posp")>>,
         <<Op0("pups"), Op0("di"), Op0("pops")>>,
         <<Inst("push_p", 0, 0, 7), Op0("posp")>>,
         <<Inst("ldi", 1, 0, 0), Data(9), Inst("push", 1, 0, 0), Inst("stsp", 1, 0, 0)>>,
         <<Ldi(1, 10), Inst("stsp", 1, 0, 0), Inst("ldsp", 0, 0, 0), Inst("addsp", 0, 0, 0)>>,
         <<Inst("addsp_p", 0, 0, 62), Ldi(1, 7), Inst("addsp", 1, 0, 0)>>,
         <<Inst("ldps", 1, 0, 0), Op0("di"), Inst("stps", 1, 0, 0)>>,
         <<Inst("ldpc", 1, 0, 0), Inst("add_p", 1, 1, 4), Inst("stpc", 1, 0, 0)>>,
         <<Ldi(0, 60), Inst("add_p", 0, 0, 8), Inst("alu3", 0, 0, 0), Inst("move", 1, 0, 0)>>,
         <<Ldi(0, 60), Inst("add_p", 0, 0, 8), Inst("bcs_abs", 0, 0, 0), Data(44)>>,
         <<Ldi(0, 60), Inst("add_p", 0, 0, 8), Inst("bcs_rel", 0, 0, 1)>>,
         <<Inst("bcs_abs", 0, 0, 0), Data(41), Inst("bcs_rel", 0, 0, 1)>>,
         <<Ldi(0, 21), Ldi(1, 13), Inst("stw", 0, 1, 0), Inst("ldw", 1, 1, 0)>>,
         <<Ldi(0, 21), Ldi(1, 13), Inst("stb", 0, 1, 0), Inst("ldb", 1, 1, 0)>>,
         <<Inst("int", 0, 0, 5)>>, <<Inst("reset", 0, 0, 6)>>, <<Op0("invalid")>>,
         <<Op0("wait"), Ldi(1, 1)>>, <<Op0("di"), Op0("wait"), Op0("ei"), Ldi(1, 1)>>  >>

LOCAL Images ==
    [k \in DOMAIN Broken |-> Image(Stop, I, Broken[k])] \o
    <<Image(Return, I, <<Op0("rti")>>),
          Image(33, I, <<Ldi(0, 41), Inst("stpc", 0, 0, 0)>>),
          Image(Stop, 0, <<Op0("ei"), Ldi(1, 1), Op0("di")>>)>>

MCPrograms == Images
MCRegisters == {0, 1}
================================================================================
