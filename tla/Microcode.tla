------------------------------- MODULE Microcode -------------------------------
(***************************************************************************)
(* The microcode of the CdM-16: for every operation the rows of signals of  *)
(* its phases, in the main decoder and in the one that replaces it once an  *)
(* exception was raised (src/logisim/cdm16/microcode).  Operations whose    *)
(* rows differ only in what the ALU does, in the sign of their immediate or *)
(* in the memory they read stand here once; unused operation codes are      *)
(* "invalid".                                                               *)
(***************************************************************************)
EXTENDS Naturals, Sequences

Write == {"mem", "data", "word"}
Read == {"mem", "data", "word", "read"}
Code == {"mem", "word", "read"}
Push == Write \cup {"sp_asrt0", "sp_dec"}
Pop == Read \cup {"sp_asrt0"}
Relative == {"pc_asrt0", "imm_asrt1", "imm_shift", "alu_asrtD"}

\* cdm16_decoder.def
Main ==
    [halt    |-> <<{"word"}>>,
     wait    |-> <<{"word"}>>,
     ei      |-> <<{"word"}>>,
     di      |-> <<{"word"}>>,
     jsr     |-> <<Push \cup {"pc_asrtD"}, Code \cup {"pc_asrt0", "pc_latch"}>>,
     rti     |-> <<Pop \cup {"pc_latch", "sp_inc"}, Pop \cup {"ps_latch_word", "sp_inc"}>>,
     pupc    |-> <<Push \cup {"pc_asrtD"}>>,
     popc    |-> <<Pop \cup {"pc_latch", "sp_inc"}>>,
     pusp    |-> <<Push \cup {"sp_asrtD"}>>,
     posp    |-> <<Pop \cup {"sp_latch"}>>,
     pups    |-> <<Push \cup {"ps_asrtD"}>>,
     pops    |-> <<Pop \cup {"ps_latch_word", "sp_inc"}>>,
     push    |-> <<Push \cup {"r_asrtD"}>>,
     pop     |-> <<Pop \cup {"r_latch", "sp_inc"}>>,
     ldi     |-> <<Code \cup {"pc_asrt0", "r_latch", "pc_inc"}>>,
     jsrr    |-> <<Push \cup {"pc_asrtD"}, {"r_asrtD", "pc_latch"}>>,
     ldsp    |-> <<{"sp_asrtD", "r_latch"}>>,
     stsp    |-> <<{"sp_latch", "r_asrtD"}>>,
     ldps    |-> <<{"ps_asrtD", "r_latch"}>>,
     stps    |-> <<{"ps_latch_word", "r_asrtD"}>>,
     ldpc    |-> <<{"pc_asrtD", "r_latch"}>>,
     stpc    |-> <<{"pc_latch", "r_asrtD"}>>,
     addsp   |-> <<{"sp_asrt0", "r_asrt1", "alu_asrtD", "sp_latch"}>>,
     move    |-> <<{"r_asrt0", "alu_asrtD", "r_latch", "ps_latch_flags"}>>,
     ldw     |-> <<Read \cup {"r_asrt0", "r_latch"}>>,
     ldb     |-> <<{"mem", "data", "read", "r_asrt0", "r_latch"}>>,
     stw     |-> <<Write \cup {"r_asrt0", "r_asrtD"}>>,
     stb     |-> <<{"mem", "data", "r_asrt0", "r_asrtD"}>>,
     ldi_p   |-> <<{"r_latch", "imm_asrtD"}>>,
     add_p   |-> <<{"r_asrt0", "imm_asrt1", "alu_asrtD", "r_latch", "ps_latch_flags"}>>,
     int     |-> <<Push \cup {"ps_asrtD"}, Push \cup {"pc_asrtD"},
                   Code \cup {"imm_asrt1", "pc_latch"}, Code \cup {"imm_asrt1", "ps_latch_word"}>>,
     reset   |-> <<Code \cup {"imm_asrt1", "pc_latch"}, Code \cup {"imm_asrt1", "ps_latch_word"}>>,
     push_p  |-> <<Push \cup {"imm_asrtD"}>>,
     addsp_p |-> <<{"sp_asrt0", "imm_asrt1", "imm_shift", "alu_asrtD", "sp_latch"}>>,
     jsr_rel |-> <<Push \cup {"pc_asrtD"}, Relative \cup {"pc_latch"}>>,
     br_abs  |-> <<Code \cup {"pc_asrt0", "pc_latch"}>>,
     alu3    |-> <<{"r_asrt0", "r_asrt1", "alu_asrtD", "r_latch", "ps_latch_flags"}>>,
     br_rel  |-> <<Relative \cup {"pc_latch"}>>,
     br_nop  |-> <<{"pc_inc"}>>,
     fetch   |-> <<Code \cup {"pc_asrt0", "pc_inc"}>>,
     invalid |-> <<>>]

\* cdm16_decoder_exc.def: the same accesses without the latches, then sp and pc
\* are put back to where they were.
Exc ==
    [halt    |-> <<{"word"}>>,
     wait    |-> <<{"word"}>>,
     ei      |-> <<{"word"}>>,
     di      |-> <<{"word"}>>,
     jsr     |-> <<Push \cup {"pc_asrtD"}, Code \cup {"pc_asrt0"}, {"sp_inc", "pc_inc"}>>,
     rti     |-> <<Pop \cup {"sp_inc"}, Pop \cup {"sp_inc"}, {"sp_dec"}, {"sp_dec", "pc_inc"}>>,
     pupc    |-> <<Push \cup {"pc_asrtD"}, {"sp_inc", "pc_inc"}>>,
     popc    |-> <<Pop \cup {"sp_inc"}, {"sp_dec", "pc_inc"}>>,
     pusp    |-> <<Push \cup {"sp_asrtD"}, {"sp_inc", "pc_inc"}>>,
     posp    |-> <<Pop, {"pc_inc"}>>,
     pups    |-> <<Push \cup {"ps_asrtD"}, {"sp_inc", "pc_inc"}>>,
     pops    |-> <<Pop \cup {"sp_inc"}, {"sp_dec", "pc_inc"}>>,
     push    |-> <<Push \cup {"r_asrtD"}, {"sp_inc", "pc_inc"}>>,
     pop     |-> <<Pop \cup {"sp_inc"}, {"sp_dec", "pc_inc"}>>,
     ldi     |-> <<Code \cup {"pc_asrt0", "pc_inc"}>>,
     jsrr    |-> <<Push \cup {"pc_asrtD"}, {"r_asrtD"}, {"sp_inc", "pc_inc"}>>,
     ldsp    |-> <<{"sp_asrtD"}, {"pc_inc"}>>,
     stsp    |-> <<{"r_asrtD"}, {"pc_inc"}>>,
     ldps    |-> <<{"ps_asrtD"}, {"pc_inc"}>>,
     stps    |-> <<{"r_asrtD"}, {"pc_inc"}>>,
     ldpc    |-> <<{"pc_asrtD"}, {"pc_inc"}>>,
     stpc    |-> <<{"r_asrtD"}, {"pc_inc"}>>,
     addsp   |-> <<{"sp_asrt0", "r_asrt1", "alu_asrtD"}, {"pc_inc"}>>,
     move    |-> <<{"r_asrt0", "alu_asrtD"}, {"pc_inc"}>>,
     ldw     |-> <<Read \cup {"r_asrt0", "pc_inc"}>>,
     ldb     |-> <<{"mem", "data", "read", "r_asrt0", "pc_inc"}>>,
     stw     |-> <<Write \cup {"r_asrt0", "r_asrtD", "pc_inc"}>>,
     stb     |-> <<{"mem", "data", "r_asrt0", "r_asrtD", "pc_inc"}>>,
     ldi_p   |-> <<{"imm_asrtD", "pc_inc"}>>,
     add_p   |-> <<{"r_asrt0", "imm_asrt1", "alu_asrtD", "ps_latch_flags", "pc_inc"}>>,
     int     |-> <<Push \cup {"ps_asrtD"}, Push \cup {"pc_asrtD"},
                   Code \cup {"imm_asrt1"}, Code \cup {"imm_asrt1"},
                   {"sp_inc"}, {"sp_inc", "pc_inc"}>>,
     reset   |-> <<Code \cup {"imm_asrt1"}, Code \cup {"imm_asrt1"}, {"pc_inc"}>>,
     push_p  |-> <<Push \cup {"imm_asrtD"}, {"sp_inc", "pc_inc"}>>,
     addsp_p |-> <<{"sp_asrt0", "imm_asrt1", "imm_shift", "alu_asrtD", "pc_inc"}>>,
     jsr_rel |-> <<Push \cup {"pc_asrtD"}, Relative, {"sp_inc", "pc_inc"}>>,
     br_abs  |-> <<Code \cup {"pc_asrt0", "pc_inc"}>>,
     alu3    |-> <<{"r_asrt0", "r_asrt1", "alu_asrtD", "pc_inc"}>>,
     br_rel  |-> <<Relative \cup {"pc_inc"}>>,
     br_nop  |-> <<{"pc_inc"}>>,
     fetch   |-> <<Code \cup {"pc_asrt0"}>>,
     invalid |-> <<>>]

Operations == DOMAIN Main

\* The decoder's compiler adds CUT to the last row of an operation.
Row(rows, phase) ==
    IF phase < Len(rows)
    THEN rows[phase + 1] \cup (IF phase + 1 = Len(rows) THEN {"cut"} ELSE {})
    ELSE {}

MainRow(op, phase) == Row(Main[op], phase)

\* The Makefile has the empty rows of this table filled with 0x8000400.
ExcRow(op, phase) ==
    IF Row(Exc[op], phase) = {} THEN {"cut", "pc_inc"} ELSE Row(Exc[op], phase)
================================================================================
