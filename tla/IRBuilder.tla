------------------------------- MODULE IRBuilder -------------------------------
(***************************************************************************)
(* ir_builder.c but for the linker (IRLinker): the basic blocks of one     *)
(* function, with the two tables each of them keeps of constants.  Each    *)
(* operator is a function of the code; it takes the builder to the builder *)
(* after the call, and what the function returns is in its reg.            *)
(***************************************************************************)
EXTENDS Integers, Sequences, FiniteSetsExt, TLC

CONSTANT Undefined    \* the value of a register that nothing has written
ASSUME UndefinedAssumption == Undefined \notin Int

None == 0             \* no block: NULL

(* A table in which k is v, and one that g takes precedence in.             *)
With(f, k, v) == [x \in DOMAIN f \cup {k} |-> IF x = k THEN v ELSE f[x]]
Over(g, f) == [x \in DOMAIN g \cup DOMAIN f |-> IF x \in DOMAIN g THEN g[x] ELSE f[x]]
Empty == [n \in {} |-> 0]

(* A block of the builder: the table from constants to the registers they   *)
(* are in, and the one from registers to their known values.  Register 0    *)
(* is 0.                                                                    *)
NewBlock(dominator) ==
  [dominator |-> dominator, insts |-> <<>>, br_reg |-> 0, then_bb |-> None, else_bb |-> None,
   constant_table |-> With(Empty, 0, 0), numeric_value |-> With(Empty, 0, 0)]

(* ir_builder_new, and ir_builder_new_basic_block.  captured has the names  *)
(* from outside that were met, and capture_list their registers: outside    *)
(* and here.  Two fields are history: extended says that an assertion of a  *)
(* function below has failed, and doubtful that the program has met a case  *)
(* the code gets wrong.                                                     *)
Builder == [bbs |-> <<NewBlock(None)>>, register_nr |-> 0, current_bb |-> 1, reg |-> 0,
            captured |-> Empty, capture_list |-> With(Empty, 0, 0),
            extended |-> FALSE, doubtful |-> FALSE]
Extended(builder, dominator) == [builder EXCEPT !.bbs = Append(@, NewBlock(dominator))]
Newest(builder) == Len(builder.bbs)

(* The nearest block, from bb upwards, whose table has the key.             *)
Holder(builder, bb, table, key) ==
  LET up[b \in 0 .. Len(builder.bbs)] ==
        IF b = None THEN None
        ELSE IF key \in DOMAIN builder.bbs[b][table] THEN b ELSE up[builder.bbs[b].dominator]
  IN  up[bb]
Put(builder, bb, table, key, value) == [builder EXCEPT !.bbs[bb][table] = With(@, key, value)]

(* What is found is copied into the tables of all blocks on the way, from   *)
(* below the holder down to bb.                                             *)
CopyDown(builder, bb, table, key, holder) ==
  LET copied[b \in 0 .. Len(builder.bbs)] ==
        IF b \in {None, holder} THEN builder
        ELSE Put(copied[builder.bbs[b].dominator], b, table, key,
                 builder.bbs[holder][table][key])
  IN  IF holder = None THEN builder ELSE copied[bb]
Cached(builder, bb, table, key) ==
  CopyDown(builder, bb, table, key, Holder(builder, bb, table, key))

Doubt(builder, cond) == [builder EXCEPT !.doubtful = @ \/ cond]

(* assert_basic_block_not_end. *)
NotEnd(builder, bb) ==
  [builder EXCEPT !.extended = @ \/ builder.bbs[bb].br_reg # 0 \/ builder.bbs[bb].else_bb # None]
Emit(builder, bb, inst) == [NotEnd(builder, bb) EXCEPT !.bbs[bb].insts = Append(@, inst)]

(* An instruction that writes to a register of its own.                     *)
BadAllocated(builder) == [builder EXCEPT !.reg = builder.register_nr + 1]
Allocated(builder) == [builder EXCEPT !.register_nr = @ + 1, !.reg = builder.register_nr + 1]
Fresh(builder, bb, inst) ==
  LET new == Allocated(builder) IN Emit(new, bb, [inst EXCEPT !.rd = new.reg])

Inst(type, rd, rs, rt) == [type |-> type, rd |-> rd, rs |-> rs, rt |-> rt]

(* Constants are shared with the blocks that dominate this one. *)
Load(builder, bb, imm) ==
  LET new == Fresh(builder, bb, Inst("LI", 0, imm, 0))
  IN  Put(Put(new, bb, "constant_table", imm, new.reg), bb, "numeric_value", new.reg, imm)
Shared(builder, bb, imm) ==
  IF imm \in DOMAIN builder.bbs[bb].constant_table
  THEN [builder EXCEPT !.reg = builder.bbs[bb].constant_table[imm]]
  ELSE Load(builder, bb, imm)
Li(builder, bb, imm) == Shared(Cached(builder, bb, "constant_table", imm), bb, imm)

Truth(v) == v \notin {0, Undefined}
Bit(b) == IF b THEN 1 ELSE 0
Ops == {"ADD", "SUB", "MUL", "DIV", "MOD", "SEQ", "SLT", "SLE"}

Abs(n) == IF n < 0 THEN -n ELSE n

(* C divides towards 0; a division by 0, which stops the program, and       *)
(* arithmetic on what is no number give no number here.                     *)
Quotient(l, r) == IF (l < 0) = (r < 0) THEN Abs(l) \div Abs(r) ELSE -(Abs(l) \div Abs(r))
Apply(op, l, r) ==
  CASE op = "SEQ" -> Bit(l = r)
    [] op # "SEQ" /\ Undefined \in {l, r} -> Undefined
    [] op \in {"DIV", "MOD"} /\ r = 0 -> Undefined
    [] OTHER -> CASE op = "ADD" -> l + r
                  [] op = "SUB" -> l - r
                  [] op = "MUL" -> l * r
                  [] op = "DIV" -> Quotient(l, r)
                  [] op = "MOD" -> l - r * Quotient(l, r)
                  [] op = "SLT" -> Bit(l < r)
                  [] op = "SLE" -> Bit(l <= r)

(* Operations on two known numbers are folded; a division by 0 that is      *)
(* folded stops the parser.                                                 *)
Folded(builder, bb, op, rs, rt) ==
  LET known == builder.bbs[bb].numeric_value
  IN  IF {rs, rt} \subseteq DOMAIN known
      THEN Li(Doubt(builder, op \in {"DIV", "MOD"} /\ known[rt] = 0), bb,
              Apply(op, known[rs], known[rt]))
      ELSE Fresh(builder, bb, Inst(op, 0, rs, rt))
Binary(builder, bb, op, rs, rt) ==
  Folded(Cached(Cached(NotEnd(builder, bb), bb, "numeric_value", rs), bb, "numeric_value", rt),
         bb, op, rs, rt)
Lnot(builder, bb, rs) == Fresh(builder, bb, Inst("LNOT", 0, rs, 0))

(* A register that is moved to is known if the one it is moved from is.     *)
Learnt(builder, bb, rd, rs) ==
  LET known == builder.bbs[bb].numeric_value
  IN  IF rs \in DOMAIN known THEN Put(builder, bb, "numeric_value", rd, known[rs]) ELSE builder
Learn(builder, bb, rd, rs) == Learnt(Cached(builder, bb, "numeric_value", rs), bb, rd, rs)
Mov(builder, bb, rs) ==
  LET new == Fresh(builder, bb, Inst("MOV", 0, rs, 0)) IN Learn(new, bb, new.reg, rs)
MovUpper(builder, bb, rd, rs) == Learn(Emit(builder, bb, Inst("MOV", rd, rs, 0)), bb, rd, rs)

(* How a block ends.                                                        *)
Br(builder, bb, rd, then_bb, else_bb) ==
  [NotEnd(builder, bb) EXCEPT !.bbs[bb].br_reg = rd, !.bbs[bb].then_bb = then_bb,
                         !.bbs[bb].else_bb = else_bb]
J(builder, bb, successor_bb) ==
  [NotEnd(builder, bb) EXCEPT !.bbs[bb].br_reg = 0, !.bbs[bb].else_bb = successor_bb]
===============================================================================
