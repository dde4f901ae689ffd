---------------------------- MODULE CompiledFunction ----------------------------
(***************************************************************************)
(* A function that Parser has compiled, called and run by the machine of   *)
(* cvm.c: one basic block per step, which the linker makes no difference   *)
(* to (IRLinkerProofs).                                                    *)
(***************************************************************************)
EXTENDS Parser

CONSTANTS
  Inputs,     \* the values of arguments
  Outer,      \* and of the registers that may be captured
  MaxBlocks   \* how many blocks of a call are run

VARIABLE frame

NoFrame == [regs |-> Empty, values |-> Empty, bb |-> None, ran |-> None,
            returned |-> FALSE, right |-> TRUE, blocks |-> 0]
allVars == <<vars, frame>>

CallInit == Init /\ frame = NoFrame

(* What I_NEW_CLS puts into a closure: for each register of the new function*)
(* that captures one of this frame, the value that one has at the moment.   *)
Closure(list, regs) == [r \in Range(list) |-> regs[CHOOSE o \in DOMAIN list : list[o] = r]]

(* cvm_state_push_frame, the arguments put into registers 2 and up, and     *)
(* then what was captured, which _cvm_setup_function_frame copies.  Of the   *)
(* variables around the function, values has those it captures.             *)
Call(args, outer) ==
  /\ ended /\ frame = NoFrame
  /\ frame' = [NoFrame EXCEPT
       !.regs = Closure(ir.capture_list, 0 :> 0 @@ outer) @@ [r \in 0 .. ir.register_nr |->
                   IF r - 1 \in DOMAIN args THEN args[r - 1] ELSE Undefined],
       !.values = args @@ [v \in {-o : o \in DOMAIN ir.capture_list \ {0}} |-> outer[-v]], !.bb = 1]
  /\ UNCHANGED vars

(* An instruction of cvm_state_run.  Of a claim, the machine knows nothing; *)
(* values are those that the variables of the program should have.          *)
Meaning(f, claim) == Eval(claim.expr, [n \in DOMAIN claim.names |-> f.values[claim.names[n]]])
Execute(f, inst) ==
  LET set(v) == [f EXCEPT !.regs[inst.rd] = v] IN
  CASE f.returned -> f
    [] ~f.returned /\ inst.type = "LI" -> set(inst.rs)
    [] ~f.returned /\ inst.type \in Ops -> set(Apply(inst.type, f.regs[inst.rs], f.regs[inst.rt]))
    [] ~f.returned /\ inst.type = "LNOT" -> set(Bit(~Truth(f.regs[inst.rs])))
    [] ~f.returned /\ inst.type = "MOV" -> set(f.regs[inst.rs])
    [] ~f.returned /\ inst.type = "NEW_CLS" ->
         set(Closure(inst.rs, f.regs) @@ [r \in 1 .. inst.rt |-> Undefined])
    [] ~f.returned /\ inst.type = "UNDEFINED" -> set(Undefined)
    [] ~f.returned /\ inst.type = "RET" -> [f EXCEPT !.returned = TRUE]
    [] ~f.returned /\ inst.type = "IS" ->
         [f EXCEPT !.values = With(@, inst.variable, Meaning(f, inst)),
                   !.right = @ /\ f.regs[inst.rs] = Meaning(f, inst)]
    [] ~f.returned /\ inst.type = "WHEN" ->
         [f EXCEPT !.right = @ /\ (Truth(Meaning(f, inst)) <=> inst.true)]

(* A block, to its end and the branch or jump there, or to the first return. *)
Successor(b, regs) ==
  IF b.br_reg # 0 /\ Truth(regs[b.br_reg]) THEN b.then_bb ELSE b.else_bb
RunBlock ==
  /\ frame.bb # None /\ ~frame.returned /\ frame.blocks < MaxBlocks
  /\ LET b == ir.bbs[frame.bb]
         end == FoldLeft(Execute, frame, b.insts)
         early == end.returned /\ FoldLeft(Execute, frame, Front(b.insts)).returned
     IN  frame' = [end EXCEPT !.bb = IF end.returned THEN None ELSE Successor(b, end.regs),
                              !.ran = IF early THEN None ELSE frame.bb,
                              !.blocks = @ + 1]
  /\ UNCHANGED vars

Run ==
  \/ \E args \in [DOMAIN Params -> Inputs], outer \in [Range(Enclosing) -> Outer] : Call(args, outer)
  \/ RunBlock
CallNext == (Parse /\ UNCHANGED frame) \/ Run
CallSpec == CallInit /\ [][CallNext]_allVars

-------------------------------------------------------------------------------
(* Instructions, scopes and tables name registers and blocks that exist.    *)
TypeOK ==
  LET Reg == 0 .. ir.register_nr
      Block == {None} \cup DOMAIN ir.bbs
  IN  /\ ir.current_bb \in DOMAIN ir.bbs
      /\ \A b \in DOMAIN ir.bbs :
           LET bb == ir.bbs[b] IN
           /\ bb.dominator \in 0 .. b - 1
           /\ bb.br_reg \in Reg /\ {bb.then_bb, bb.else_bb} \subseteq Block
           /\ Range(bb.constant_table) \subseteq Reg /\ DOMAIN bb.numeric_value \subseteq Reg
           /\ \A i \in Range(bb.insts) :
                /\ i.type \in Ops \cup {"MOV", "LNOT"} => i.rd \in Reg \ {0} /\ {i.rs, i.rt} \subseteq Reg
                /\ i.type \in {"IS", "MOV"} => i.rs \in Reg
      /\ \A s \in Range(scopes) : Range(s.symbol_table) \cup Range(s.upper_table) \subseteq Reg

(* Wherever the program gives a variable a value, the register that the     *)
(* parser takes for it afterwards holds that value, at the end of the       *)
(* function too; and a branch runs if its condition says so                 *)
(* (_parse_if_else_stmt, _parse_while_stmt).                                *)
MeansAsWritten == frame.right

(* When a block ends, each constant is in the register that the block's     *)
(* table has for it, be it loaded there or in a block that dominates it     *)
(* (_ir_builder_find_in_constant_table).                                    *)
SharedConstantsHold ==
  frame.ran # None =>
    LET table == ir.bbs[frame.ran].constant_table
    IN  \A c \in DOMAIN table : frame.regs[table[c]] = c

(* And each register that the block takes for known holds that number, so   *)
(* that folding is right (_ir_fold_constant, ir_builder_mov_upper).         *)
KnownNumbersHold ==
  frame.ran # None =>
    LET table == ir.bbs[frame.ran].numeric_value
    IN  \A r \in DOMAIN table : frame.regs[r] = table[r]

(* The assertion of every function of the builder, that its block has not   *)
(* been ended, holds; and in the end only the last block read has no        *)
(* successor, so no other returns undefined to the caller.                  *)
BlocksEndOnce ==
  /\ ~ir.extended
  /\ ended => \A b \in DOMAIN ir.bbs : ir.bbs[b].else_bb = None <=> b = ir.current_bb
===============================================================================
