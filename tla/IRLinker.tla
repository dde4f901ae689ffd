------------------------------- MODULE IRLinker -------------------------------
(***************************************************************************)
(* ir_builder_destroy: the basic blocks of a function become one list of   *)
(* instructions.  A jump to a block that has no place yet is put on a chain*)
(* that runs through the operands of such jumps, and is filled in when the *)
(* block gets its place.  Each iteration of a loop is a step.  A definition*)
(* named Bad... is a mistake in the one after it that a property rules out.*)
(***************************************************************************)
EXTENDS Integers

CONSTANTS N,      \* how many basic blocks the function has
          Sizes   \* how many instructions a block may hold

ASSUME LinkerAssumption == N \in Nat \ {0} /\ Sizes \subseteq Nat

Block == 1 .. N
None == 0         \* no block: NULL

(* What the parser leaves in a block: br for ir_builder_br, which ends in   *)
(* two blocks (with register 0, the constant 0, it is a jump to else_bb),   *)
(* otherwise ir_builder_j, or nothing at all.                               *)
BasicBlock ==
       [size : Sizes, br : {TRUE}, then_bb : Block, else_bb : Block]
  \cup [size : Sizes, br : {FALSE}, then_bb : {None}, else_bb : Block \cup {None}]

VARIABLES bbs,    \* the blocks, in the order of the list; they do not change
          entry,  \* the entry_point of each
          insts, count,  \* the instruction list that is returned
          bb,     \* the block the outer loop is at, N + 1 after it
          at,     \* what comes next in its body
          inst_to_fill, copied

vars == <<bbs, entry, insts, count, bb, at, inst_to_fill, copied>>

(* An entry_point is a pointer, whose two low bits are cut, to the last jump*)
(* of the chain, 0xFFFFFFFF if there is none; or the place of the block.    *)
NoInst == -1
Chain(i) == [is_ptr |-> TRUE, index |-> i]
Place(i) == [is_ptr |-> FALSE, index |-> i]

(* from and to are not in the code: the block the instruction belongs to and*)
(* the one it is meant to lead to.                                          *)
Inst == [type : {"BODY", "BNR", "J", "UNDEFINED", "RET"}, imm : Int, from : Block,
         to : Block \cup {None}]

Zero == 0         \* the operand of an instruction that has none

(* inst_list_push. *)
Push(type, imm, to) ==
  /\ insts' = [i \in 0 .. count |->
                 IF i = count THEN [type |-> type, imm |-> imm, from |-> bb, to |-> to]
                 ELSE insts[i]]
  /\ count' = count + 1

Init ==
  /\ bbs \in [Block -> BasicBlock]
  /\ entry = [b \in Block |-> Chain(NoInst)]
  /\ insts = [i \in {} |-> None] /\ count = 0
  /\ bb = 1 /\ at = "enter" /\ inst_to_fill = NoInst /\ copied = 0

(* The outer loop: no block has its place when its turn comes. *)
Enter ==
  /\ at = "enter" /\ bb \in Block
  /\ inst_to_fill' = IF entry[bb].is_ptr THEN entry[bb].index ELSE NoInst
  /\ at' = "fill"
  /\ UNCHANGED <<bbs, entry, insts, count, bb, copied>>

(* One jump of the chain: J is absolute, BNR is relative. *)
Filled(inst, i) ==
  [type |-> inst.type, imm |-> IF inst.type = "J" THEN count ELSE count - i - 1,
   from |-> inst.from, to |-> inst.to]
Fill ==
  /\ at = "fill" /\ inst_to_fill >= 0
  /\ insts' = [insts EXCEPT ![inst_to_fill] = Filled(insts[inst_to_fill], inst_to_fill)]
  /\ inst_to_fill' = insts[inst_to_fill].imm
  /\ UNCHANGED <<bbs, entry, count, bb, at, copied>>

FillDone ==
  /\ at = "fill" /\ inst_to_fill < 0
  /\ entry' = [entry EXCEPT ![bb] = Place(count)]
  /\ copied' = 0
  /\ at' = "copy"
  /\ UNCHANGED <<bbs, insts, count, bb, inst_to_fill>>

Copy ==
  /\ at = "copy" /\ copied < bbs[bb].size
  /\ Push("BODY", copied, None)
  /\ copied' = copied + 1
  /\ UNCHANGED <<bbs, entry, bb, at, inst_to_fill>>

(* What follows a jump that was pushed: it is the new end of the chain.     *)
BadChained(dst) ==    \* the count read after the push
  IF entry[dst].is_ptr THEN [entry EXCEPT ![dst] = Chain(count + 1)] ELSE entry
Chained(dst) == IF entry[dst].is_ptr THEN [entry EXCEPT ![dst] = Chain(count)] ELSE entry

(* _ir_builder_bnr_else. *)
Offset(dst) == entry[dst].index - count - 1
BnrElse ==
  /\ at = "copy" /\ copied = bbs[bb].size /\ bbs[bb].br
  /\ LET dst == bbs[bb].else_bb
     IN  /\ Push("BNR", IF entry[dst].is_ptr THEN entry[dst].index ELSE Offset(dst), dst)
         /\ entry' = Chained(dst)
  /\ at' = "jump"
  /\ UNCHANGED <<bbs, bb, inst_to_fill, copied>>

(* _ir_builder_jump_to, then_bb after a branch and else_bb otherwise.       *)
Jumping == at = "jump" \/ (at = "copy" /\ copied = bbs[bb].size /\ ~bbs[bb].br)
Destination == IF bbs[bb].br THEN bbs[bb].then_bb ELSE bbs[bb].else_bb
BadIsNext(dst) == dst >= bb + 1
IsNext(dst) == dst = bb + 1

FallThrough ==
  /\ Jumping /\ Destination # None /\ IsNext(Destination)
  /\ bb' = bb + 1 /\ at' = "enter"
  /\ UNCHANGED <<bbs, entry, insts, count, inst_to_fill, copied>>

BadFirstJump ==    \* the rest of the chain is lost
  /\ Jumping /\ Destination # None /\ ~IsNext(Destination)
  /\ Push("J", IF entry[Destination].is_ptr THEN NoInst ELSE entry[Destination].index, Destination)
  /\ entry' = Chained(Destination)
  /\ bb' = bb + 1 /\ at' = "enter"
  /\ UNCHANGED <<bbs, inst_to_fill, copied>>
BadSelfJump ==     \* entry_point set before the push
  /\ Jumping /\ Destination # None /\ ~IsNext(Destination)
  /\ entry' = Chained(Destination)
  /\ Push("J", entry'[Destination].index, Destination)
  /\ bb' = bb + 1 /\ at' = "enter"
  /\ UNCHANGED <<bbs, inst_to_fill, copied>>
Jump ==
  /\ Jumping /\ Destination # None /\ ~IsNext(Destination)
  /\ Push("J", entry[Destination].index, Destination)
  /\ entry' = Chained(Destination)
  /\ bb' = bb + 1 /\ at' = "enter"
  /\ UNCHANGED <<bbs, inst_to_fill, copied>>

ReturnUndefined ==
  /\ Jumping /\ Destination = None
  /\ Push("UNDEFINED", Zero, None)
  /\ at' = "return"
  /\ UNCHANGED <<bbs, entry, bb, inst_to_fill, copied>>

Return ==
  /\ at = "return"
  /\ Push("RET", Zero, None)
  /\ bb' = bb + 1 /\ at' = "enter"
  /\ UNCHANGED <<bbs, entry, inst_to_fill, copied>>

Next ==
  \/ Enter \/ Fill \/ FillDone \/ Copy \/ BnrElse
  \/ FallThrough \/ Jump \/ ReturnUndefined \/ Return

Spec == Init /\ [][Next]_vars

(***************************************************************************)
(* What must hold.                                                         *)
(***************************************************************************)

(* The types of the variables: the chain never leaves the list. *)
TypeOK ==
  /\ bbs \in [Block -> BasicBlock]
  /\ entry \in [Block -> [is_ptr : BOOLEAN, index : Int]]
  /\ count \in Nat /\ insts \in [0 .. count - 1 -> Inst]
  /\ bb \in 1 .. N + 1 /\ at \in {"enter", "fill", "copy", "jump", "return"}
  /\ inst_to_fill \in NoInst .. count - 1 /\ copied \in Nat

(* The jumps to d among the first n instructions, and the last of a set.    *)
JumpsTo(d, n) == {i \in 0 .. n - 1 : insts[i].to = d}
IsLast(S, x) == IF S = {} THEN x = NoInst ELSE x \in S /\ \A i \in S : i <= x
Lands(i, place) == IF insts[i].type = "J" THEN insts[i].imm = place
                                          ELSE i + 1 + insts[i].imm = place

(* Every jump to a block without a place is on the chain of that block and  *)
(* on no other, from the last one pushed to the first (ir_builder.c:81,     *)
(* 126); every jump to a block that has its place lands there               *)
(* (ir_builder.c:149-161).                                                  *)
ChainsComplete ==
  \A d \in Block :
    LET open == entry[d].is_ptr
        last == IF at = "fill" /\ d = bb THEN inst_to_fill ELSE entry[d].index
    IN  \A i \in JumpsTo(d, count) :
          IF open /\ i <= last THEN IsLast(JumpsTo(d, i), insts[i].imm)
          ELSE Lands(i, IF open THEN count ELSE entry[d].index)

(* Control at instruction i goes on with block d. *)
GoesTo(i, d) ==
  \/ i = entry[d].index
  \/ i < count /\ insts[i].type = "J" /\ insts[i].imm = entry[d].index

(* In the finished list, every block stands whole at its place, its branch, *)
(* taken and not taken, leads to the places of the blocks it was built with,*)
(* and a function that runs out of code returns (ir_builder.c:141-190,      *)
(* cvm.c:615-634).                                                          *)
LinkedAsBuilt ==
  bb = N + 1 =>
    \A b \in Block :
      LET start == entry[b].index
          end == start + bbs[b].size
      IN  /\ \A i \in start .. end - 1 :
               i < count /\ insts[i].type = "BODY" /\ insts[i].from = b /\ insts[i].imm = i - start
          /\ bbs[b].br => /\ end < count /\ insts[end].type = "BNR"
                          /\ end + 1 + insts[end].imm = entry[bbs[b].else_bb].index
                          /\ GoesTo(end + 1, bbs[b].then_bb)
          /\ ~bbs[b].br /\ bbs[b].else_bb # None => GoesTo(end, bbs[b].else_bb)
          /\ bbs[b].else_bb = None => /\ end + 1 < count /\ insts[end].type = "UNDEFINED"
                                      /\ insts[end + 1].type = "RET"

(* A chain is followed downwards (ir_builder.c:151-153), so it ends. *)
ChainDescends == [][at = "fill" /\ at' = "fill" => inst_to_fill' < inst_to_fill]_vars
===============================================================================
