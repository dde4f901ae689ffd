---------------------------- MODULE IRLinkerProofs ----------------------------
(***************************************************************************)
(* Proofs about IRLinker, for any number of blocks of any sizes.           *)
(***************************************************************************)
EXTENDS IRLinker, TLAPS

Placed(d) == d < bb \/ (d = bb /\ at \notin {"enter", "fill"})

(* Where the linker is, and which blocks have their places. *)
ControlOK ==
  /\ at # "enter" => bb \in Block
  /\ at = "copy" => copied <= bbs[bb].size
  /\ at = "jump" => bbs[bb].br
  /\ at = "return" => ~bbs[bb].br /\ bbs[bb].else_bb = None
  /\ \A d \in Block : entry[d].is_ptr <=> ~Placed(d)

(* The end of each chain, and the jump a chain is being filled at. *)
JumpsMarked == \A i \in 0 .. count - 1 : insts[i].to # None <=> insts[i].type \in {"J", "BNR"}
ChainEnds ==
  /\ \A d \in Block : entry[d].is_ptr /\ ~(at = "fill" /\ d = bb) =>
       IsLast(JumpsTo(d, count), entry[d].index)
  /\ at = "fill" => inst_to_fill = NoInst \/ inst_to_fill \in JumpsTo(bb, count)

(* The same as LinkedAsBuilt before the jumps are filled in: what each jump *)
(* is meant to lead to, and what has been copied of the current block.      *)
Body(b, n) ==
  \A k \in 0 .. n - 1 :
    LET i == entry[b].index + k
    IN  i \in 0 .. count - 1 /\ insts[i].type = "BODY" /\ insts[i].from = b /\ insts[i].imm = k
IsJump(i, type, d) == i \in 0 .. count - 1 /\ insts[i].type = type /\ insts[i].to = d
Follows(i, b, d) ==
  \/ IsJump(i, "J", d)
  \/ d = b + 1 /\ i = IF Placed(d) THEN entry[d].index ELSE count
End(b) == entry[b].index + bbs[b].size
Laid(b) ==
  /\ Body(b, bbs[b].size)
  /\ bbs[b].br => IsJump(End(b), "BNR", bbs[b].else_bb) /\ Follows(End(b) + 1, b, bbs[b].then_bb)
  /\ ~bbs[b].br /\ bbs[b].else_bb # None => Follows(End(b), b, bbs[b].else_bb)
  /\ bbs[b].else_bb = None => /\ End(b) \in 0 .. count - 1 /\ insts[End(b)].type = "UNDEFINED"
                              /\ End(b) + 1 \in 0 .. count - 1 /\ insts[End(b) + 1].type = "RET"
Layout ==
  /\ \A b \in Block : Placed(b) => entry[b].index \in 0 .. count
  /\ \A b \in Block : b < bb => Laid(b)
  /\ at = "copy" => Body(bb, copied) /\ entry[bb].index + copied = count
  /\ at = "jump" => /\ Body(bb, bbs[bb].size) /\ End(bb) + 1 = count
                    /\ IsJump(End(bb), "BNR", bbs[bb].else_bb)
  /\ at = "return" => /\ Body(bb, bbs[bb].size) /\ End(bb) + 1 = count
                      /\ insts[End(bb)].type = "UNDEFINED"

IInv == TypeOK /\ ControlOK /\ JumpsMarked /\ ChainEnds /\ ChainsComplete /\ Layout

(***************************************************************************)
(* Pushing an instruction leaves the ones before it alone.                 *)
(***************************************************************************)
LEMMA PushAppends ==
  ASSUME TypeOK, bb \in Block,
         NEW type \in {"BODY", "BNR", "J", "UNDEFINED", "RET"}, NEW imm \in Int,
         NEW to \in Block \cup {None}, Push(type, imm, to)
  PROVE  /\ count \in Nat /\ count' = count + 1
         /\ insts' \in [0 .. count' - 1 -> Inst]
         /\ \A i \in 0 .. count - 1 : insts'[i] = insts[i]
         /\ insts'[count] = [type |-> type, imm |-> imm, from |-> bb, to |-> to]
<1>1. count \in Nat /\ insts \in [0 .. count - 1 -> Inst]  BY DEF TypeOK
<1>2. [type |-> type, imm |-> imm, from |-> bb, to |-> to] \in Inst  BY DEF Inst
<1>3. count' = count + 1 /\ 0 .. count' - 1 = 0 .. count  BY <1>1 DEF Push
<1>4. \A i \in 0 .. count : i # count => i \in 0 .. count - 1  BY <1>1
<1> QED  BY <1>1, <1>2, <1>3, <1>4 DEF Push

LEMMA ZeroTyped == Zero \in Int
BY DEF Zero

LEMMA PushMarked ==
  ASSUME TypeOK, bb \in Block,
         NEW type \in {"BODY", "BNR", "J", "UNDEFINED", "RET"}, NEW imm \in Int,
         NEW to \in Block \cup {None}, Push(type, imm, to),
         JumpsMarked, to # None <=> type \in {"J", "BNR"}
  PROVE  JumpsMarked'
<1>1. /\ count \in Nat /\ count' = count + 1
      /\ \A i \in 0 .. count - 1 : insts'[i] = insts[i]
      /\ insts'[count] = [type |-> type, imm |-> imm, from |-> bb, to |-> to]
  BY PushAppends
<1>2. insts'[count].type = type /\ insts'[count].to = to  BY <1>1
<1>3. \A i \in 0 .. count' - 1 : i = count \/ i \in 0 .. count - 1  BY <1>1
<1>4. ASSUME NEW i \in 0 .. count' - 1
      PROVE  insts'[i].to # None <=> insts'[i].type \in {"J", "BNR"}
  <2>1. CASE i = count  BY <1>2, <2>1
  <2>2. CASE i \in 0 .. count - 1  BY <1>1, <2>2 DEF JumpsMarked
  <2> QED  BY <1>3, <2>1, <2>2
<1> QED  BY <1>4 DEF JumpsMarked

LEMMA InitInv == Init => IInv
<1> SUFFICES ASSUME Init PROVE IInv  OBVIOUS
<1> USE LinkerAssumption
<1>1. TypeOK  BY DEF Init, TypeOK, Chain, NoInst, Block, Inst
<1>2. ControlOK  BY DEF Init, ControlOK, Placed, Chain, Block
<1>3. \A d : JumpsTo(d, count) = {}  BY DEF Init, JumpsTo
<1>4. JumpsMarked /\ ChainEnds /\ ChainsComplete
  BY <1>3 DEF Init, JumpsMarked, ChainEnds, ChainsComplete, IsLast, Chain
<1>5. Layout  BY DEF Init, Layout, Block, Placed
<1> QED  BY <1>1, <1>2, <1>4, <1>5 DEF IInv

(***************************************************************************)
(* The types and the control of the loops.                                 *)
(***************************************************************************)
LEMMA BlockTyped ==
  ASSUME TypeOK, NEW b \in Block
  PROVE  /\ bbs[b].size \in Nat /\ bbs[b].br \in BOOLEAN
         /\ bbs[b].then_bb \in Block \cup {None} /\ bbs[b].else_bb \in Block \cup {None}
         /\ bbs[b].br => bbs[b].then_bb \in Block /\ bbs[b].else_bb \in Block
<1>1. bbs[b] \in BasicBlock  BY DEF TypeOK
<1> QED  BY <1>1, LinkerAssumption DEF BasicBlock

(* In the actions that push a jump, its operand and the chain it extends.  *)
LEMMA ChainedTyped ==
  ASSUME TypeOK, NEW d \in Block
  PROVE  /\ Chained(d) \in [Block -> [is_ptr : BOOLEAN, index : Int]]
         /\ entry[d].index \in Int /\ Offset(d) \in Int
         /\ \A c \in Block : Chained(d)[c].is_ptr = entry[c].is_ptr
         /\ \A c \in Block : c # d => Chained(d)[c] = entry[c]
         /\ Chained(d)[d].index = IF entry[d].is_ptr THEN count ELSE entry[d].index
<1> DEFINE EntryPoint == [is_ptr : BOOLEAN, index : Int]
<1>1. entry \in [Block -> EntryPoint] /\ count \in Int /\ entry[d].index \in Int  BY DEF TypeOK
<1>2. Chain(count) \in EntryPoint  BY <1>1 DEF Chain
<1>3. Chain(count).is_ptr = TRUE /\ Chain(count).index = count  BY DEF Chain
<1>4. CASE entry[d].is_ptr
  <2> HIDE DEF EntryPoint
  <2>1. Chained(d) = [entry EXCEPT ![d] = Chain(count)]  BY <1>4 DEF Chained
  <2>2. Chained(d) \in [Block -> EntryPoint]  BY <1>1, <1>2, <2>1
  <2>3. Chained(d)[d] = Chain(count) /\ \A c \in Block : c # d => Chained(d)[c] = entry[c]
    BY <1>1, <2>1
  <2> QED  BY <1>1, <1>3, <1>4, <2>2, <2>3 DEF Offset, EntryPoint
<1>5. CASE ~entry[d].is_ptr  BY <1>1, <1>5 DEF Chained, Offset
<1> QED  BY <1>4, <1>5

LEMMA StepType == IInv /\ Next => TypeOK'
<1> SUFFICES ASSUME IInv, Next PROVE TypeOK'  OBVIOUS
<1>0. bbs' = bbs /\ TypeOK /\ ControlOK /\ ChainEnds /\ ChainsComplete /\ N \in Nat
  BY LinkerAssumption DEF IInv, Next, Enter, Fill, FillDone, Copy, BnrElse, FallThrough, Jump,
     ReturnUndefined, Return
<1>1. CASE Enter
  <2>1. bb \in Block /\ entry[bb].is_ptr  BY <1>0, <1>1 DEF Enter, ControlOK, Placed, Block
  <2>2. IsLast(JumpsTo(bb, count), entry[bb].index)
    BY <1>0, <1>1, <2>1 DEF Enter, ChainEnds, ControlOK
  <2>3. entry[bb].index \in NoInst .. count - 1
    BY <2>2, <1>0 DEF IsLast, JumpsTo, NoInst, TypeOK
  <2> QED  BY <1>0, <1>1, <2>1, <2>3 DEF Enter, TypeOK
<1>2. CASE Fill
  <2>1. bb \in Block /\ inst_to_fill \in JumpsTo(bb, count)
    BY <1>0, <1>2 DEF Fill, ControlOK, ChainEnds, NoInst
  <2>2. inst_to_fill \in 0 .. count - 1 /\ insts[inst_to_fill] \in Inst
    BY <1>0, <2>1 DEF JumpsTo, TypeOK
  <2>3. Filled(insts[inst_to_fill], inst_to_fill) \in Inst  BY <1>0, <2>2 DEF Filled, TypeOK, Inst
  <2>4. insts' \in [0 .. count - 1 -> Inst]  BY <1>0, <1>2, <2>2, <2>3 DEF Fill, TypeOK
  <2>5. IsLast(JumpsTo(bb, inst_to_fill), insts[inst_to_fill].imm)
    <3>1. at = "fill" /\ entry[bb].is_ptr
      BY <1>0, <1>2, <2>1 DEF Fill, ControlOK, Placed, Block
    <3>2. inst_to_fill <= inst_to_fill  BY <2>2
    <3> QED  BY <1>0, <2>1, <3>1, <3>2 DEF ChainsComplete
  <2>6. insts[inst_to_fill].imm \in NoInst .. count - 1
    BY <1>0, <2>2, <2>5 DEF IsLast, JumpsTo, NoInst, TypeOK
  <2> QED  BY <1>0, <1>2, <2>4, <2>6 DEF Fill, TypeOK
<1>3. CASE FillDone
  <2>1. Place(count) \in [is_ptr : BOOLEAN, index : Int]  BY <1>0 DEF TypeOK, Place
  <2> QED  BY <1>0, <1>3, <2>1 DEF FillDone, TypeOK
<1>4. CASE Copy
  <2>1. bb \in Block /\ copied \in Int  BY <1>0, <1>4 DEF Copy, ControlOK, TypeOK
  <2>2. /\ count \in Nat /\ count' = count + 1
        /\ insts' \in [0 .. count' - 1 -> Inst]
    BY <1>0, <1>4, <2>1, PushAppends DEF Copy
  <2> QED  BY <1>0, <1>4, <2>2 DEF Copy, TypeOK
<1>5. CASE BnrElse
  <2> DEFINE d == bbs[bb].else_bb
  <2>1. bb \in Block /\ d \in Block  BY <1>0, <1>5, BlockTyped DEF BnrElse, ControlOK
  <2>2. /\ entry' \in [Block -> [is_ptr : BOOLEAN, index : Int]]
        /\ (IF entry[d].is_ptr THEN entry[d].index ELSE Offset(d)) \in Int
    BY <1>0, <1>5, <2>1, ChainedTyped DEF BnrElse
  <2>3. /\ count \in Nat /\ count' = count + 1
        /\ insts' \in [0 .. count' - 1 -> Inst]
    BY <1>0, <1>5, <2>1, <2>2, PushAppends DEF BnrElse
  <2> QED  BY <1>0, <1>5, <2>2, <2>3 DEF BnrElse, TypeOK
<1>6. CASE FallThrough
  <2>1. bb \in Block  BY <1>0, <1>6 DEF FallThrough, Jumping, ControlOK
  <2> QED  BY <1>0, <1>6, <2>1 DEF FallThrough, TypeOK, Block
<1>7. CASE Jump
  <2>1. bb \in Block  BY <1>0, <1>7 DEF Jump, Jumping, ControlOK
  <2>2. Destination \in Block  BY <1>0, <1>7, <2>1, BlockTyped DEF Jump, Destination
  <2>3. entry' \in [Block -> [is_ptr : BOOLEAN, index : Int]] /\ entry[Destination].index \in Int
    BY <1>0, <1>7, <2>2, ChainedTyped DEF Jump
  <2>4. /\ count \in Nat /\ count' = count + 1
        /\ insts' \in [0 .. count' - 1 -> Inst]
    BY <1>0, <1>7, <2>1, <2>2, <2>3, PushAppends DEF Jump
  <2> QED  BY <1>0, <1>7, <2>1, <2>3, <2>4 DEF Jump, TypeOK, Block
<1>8. CASE ReturnUndefined
  <2>1. bb \in Block  BY <1>0, <1>8 DEF ReturnUndefined, Jumping, ControlOK
  <2>2. /\ count \in Nat /\ count' = count + 1
        /\ insts' \in [0 .. count' - 1 -> Inst]
    BY <1>0, <1>8, <2>1, PushAppends, ZeroTyped DEF ReturnUndefined
  <2> QED  BY <1>0, <1>8, <2>2 DEF ReturnUndefined, TypeOK
<1>9. CASE Return
  <2>1. bb \in Block  BY <1>0, <1>9 DEF Return, ControlOK
  <2>2. /\ count \in Nat /\ count' = count + 1
        /\ insts' \in [0 .. count' - 1 -> Inst]
    BY <1>0, <1>9, <2>1, PushAppends, ZeroTyped DEF Return
  <2> QED  BY <1>0, <1>9, <2>1, <2>2 DEF Return, TypeOK, Block
<1> QED  BY <1>1, <1>2, <1>3, <1>4, <1>5, <1>6, <1>7, <1>8, <1>9 DEF Next

LEMMA StepControl == IInv /\ Next => ControlOK' /\ JumpsMarked'
<1> SUFFICES ASSUME IInv, Next PROVE ControlOK' /\ JumpsMarked'  OBVIOUS
<1>0. /\ bbs' = bbs /\ TypeOK /\ ControlOK /\ ChainEnds /\ JumpsMarked
      /\ bb \in 1 .. N + 1 /\ N \in Nat /\ count \in Nat
  BY LinkerAssumption DEF IInv, TypeOK, Next, Enter, Fill, FillDone, Copy, BnrElse, FallThrough,
     Jump, ReturnUndefined, Return
<1> USE DEF Block
<1>1. CASE Enter
  BY <1>0, <1>1 DEF Enter, ControlOK, JumpsMarked, Placed
<1>2. CASE Fill
  <2>1. bb \in Block /\ inst_to_fill \in 0 .. count - 1
    BY <1>0, <1>2 DEF Fill, ControlOK, ChainEnds, NoInst, JumpsTo
  <2>2. \A i \in 0 .. count - 1 : insts'[i].type = insts[i].type /\ insts'[i].to = insts[i].to
    BY <1>0, <1>2, <2>1 DEF Fill, Filled, TypeOK
  <2> QED  BY <1>0, <1>2, <2>2 DEF Fill, ControlOK, JumpsMarked, Placed
<1>3. CASE FillDone
  <2>1. bb \in Block  BY <1>0, <1>3 DEF FillDone, ControlOK
  <2>2. entry'[bb].is_ptr = FALSE /\ \A d \in Block : d # bb => entry'[d] = entry[d]
    BY <1>0, <1>3, <2>1 DEF FillDone, Place, TypeOK
  <2>3. 0 <= bbs[bb].size  BY <1>0, <2>1, BlockTyped
  <2> QED  BY <1>0, <1>3, <2>1, <2>2, <2>3 DEF FillDone, ControlOK, JumpsMarked, Placed
<1>4. CASE Copy
  <2>1. bb \in Block /\ copied \in Int /\ bbs[bb].size \in Int
    BY <1>0, <1>4, BlockTyped DEF Copy, ControlOK, TypeOK
  <2>2. JumpsMarked'
    BY <1>0, <1>4, <2>1, PushMarked DEF Copy, None
  <2> QED  BY <1>0, <1>4, <2>1, <2>2 DEF Copy, ControlOK, Placed
<1>5. CASE BnrElse
  <2> DEFINE d == bbs[bb].else_bb
  <2>1. bb \in Block /\ d \in Block  BY <1>0, <1>5, BlockTyped DEF BnrElse, ControlOK
  <2>2. (IF entry[d].is_ptr THEN entry[d].index ELSE Offset(d)) \in Int
    BY <1>0, <2>1, ChainedTyped
  <2>3. JumpsMarked'
    BY <1>0, <1>5, <2>1, <2>2, PushMarked DEF BnrElse, None
  <2>4. \A c \in Block : entry'[c].is_ptr = entry[c].is_ptr
    BY <1>0, <1>5, <2>1, ChainedTyped DEF BnrElse
  <2> QED  BY <1>0, <1>5, <2>1, <2>3, <2>4 DEF BnrElse, ControlOK, Placed
<1>6. CASE FallThrough
  <2>1. bb \in Block  BY <1>0, <1>6 DEF FallThrough, Jumping, ControlOK
  <2> QED  BY <1>0, <1>6, <2>1 DEF FallThrough, Jumping, ControlOK, JumpsMarked, Placed
<1>7. CASE Jump
  <2>1. bb \in Block  BY <1>0, <1>7 DEF Jump, Jumping, ControlOK
  <2>2. Destination \in Block  BY <1>0, <1>7, <2>1, BlockTyped DEF Jump, Destination
  <2>3. JumpsMarked'
    <3>1. entry[Destination].index \in Int  BY <1>0, <2>2, ChainedTyped
    <3> QED  BY <1>0, <1>7, <2>1, <2>2, <3>1, PushMarked DEF Jump, None
  <2>4. \A c \in Block : entry'[c].is_ptr = entry[c].is_ptr
    BY <1>0, <1>7, <2>2, ChainedTyped DEF Jump
  <2> QED  BY <1>0, <1>7, <2>1, <2>3, <2>4 DEF Jump, Jumping, ControlOK, Placed
<1>8. CASE ReturnUndefined
  <2>1. bb \in Block  BY <1>0, <1>8 DEF ReturnUndefined, Jumping, ControlOK
  <2>2. ~bbs[bb].br /\ bbs[bb].else_bb = None
    <3>1. bbs[bb].br => bbs[bb].then_bb # None  BY <1>0, <2>1, BlockTyped DEF None
    <3> QED  BY <1>0, <1>8, <3>1 DEF ReturnUndefined, Destination
  <2>3. JumpsMarked'
    BY <1>0, <1>8, <2>1, PushMarked, ZeroTyped DEF ReturnUndefined, None
  <2> QED  BY <1>0, <1>8, <2>1, <2>2, <2>3 DEF ReturnUndefined, Jumping, ControlOK, Placed
<1>9. CASE Return
  <2>1. bb \in Block  BY <1>0, <1>9 DEF Return, ControlOK
  <2>2. JumpsMarked'
    BY <1>0, <1>9, <2>1, PushMarked, ZeroTyped DEF Return, None
  <2> QED  BY <1>0, <1>9, <2>1, <2>2 DEF Return, ControlOK, Placed
<1> QED  BY <1>1, <1>2, <1>3, <1>4, <1>5, <1>6, <1>7, <1>8, <1>9 DEF Next

(***************************************************************************)
(* The chains of jumps.                                                    *)
(***************************************************************************)
LEMMA JumpsPushed ==
  ASSUME TypeOK, bb \in Block,
         NEW type \in {"BODY", "BNR", "J", "UNDEFINED", "RET"}, NEW imm \in Int,
         NEW to \in Block \cup {None}, Push(type, imm, to), NEW d \in Block
  PROVE  /\ count \in Nat /\ count' = count + 1
         /\ \A i \in 0 .. count - 1 : insts'[i] = insts[i]
         /\ insts'[count].type = type /\ insts'[count].imm = imm
         /\ \A n \in 0 .. count : JumpsTo(d, n)' = JumpsTo(d, n)
         /\ JumpsTo(d, count)' = JumpsTo(d, count) \cup IF to = d THEN {count} ELSE {}
         /\ to # d => JumpsTo(d, count)' = JumpsTo(d, count)
<1>1. /\ count \in Nat /\ count' = count + 1
      /\ \A i \in 0 .. count - 1 : insts'[i] = insts[i]
      /\ insts'[count] = [type |-> type, imm |-> imm, from |-> bb, to |-> to]
  BY PushAppends
<1>2. insts'[count].type = type /\ insts'[count].imm = imm /\ insts'[count].to = to  BY <1>1
<1>3. ASSUME NEW n \in 0 .. count PROVE JumpsTo(d, n)' = JumpsTo(d, n)
  <2>1. \A i \in 0 .. n - 1 : insts'[i] = insts[i]  BY <1>1
  <2> QED  BY <2>1 DEF JumpsTo
<1>4. JumpsTo(d, count)' = JumpsTo(d, count) \cup IF to = d THEN {count} ELSE {}
  <2>1. JumpsTo(d, count)' = {i \in 0 .. count : insts'[i].to = d}  BY <1>1 DEF JumpsTo
  <2>2. \A i \in 0 .. count : i = count \/ i \in 0 .. count - 1  BY <1>1
  <2>3. count \in 0 .. count /\ \A i \in 0 .. count - 1 : i \in 0 .. count  BY <1>1
  <2>4. \A i : i \in JumpsTo(d, count)' <=> i \in JumpsTo(d, count) \/ (i = count /\ to = d)
    BY <1>1, <1>2, <2>1, <2>2, <2>3 DEF JumpsTo
  <2> QED  BY <2>4
<1> QED  BY <1>1, <1>2, <1>3, <1>4

(* An instruction that is no jump changes no chain. *)
LEMMA PlainPush ==
  ASSUME TypeOK, bb \in Block, ChainEnds, ChainsComplete, at # "fill", at' # "fill",
         NEW type \in {"BODY", "UNDEFINED", "RET"}, NEW imm \in Int,
         Push(type, imm, None), entry' = entry
  PROVE  ChainEnds' /\ ChainsComplete'
<1>1. type \in {"BODY", "BNR", "J", "UNDEFINED", "RET"}  OBVIOUS
<1>2. ASSUME NEW d \in Block
      PROVE  /\ count \in Nat
             /\ \A i \in 0 .. count - 1 : insts'[i] = insts[i]
             /\ \A n \in 0 .. count : JumpsTo(d, n)' = JumpsTo(d, n)
             /\ JumpsTo(d, count)' = JumpsTo(d, count)
  <2>1. None # d  BY LinkerAssumption DEF None, Block
  <2> QED  BY <1>1, <2>1, JumpsPushed
<1>3. ChainEnds'  BY <1>2 DEF ChainEnds, IsLast
<1>4. ASSUME NEW d \in Block, NEW i \in JumpsTo(d, count)'
      PROVE  IF entry[d].is_ptr THEN i <= entry[d].index /\ IsLast(JumpsTo(d, i)', insts'[i].imm)
             ELSE Lands(i, entry[d].index)'
  <2>1. i \in JumpsTo(d, count) /\ i \in 0 .. count - 1 /\ insts'[i] = insts[i]
    BY <1>2 DEF JumpsTo
  <2>2. JumpsTo(d, i)' = JumpsTo(d, i)  BY <1>2, <2>1
  <2>3. CASE entry[d].is_ptr
    <3>1. i <= entry[d].index  BY <2>1, <2>3 DEF ChainEnds, IsLast
    <3> QED  BY <2>1, <2>2, <2>3, <3>1 DEF ChainsComplete
  <2>4. CASE ~entry[d].is_ptr  BY <2>1, <2>4 DEF ChainsComplete, Lands
  <2> QED  BY <2>3, <2>4
<1>5. ChainsComplete'  BY <1>4 DEF ChainsComplete
<1> QED  BY <1>3, <1>5

(* A jump goes to the end of the chain of its destination, or lands there.  *)
LEMMA JumpPush ==
  ASSUME TypeOK, bb \in Block, ChainEnds, ChainsComplete, at # "fill", at' # "fill",
         NEW type \in {"BNR", "J"}, NEW imm \in Int, NEW to \in Block,
         Push(type, imm, to), entry' = Chained(to),
         imm = IF entry[to].is_ptr \/ type = "J" THEN entry[to].index ELSE Offset(to)
  PROVE  ChainEnds' /\ ChainsComplete'
<1>1. type \in {"BODY", "BNR", "J", "UNDEFINED", "RET"} /\ to \in Block \cup {None}  OBVIOUS
<1>2. ASSUME NEW d \in Block
      PROVE  /\ count \in Nat /\ count' = count + 1
             /\ \A i \in 0 .. count - 1 : insts'[i] = insts[i]
             /\ insts'[count].type = type /\ insts'[count].imm = imm
             /\ \A n \in 0 .. count : JumpsTo(d, n)' = JumpsTo(d, n)
             /\ JumpsTo(d, count)' = JumpsTo(d, count) \cup IF to = d THEN {count} ELSE {}
  BY <1>1, JumpsPushed
<1>3. /\ \A c \in Block : entry'[c].is_ptr = entry[c].is_ptr
      /\ \A c \in Block : c # to => entry'[c] = entry[c]
      /\ entry'[to].index = IF entry[to].is_ptr THEN count ELSE entry[to].index
      /\ entry[to].index \in Int
  BY ChainedTyped
<1>4. ASSUME NEW d \in Block, entry'[d].is_ptr
      PROVE  IsLast(JumpsTo(d, count)', entry'[d].index)
  <2>1. CASE d = to
    <3>1. \A i \in JumpsTo(d, count) : i <= count  BY <1>2 DEF JumpsTo
    <3>2. JumpsTo(d, count)' = JumpsTo(d, count) \cup {count}  BY <1>2, <2>1
    <3> QED  BY <1>2, <1>3, <1>4, <2>1, <3>1, <3>2 DEF IsLast
  <2>2. CASE d # to
    <3>1. JumpsTo(d, count)' = JumpsTo(d, count)  BY <1>2, <2>2
    <3> QED  BY <1>3, <1>4, <2>2, <3>1 DEF ChainEnds
  <2> QED  BY <2>1, <2>2
<1>5. ChainEnds'  BY <1>4 DEF ChainEnds, IsLast
<1>6. ASSUME NEW d \in Block, NEW i \in JumpsTo(d, count)'
      PROVE  IF entry'[d].is_ptr
             THEN i <= entry'[d].index /\ IsLast(JumpsTo(d, i)', insts'[i].imm)
             ELSE Lands(i, entry[d].index)'
  <2>1. CASE i \in JumpsTo(d, count)
    <3>1. i \in 0 .. count - 1 /\ insts'[i] = insts[i] /\ JumpsTo(d, i)' = JumpsTo(d, i)
      BY <1>2, <2>1 DEF JumpsTo
    <3>2. CASE entry[d].is_ptr
      <4>1. i <= entry[d].index  BY <2>1, <3>2 DEF ChainEnds, IsLast
      <4>2. IsLast(JumpsTo(d, i), insts[i].imm)  BY <2>1, <3>2, <4>1 DEF ChainsComplete
      <4>3. i <= entry'[d].index  BY <1>2, <1>3, <3>1, <3>2, <4>1
      <4> QED  BY <1>3, <3>1, <3>2, <4>2, <4>3
    <3>3. CASE ~entry[d].is_ptr
      <4>1. Lands(i, entry[d].index)  BY <2>1, <3>3 DEF ChainsComplete
      <4>2. entry'[d].index = entry[d].index  BY <1>3, <3>3
      <4> QED  BY <1>3, <3>1, <3>3, <4>1, <4>2 DEF Lands
    <3> QED  BY <3>2, <3>3
  <2>2. CASE i \notin JumpsTo(d, count)
    <3>1. i = count /\ d = to  BY <1>2, <2>2
    <3>2. CASE entry[d].is_ptr
      <4>1. IsLast(JumpsTo(d, count), imm)  BY <3>1, <3>2 DEF ChainEnds
      <4>2. JumpsTo(d, i)' = JumpsTo(d, count)  BY <1>2, <3>1
      <4> QED  BY <1>2, <1>3, <3>1, <3>2, <4>1, <4>2
    <3>3. CASE ~entry[d].is_ptr
      <4>1. entry'[d].index = entry[d].index /\ ~entry'[d].is_ptr  BY <1>3, <3>3
      <4>2. CASE type = "J"  BY <1>2, <3>1, <3>3, <4>1, <4>2 DEF Lands
      <4>3. CASE type = "BNR"
        <5>1. imm = entry[d].index - count - 1  BY <3>1, <3>3, <4>3 DEF Offset
        <5> QED  BY <1>2, <1>3, <3>1, <4>1, <4>3, <5>1 DEF Lands
      <4> QED  BY <4>2, <4>3
    <3> QED  BY <3>2, <3>3
  <2> QED  BY <2>1, <2>2
<1>7. ChainsComplete'  BY <1>6 DEF ChainsComplete
<1> QED  BY <1>5, <1>7

LEMMA StepChains == IInv /\ Next => ChainEnds' /\ ChainsComplete'
<1> SUFFICES ASSUME IInv, Next PROVE ChainEnds' /\ ChainsComplete'  OBVIOUS
<1>0. /\ bbs' = bbs /\ TypeOK /\ ControlOK /\ ChainEnds /\ ChainsComplete
      /\ bb \in 1 .. N + 1 /\ N \in Nat /\ count \in Nat
  BY LinkerAssumption DEF IInv, TypeOK, Next, Enter, Fill, FillDone, Copy, BnrElse, FallThrough,
     Jump, ReturnUndefined, Return
<1>1. CASE Enter
  <2>1. bb \in Block /\ entry[bb].is_ptr  BY <1>0, <1>1 DEF Enter, ControlOK, Placed, Block
  <2>2. UNCHANGED <<entry, insts, count, bb>> /\ at = "enter" /\ at' = "fill"  BY <1>1 DEF Enter
  <2>3. inst_to_fill' = entry[bb].index  BY <1>1, <2>1 DEF Enter
  <2>4. \A d : (JumpsTo(d, count))' = JumpsTo(d, count)  BY <2>2 DEF JumpsTo
  <2>5. \A d \in Block : entry[d].is_ptr => IsLast(JumpsTo(d, count), entry[d].index)
    BY <1>0, <2>2 DEF ChainEnds
  <2>6. ChainEnds'
    <3>1. inst_to_fill' = NoInst \/ inst_to_fill' \in JumpsTo(bb, count)
      BY <2>1, <2>3, <2>5 DEF IsLast
    <3> QED  BY <2>2, <2>4, <2>5, <3>1 DEF ChainEnds
  <2>7. ChainsComplete'  BY <1>0, <2>1, <2>2, <2>3 DEF ChainsComplete, JumpsTo, Lands
  <2> QED  BY <2>6, <2>7
<1>2. CASE Fill
  <2> DEFINE f == inst_to_fill
  <2>1. /\ bb \in Block /\ f \in JumpsTo(bb, count) /\ f \in 0 .. count - 1
        /\ at = "fill" /\ at' = "fill"
    BY <1>0, <1>2 DEF Fill, ControlOK, ChainEnds, NoInst, JumpsTo
  <2>2. UNCHANGED <<entry, count, bb>> /\ f' = insts[f].imm  BY <1>2 DEF Fill
  <2>3. entry[bb].is_ptr  BY <1>0, <2>1 DEF ControlOK, Placed, Block
  <2>4. /\ insts'[f] = Filled(insts[f], f) /\ insts'[f].to = insts[f].to
        /\ \A i \in 0 .. count - 1 : i # f => insts'[i] = insts[i]
    BY <1>0, <1>2, <2>1 DEF Fill, Filled, TypeOK
  <2>5. ASSUME NEW d \in Block, NEW n \in 0 .. count PROVE JumpsTo(d, n)' = JumpsTo(d, n)
    <3>1. \A i \in 0 .. n - 1 : insts'[i].to = insts[i].to  BY <1>0, <2>4
    <3> QED  BY <3>1 DEF JumpsTo
  <2>6. count \in 0 .. count  BY <1>0
  <2>7. JumpsTo(bb, count)' = JumpsTo(bb, count)  BY <2>1, <2>2, <2>5, <2>6
  <2>8. IsLast(JumpsTo(bb, f), f')
    <3>1. f <= f  BY <2>1
    <3> QED  BY <1>0, <2>1, <2>2, <2>3, <3>1 DEF ChainsComplete
  <2>9. ChainEnds'
    <3>1. f' = NoInst \/ f' \in JumpsTo(bb, count)'
      BY <1>0, <2>1, <2>7, <2>8 DEF IsLast, JumpsTo
    <3>2. ASSUME NEW d \in Block, entry[d].is_ptr, d # bb
          PROVE  IsLast(JumpsTo(d, count)', entry[d].index)
      <4>1. IsLast(JumpsTo(d, count), entry[d].index)  BY <1>0, <3>2 DEF ChainEnds
      <4>2. JumpsTo(d, count)' = JumpsTo(d, count)  BY <2>2, <2>5, <2>6
      <4> QED  BY <4>1, <4>2
    <3> QED  BY <2>1, <2>2, <3>1, <3>2 DEF ChainEnds
  <2>10. ASSUME NEW d \in Block, NEW i \in JumpsTo(d, count)', d # bb
         PROVE  IF entry[d].is_ptr /\ i <= entry[d].index THEN IsLast(JumpsTo(d, i), insts[i].imm)'
                ELSE Lands(i, IF entry[d].is_ptr THEN count ELSE entry[d].index)'
    <3>1. i \in JumpsTo(d, count) /\ i \in 0 .. count - 1
      BY <2>2, <2>5, <2>6 DEF JumpsTo
    <3>2. i # f  BY <2>1, <2>10, <3>1 DEF JumpsTo
    <3>3. insts'[i] = insts[i] /\ JumpsTo(d, i)' = JumpsTo(d, i)
      BY <1>0, <2>4, <2>5, <3>1, <3>2
    <3> QED  BY <1>0, <2>2, <2>10, <3>1, <3>3 DEF ChainsComplete, Lands
  <2>11. ASSUME NEW i \in JumpsTo(bb, count)'
         PROVE  IF i <= f' THEN IsLast(JumpsTo(bb, i), insts[i].imm)' ELSE Lands(i, count)'
    <3>1. i \in JumpsTo(bb, count) /\ i \in 0 .. count - 1  BY <2>7 DEF JumpsTo
    <3>2. f' \in Int /\ f' < f  BY <2>1, <2>8 DEF IsLast, JumpsTo, NoInst
    <3>3. CASE i <= f'
      <4>1. i < f /\ i <= f /\ i # f  BY <2>1, <3>1, <3>2, <3>3
      <4>2. insts'[i] = insts[i]  BY <2>4, <3>1, <4>1
      <4>4. JumpsTo(bb, i)' = JumpsTo(bb, i)
        <5>1. i \in 0 .. count  BY <1>0, <3>1
        <5> QED  BY <2>1, <2>2, <2>5, <5>1
      <4>3. IsLast(JumpsTo(bb, i), insts[i].imm)
        BY <1>0, <2>1, <2>3, <3>1, <4>1 DEF ChainsComplete
      <4> QED  BY <2>2, <3>3, <4>2, <4>3, <4>4
    <3>4. CASE i = f
      <4>1. Lands(i, count)'
        BY <1>0, <2>1, <2>2, <2>4, <3>4 DEF Lands, Filled
      <4> QED  BY <3>1, <3>2, <3>4, <4>1
    <3>5. CASE f < i
      <4>1. ~(i <= f) /\ ~(i <= f') /\ i # f  BY <2>1, <3>1, <3>2, <3>5
      <4>2. Lands(i, count)  BY <1>0, <2>1, <2>3, <3>1, <4>1 DEF ChainsComplete
      <4> QED  BY <2>2, <2>4, <3>1, <4>1, <4>2 DEF Lands
    <3>6. i < f => i <= f'
      BY <2>1, <2>8, <3>1 DEF IsLast, JumpsTo
    <3> QED  BY <2>1, <3>1, <3>3, <3>4, <3>5, <3>6
  <2>12. ChainsComplete'
    BY <2>1, <2>2, <2>3, <2>10, <2>11 DEF ChainsComplete
  <2> QED  BY <2>9, <2>12
<1>3. CASE FillDone
  <2>1. bb \in Block /\ entry[bb].is_ptr  BY <1>0, <1>3 DEF FillDone, ControlOK, Placed, Block
  <2>2. UNCHANGED <<insts, count, bb>> /\ at = "fill" /\ at' = "copy"  BY <1>3 DEF FillDone
  <2>3. entry'[bb].is_ptr = FALSE /\ entry'[bb].index = count
    BY <1>0, <1>3, <2>1 DEF FillDone, Place, TypeOK
  <2>4. \A d \in Block : d # bb => entry'[d] = entry[d]  BY <1>0, <1>3 DEF FillDone, TypeOK
  <2>5. \A d, n : (JumpsTo(d, n))' = JumpsTo(d, n)  BY <2>2 DEF JumpsTo
  <2>6. ChainEnds'
    BY <1>0, <2>2, <2>3, <2>4 DEF ChainEnds, JumpsTo
  <2>7. ASSUME NEW i \in JumpsTo(bb, count) PROVE Lands(i, count)
    <3>1. ~(i <= inst_to_fill)  BY <1>0, <1>3 DEF FillDone, JumpsTo, TypeOK, NoInst
    <3> QED  BY <1>0, <2>1, <2>2, <3>1 DEF ChainsComplete
  <2>8. ASSUME NEW d \in Block, NEW i \in JumpsTo(d, count), d # bb
        PROVE  IF entry[d].is_ptr /\ i <= entry[d].index THEN IsLast(JumpsTo(d, i), insts[i].imm)
               ELSE Lands(i, IF entry[d].is_ptr THEN count ELSE entry[d].index)
    BY <1>0, <2>8 DEF ChainsComplete
  <2>9. ChainsComplete'
    BY <2>1, <2>2, <2>3, <2>4, <2>5, <2>7, <2>8 DEF ChainsComplete, Lands
  <2> QED  BY <2>6, <2>9
<1>4. CASE Copy
  <2>1. bb \in Block /\ copied \in Int  BY <1>0, <1>4 DEF Copy, ControlOK, TypeOK
  <2> QED  BY <1>0, <1>4, <2>1, PlainPush DEF Copy
<1>5. CASE BnrElse
  <2> DEFINE d == bbs[bb].else_bb
             imm == IF entry[d].is_ptr THEN entry[d].index ELSE Offset(d)
  <2>1. bb \in Block /\ d \in Block  BY <1>0, <1>5, BlockTyped DEF BnrElse, ControlOK
  <2>2. imm \in Int  BY <1>0, <2>1, ChainedTyped
  <2>3. Push("BNR", imm, d) /\ entry' = Chained(d) /\ at # "fill" /\ at' # "fill"
    BY <1>5 DEF BnrElse
  <2>4. imm = IF entry[d].is_ptr \/ "BNR" = "J" THEN entry[d].index ELSE Offset(d)  OBVIOUS
  <2> HIDE DEF d, imm
  <2> QED  BY <1>0, <2>1, <2>2, <2>3, <2>4, JumpPush
<1>6. CASE FallThrough
  <2>1. UNCHANGED <<entry, insts, count>> /\ at # "fill" /\ at' # "fill"
    BY <1>6 DEF FallThrough, Jumping
  <2>2. \A d, n : (JumpsTo(d, n))' = JumpsTo(d, n)  BY <2>1 DEF JumpsTo
  <2>3. ChainEnds'  BY <1>0, <2>1, <2>2 DEF ChainEnds
  <2>4. ChainsComplete'  BY <1>0, <2>1, <2>2 DEF ChainsComplete, Lands
  <2> QED  BY <2>3, <2>4
<1>7. CASE Jump
  <2>1. bb \in Block  BY <1>0, <1>7 DEF Jump, Jumping, ControlOK
  <2>2. Destination \in Block  BY <1>0, <1>7, <2>1, BlockTyped DEF Jump, Destination
  <2>3. entry[Destination].index \in Int  BY <1>0, <2>2, ChainedTyped
  <2>4. /\ Push("J", entry[Destination].index, Destination) /\ entry' = Chained(Destination)
        /\ at # "fill" /\ at' # "fill"
    BY <1>7 DEF Jump, Jumping
  <2> QED  BY <1>0, <2>1, <2>2, <2>3, <2>4, JumpPush
<1>8. CASE ReturnUndefined
  <2>1. bb \in Block  BY <1>0, <1>8 DEF ReturnUndefined, Jumping, ControlOK
  <2> QED  BY <1>0, <1>8, <2>1, PlainPush, ZeroTyped DEF ReturnUndefined, Jumping
<1>9. CASE Return
  <2>1. bb \in Block  BY <1>0, <1>9 DEF Return, ControlOK
  <2> QED  BY <1>0, <1>9, <2>1, PlainPush, ZeroTyped DEF Return
<1> QED  BY <1>1, <1>2, <1>3, <1>4, <1>5, <1>6, <1>7, <1>8, <1>9 DEF Next

(***************************************************************************)
(* The layout of the finished blocks.  A step extends the list, and of the *)
(* instructions in it changes the operands of jumps only.                  *)
(***************************************************************************)
Kept ==
  /\ count \in Nat /\ (count' = count \/ count' = count + 1) /\ bbs' = bbs
  /\ \A i \in 0 .. count - 1 :
       /\ insts'[i].type = insts[i].type /\ insts'[i].from = insts[i].from
       /\ insts'[i].to = insts[i].to
       /\ insts[i].type = "BODY" => insts'[i].imm = insts[i].imm

(* A block gets its place at the end of the list, and keeps it; nothing is  *)
(* pushed between the end of one block and the beginning of the next.       *)
Settled ==
  \A d \in Block :
    /\ Placed(d) => Placed(d)' /\ entry'[d].index = entry[d].index
    /\ ~Placed(d) /\ Placed(d)' => entry'[d].index = count
    /\ ~Placed(d)' /\ d <= bb => count' = count

LEMMA PushKept ==
  ASSUME TypeOK, bb \in Block, bbs' = bbs,
         NEW type \in {"BODY", "BNR", "J", "UNDEFINED", "RET"}, NEW imm \in Int,
         NEW to \in Block \cup {None}, Push(type, imm, to)
  PROVE  Kept
<1>1. /\ count \in Nat /\ count' = count + 1
      /\ \A i \in 0 .. count - 1 : insts'[i] = insts[i]
  BY PushAppends
<1> QED  BY <1>1 DEF Kept

LEMMA StepKept == IInv /\ Next => Kept
<1> SUFFICES ASSUME IInv, Next PROVE Kept  OBVIOUS
<1>0. bbs' = bbs /\ TypeOK /\ ControlOK /\ JumpsMarked /\ ChainEnds /\ count \in Nat
  BY DEF IInv, TypeOK, Next, Enter, Fill, FillDone, Copy, BnrElse, FallThrough, Jump,
     ReturnUndefined, Return
<1>1. CASE Enter \/ FillDone \/ FallThrough
  BY <1>0, <1>1 DEF Enter, FillDone, FallThrough, Kept
<1>2. CASE Fill
  <2>1. bb \in Block /\ inst_to_fill \in JumpsTo(bb, count)
    BY <1>0, <1>2 DEF Fill, ControlOK, ChainEnds, NoInst
  <2>2. inst_to_fill \in 0 .. count - 1 /\ insts[inst_to_fill].type \in {"J", "BNR"}
    <3>1. None \notin Block  BY DEF None, Block
    <3> QED  BY <1>0, <2>1, <3>1 DEF JumpsMarked, JumpsTo
  <2>3. insts[inst_to_fill].type # "BODY"  BY <2>2
  <2>4. /\ count' = count
        /\ insts' = [insts EXCEPT ![inst_to_fill] = Filled(insts[inst_to_fill], inst_to_fill)]
    BY <1>2 DEF Fill
  <2> QED  BY <1>0, <2>2, <2>3, <2>4 DEF Filled, Kept, TypeOK
<1>4. CASE Copy
  <2>1. bb \in Block /\ copied \in Int  BY <1>0, <1>4 DEF Copy, ControlOK, TypeOK
  <2> QED  BY <1>0, <1>4, <2>1, PushKept DEF Copy
<1>5. CASE BnrElse
  <2> DEFINE d == bbs[bb].else_bb
             imm == IF entry[d].is_ptr THEN entry[d].index ELSE Offset(d)
  <2>1. bb \in Block /\ d \in Block  BY <1>0, <1>5, BlockTyped DEF BnrElse, ControlOK
  <2>2. imm \in Int  BY <1>0, <2>1, ChainedTyped
  <2>3. Push("BNR", imm, d)  BY <1>5 DEF BnrElse
  <2> HIDE DEF d, imm
  <2> QED  BY <1>0, <2>1, <2>2, <2>3, PushKept
<1>7. CASE Jump
  <2>1. bb \in Block  BY <1>0, <1>7 DEF Jump, Jumping, ControlOK
  <2>2. Destination \in Block  BY <1>0, <1>7, <2>1, BlockTyped DEF Jump, Destination
  <2>3. entry[Destination].index \in Int  BY <1>0, <2>2, ChainedTyped
  <2>4. Push("J", entry[Destination].index, Destination)  BY <1>7 DEF Jump
  <2> QED  BY <1>0, <2>1, <2>2, <2>3, <2>4, PushKept
<1>8. CASE ReturnUndefined
  <2>1. bb \in Block  BY <1>0, <1>8 DEF ReturnUndefined, Jumping, ControlOK
  <2> QED  BY <1>0, <1>8, <2>1, PushKept, ZeroTyped DEF ReturnUndefined
<1>9. CASE Return
  <2>1. bb \in Block  BY <1>0, <1>9 DEF Return, ControlOK
  <2> QED  BY <1>0, <1>9, <2>1, PushKept, ZeroTyped DEF Return
<1> QED  BY <1>1, <1>2, <1>4, <1>5, <1>7, <1>8, <1>9 DEF Next

LEMMA StepSettled == IInv /\ Next => Settled
<1> SUFFICES ASSUME IInv, Next PROVE Settled  OBVIOUS
<1>0. TypeOK /\ ControlOK /\ bb \in 1 .. N + 1 /\ N \in Nat  BY LinkerAssumption DEF IInv, TypeOK
<1>1. ASSUME NEW d \in Block PROVE d \in Int /\ (entry[d].is_ptr <=> ~Placed(d))
  BY <1>0, <1>1 DEF ControlOK, Block
<1>2. CASE Enter \/ Fill \/ Copy \/ ReturnUndefined
  BY <1>0, <1>1, <1>2 DEF Enter, Fill, Copy, ReturnUndefined, Jumping, Placed, Settled
<1>3. CASE FillDone
  <2>1. bb \in Block /\ bb' = bb /\ count' = count /\ at = "fill" /\ at' = "copy"
    BY <1>0, <1>3 DEF FillDone, ControlOK
  <2>2. entry'[bb].index = count /\ \A d \in Block : d # bb => entry'[d] = entry[d]
    BY <1>0, <1>3, <2>1 DEF FillDone, Place, TypeOK
  <2> QED  BY <1>0, <1>1, <2>1, <2>2 DEF Settled, Placed
<1>4. CASE BnrElse
  <2> DEFINE t == bbs[bb].else_bb
  <2>1. bb \in Block /\ t \in Block  BY <1>0, <1>4, BlockTyped DEF BnrElse, ControlOK
  <2>2. entry' = Chained(t) /\ bb' = bb /\ at = "copy" /\ at' = "jump"  BY <1>4 DEF BnrElse
  <2> HIDE DEF t
  <2>3. \A d \in Block : Placed(d) => entry'[d].index = entry[d].index
    BY <1>0, <1>1, <2>1, <2>2, ChainedTyped
  <2> QED  BY <1>0, <1>1, <2>2, <2>3 DEF Settled, Placed
<1>5. CASE FallThrough \/ Return
  <2>1. bb' = bb + 1 /\ at \notin {"enter", "fill"} /\ at' = "enter" /\ entry' = entry
    BY <1>5 DEF FallThrough, Return, Jumping
  <2> QED  BY <1>0, <1>1, <2>1 DEF Settled, Placed
<1>6. CASE Jump
  <2>1. bb \in Block  BY <1>0, <1>6 DEF Jump, Jumping, ControlOK
  <2>2. Destination \in Block  BY <1>0, <1>6, <2>1, BlockTyped DEF Jump, Destination
  <2>3. \A d \in Block : Placed(d) => entry'[d].index = entry[d].index
    BY <1>0, <1>1, <1>6, <2>2, ChainedTyped DEF Jump
  <2>4. bb' = bb + 1 /\ at \notin {"enter", "fill"} /\ at' = "enter"
    BY <1>6 DEF Jump, Jumping
  <2> QED  BY <1>0, <1>1, <2>3, <2>4 DEF Settled, Placed
<1> QED  BY <1>2, <1>3, <1>4, <1>5, <1>6 DEF Next

LEMMA KeptBody ==
  ASSUME Kept, NEW b \in Block, NEW n \in Int, entry'[b].index = entry[b].index, Body(b, n)
  PROVE  Body(b, n)'
<1> SUFFICES ASSUME NEW k \in 0 .. n - 1
             PROVE  LET i == entry[b].index + k
                    IN  /\ i \in 0 .. count' - 1
                        /\ insts'[i].type = "BODY" /\ insts'[i].from = b /\ insts'[i].imm = k
  BY DEF Body, Kept
<1> DEFINE i == entry[b].index + k
<1>1. i \in 0 .. count - 1 /\ insts[i].type = "BODY" /\ insts[i].from = b /\ insts[i].imm = k
  BY DEF Body
<1> HIDE DEF i
<1>2. i \in 0 .. count' - 1  BY <1>1 DEF Kept
<1>3. insts'[i].type = "BODY" /\ insts'[i].from = b /\ insts'[i].imm = k  BY <1>1 DEF Kept
<1> QED  BY <1>2, <1>3 DEF i

LEMMA KeptJump ==
  ASSUME Kept, NEW i, NEW type, NEW d, IsJump(i, type, d)
  PROVE  IsJump(i, type, d)'
<1>1. i \in 0 .. count - 1 /\ insts[i].type = type /\ insts[i].to = d  BY DEF IsJump
<1>2. i \in 0 .. count' - 1  BY <1>1 DEF Kept
<1>3. insts'[i].type = insts[i].type /\ insts'[i].to = insts[i].to  BY <1>1 DEF Kept
<1> QED  BY <1>1, <1>2, <1>3 DEF IsJump

LEMMA KeptFollows ==
  ASSUME Kept, Settled, bb \in Int, NEW i, NEW b \in Block, b < bb, NEW d \in Block,
         Follows(i, b, d)
  PROVE  Follows(i, b, d)'
<1>1. CASE IsJump(i, "J", d)  BY <1>1, KeptJump DEF Follows
<1>2. CASE d = b + 1 /\ i = IF Placed(d) THEN entry[d].index ELSE count
  <2>1. d <= bb  BY <1>2 DEF Block
  <2>2. i = IF Placed(d)' THEN entry'[d].index ELSE count'
    BY <1>2, <2>1 DEF Settled
  <2> QED  BY <1>2, <2>2 DEF Follows
<1> QED  BY <1>1, <1>2 DEF Follows

LEMMA KeptLaid ==
  ASSUME TypeOK, Kept, Settled, NEW b \in Block, b < bb, Laid(b)
  PROVE  Laid(b)'
<1>1. bb \in Int /\ b \in Int /\ bbs' = bbs  BY LinkerAssumption DEF TypeOK, Kept, Block
<1>2. entry'[b].index = entry[b].index /\ End(b)' = End(b)
  BY <1>1 DEF Settled, Placed, End
<1>3. bbs[b].size \in Int  BY BlockTyped
<1>4. Body(b, bbs[b].size)'  BY <1>1, <1>2, <1>3, KeptBody DEF Laid
<1>5. ASSUME bbs[b].br
      PROVE  (IsJump(End(b), "BNR", bbs[b].else_bb) /\ Follows(End(b) + 1, b, bbs[b].then_bb))'
  <2>1. bbs[b].then_bb \in Block  BY <1>5, BlockTyped
  <2>2. IsJump(End(b), "BNR", bbs[b].else_bb) /\ Follows(End(b) + 1, b, bbs[b].then_bb)
    BY <1>5 DEF Laid
  <2>3. IsJump(End(b), "BNR", bbs[b].else_bb)'  BY <1>1, <1>2, <2>2, KeptJump
  <2>4. Follows(End(b) + 1, b, bbs[b].then_bb)'  BY <1>1, <1>2, <2>1, <2>2, KeptFollows
  <2> QED  BY <2>3, <2>4
<1>6. ASSUME ~bbs[b].br, bbs[b].else_bb # None PROVE Follows(End(b), b, bbs[b].else_bb)'
  <2>1. bbs[b].else_bb \in Block  BY <1>6, BlockTyped
  <2>2. Follows(End(b), b, bbs[b].else_bb)  BY <1>6 DEF Laid
  <2> QED  BY <1>1, <1>2, <2>1, <2>2, KeptFollows
<1>7. ASSUME bbs[b].else_bb = None
      PROVE  /\ End(b) \in 0 .. count' - 1 /\ insts'[End(b)].type = "UNDEFINED"
             /\ End(b) + 1 \in 0 .. count' - 1 /\ insts'[End(b) + 1].type = "RET"
  BY <1>7 DEF Laid, Kept
<1> QED  BY <1>1, <1>2, <1>4, <1>5, <1>6, <1>7 DEF Laid

(* The parts of Layout: the places, the current block, the finished ones.   *)
LEMMA StepPlaces ==
  ASSUME Kept, Settled, Layout, NEW b \in Block, Placed(b)'
  PROVE  entry'[b].index \in 0 .. count'
<1>1. CASE Placed(b)
  <2>1. entry'[b].index = entry[b].index /\ entry[b].index \in 0 .. count
    BY <1>1 DEF Settled, Layout
  <2> QED  BY <2>1 DEF Kept
<1>2. CASE ~Placed(b)  BY <1>2 DEF Settled, Kept
<1> QED  BY <1>1, <1>2

LEMMA StepCurrent ==
  ASSUME TypeOK, ControlOK, Kept, Settled, Layout, Next
  PROVE  /\ at' = "copy" => Body(bb, copied)' /\ entry'[bb'].index + copied' = count'
         /\ at' = "jump" => /\ Body(bb, bbs[bb].size)' /\ End(bb)' + 1 = count'
                            /\ IsJump(End(bb), "BNR", bbs[bb].else_bb)'
         /\ at' = "return" => /\ Body(bb, bbs[bb].size)' /\ End(bb)' + 1 = count'
                              /\ insts'[End(bb)'].type = "UNDEFINED"
<1>0. count \in Nat /\ bbs' = bbs /\ copied \in Nat  BY DEF TypeOK, Kept
<1>1. CASE FillDone
  <2>1. bb \in Block  BY <1>1 DEF FillDone, ControlOK
  <2>2. entry'[bb] = Place(count) /\ bb' = bb /\ at' = "copy" /\ copied' = 0 /\ count' = count
    BY <1>1, <2>1 DEF FillDone, TypeOK
  <2>3. entry'[bb].index = count  BY <2>2 DEF Place
  <2>4. Body(bb, copied)'  BY <2>2 DEF Body
  <2> QED  BY <1>0, <2>2, <2>3, <2>4
<1>2. ASSUME at = "copy", bb' = bb, bb \in Block
      PROVE  /\ entry'[bb].index = entry[bb].index /\ entry[bb].index \in Int
             /\ entry[bb].index + copied = count
             /\ Body(bb, copied) /\ bbs[bb].size \in Nat
             /\ \A k \in Nat : Body(bb, k) => Body(bb, k)'
  <2>1. entry'[bb].index = entry[bb].index /\ entry[bb].index \in 0 .. count
    BY <1>2 DEF Layout, Settled, Placed
  <2>2. ASSUME NEW k \in Nat, Body(bb, k) PROVE Body(bb, k)'
    BY <1>2, <2>1, <2>2, KeptBody
  <2> QED  BY <1>0, <1>2, <2>1, <2>2, BlockTyped DEF Layout
<1>3. CASE Copy
  <2>1. bb \in Block /\ bb' = bb /\ at = "copy" /\ at' = "copy" /\ copied' = copied + 1
    BY <1>3 DEF Copy, ControlOK
  <2>2. Push("BODY", copied, None) /\ copied \in Int  BY <1>0, <1>3 DEF Copy
  <2>3. count' = count + 1
        /\ insts'[count] = [type |-> "BODY", imm |-> copied, from |-> bb, to |-> None]
    BY <2>1, <2>2, PushAppends
  <2>4. Body(bb, copied)' <=> \A k \in 0 .. copied :
          LET i == entry[bb].index + k
          IN  /\ i \in 0 .. count
              /\ insts'[i].type = "BODY" /\ insts'[i].from = bb /\ insts'[i].imm = k
    BY <1>0, <1>2, <2>1, <2>3 DEF Body
  <2>5. ASSUME NEW k \in 0 .. copied
        PROVE  LET i == entry[bb].index + k
               IN  /\ i \in 0 .. count
                   /\ insts'[i].type = "BODY" /\ insts'[i].from = bb /\ insts'[i].imm = k
    <3>1. CASE k = copied  BY <1>0, <1>2, <2>1, <2>3, <3>1
    <3>2. CASE k # copied
      <4> DEFINE i == entry[bb].index + k
      <4>1. k \in 0 .. copied - 1  BY <1>0, <3>2
      <4>2. i \in 0 .. count - 1 /\ insts[i].type = "BODY" /\ insts[i].from = bb /\ insts[i].imm = k
        BY <1>2, <2>1, <4>1 DEF Body
      <4> HIDE DEF i
      <4>3. insts'[i].type = "BODY" /\ insts'[i].from = bb /\ insts'[i].imm = k
        BY <4>2 DEF Kept
      <4>4. i \in 0 .. count  BY <1>0, <4>2
      <4> QED  BY <4>3, <4>4 DEF i
    <3> QED  BY <3>1, <3>2
  <2>6. Body(bb, copied)'  BY <2>4, <2>5
  <2> QED  BY <1>0, <1>2, <2>1, <2>3, <2>6
<1>4. CASE BnrElse
  <2> DEFINE d == bbs[bb].else_bb
             imm == IF entry[d].is_ptr THEN entry[d].index ELSE Offset(d)
  <2>1. bb \in Block /\ d \in Block  BY <1>4, BlockTyped DEF BnrElse, ControlOK
  <2>2. imm \in Int  BY <2>1, ChainedTyped
  <2>3. Push("BNR", imm, d) /\ copied = bbs[bb].size /\ at = "copy" /\ at' = "jump" /\ bb' = bb
    BY <1>4 DEF BnrElse
  <2>4. Body(bb, bbs[bb].size)' /\ End(bb)' = count /\ End(bb) = count
    BY <1>0, <1>2, <2>1, <2>3 DEF End
  <2> HIDE DEF d, imm
  <2>5. count' = count + 1 /\ insts'[count] = [type |-> "BNR", imm |-> imm, from |-> bb, to |-> d]
    BY <2>1, <2>2, <2>3, PushAppends
  <2>6. insts'[count].type = "BNR" /\ insts'[count].to = d  BY <2>5
  <2>7. IsJump(End(bb), "BNR", d)'
    BY <1>0, <2>3, <2>4, <2>5, <2>6 DEF IsJump, d
  <2> QED  BY <1>0, <2>3, <2>4, <2>5, <2>7 DEF d
<1>5. CASE ReturnUndefined
  <2>1. bb \in Block /\ Push("UNDEFINED", Zero, None) /\ bb' = bb /\ at' = "return"
    BY <1>5 DEF ReturnUndefined, Jumping, ControlOK
  <2>2. at = "copy" /\ copied = bbs[bb].size
    <3>1. bbs[bb].br => bbs[bb].then_bb # None  BY <2>1, BlockTyped DEF None, Block
    <3> QED  BY <1>5, <2>1, <3>1 DEF ReturnUndefined, Jumping, Destination, ControlOK
  <2>3. count' = count + 1
        /\ insts'[count] = [type |-> "UNDEFINED", imm |-> Zero, from |-> bb, to |-> None]
    BY <2>1, PushAppends, ZeroTyped
  <2>4. Body(bb, bbs[bb].size)' /\ End(bb)' = count
    BY <1>0, <1>2, <2>1, <2>2 DEF End
  <2> QED  BY <1>0, <2>1, <2>3, <2>4
<1>6. CASE at' \notin {"copy", "jump", "return"}  BY <1>6
<1> QED  BY <1>1, <1>3, <1>4, <1>5, <1>6 DEF Next, Enter, Fill, FallThrough, Jump, Return

LEMMA StepFinished ==
  ASSUME TypeOK, ControlOK, Kept, Settled, Layout, Next, NEW b \in Block, b = bb, bb' = bb + 1
  PROVE  Laid(b)'
<1>0. count \in Nat /\ bbs' = bbs /\ bb \in Int /\ b \in Int
  BY LinkerAssumption DEF TypeOK, Kept, Block
<1>1. CASE FallThrough \/ Jump
  <2>1. Jumping /\ Destination # None /\ at' = "enter"  BY <1>1 DEF FallThrough, Jump
  <2>2. Destination \in Block  BY <2>1, BlockTyped DEF Destination
  <2>3. entry'[b].index = entry[b].index /\ End(b)' = End(b) /\ entry[b].index \in Int
    BY <1>0, <2>1 DEF Jumping, Settled, Placed, End, Layout
  <2>4. Body(b, bbs[b].size)'
    <3>1. Body(b, bbs[b].size)  BY <2>1 DEF Jumping, Layout
    <3> QED  BY <1>0, <2>3, <3>1, KeptBody, BlockTyped
  <2>5. ASSUME NEW d \in Block, d = Destination, NEW i, i = count PROVE Follows(i, b, d)'
    <3>1. CASE FallThrough
      <4>1. count' = count /\ d = b + 1 /\ bb' = b + 1
        BY <2>5, <3>1 DEF FallThrough, IsNext
      <4>2. ~Placed(d)'  BY <1>0, <2>1, <4>1 DEF Placed
      <4> QED  BY <2>5, <4>1, <4>2 DEF Follows
    <3>2. CASE Jump
      <4> DEFINE imm == entry[d].index
      <4>1. Push("J", imm, d)  BY <2>5, <3>2 DEF Jump
      <4>2. imm \in Int  BY ChainedTyped
      <4> HIDE DEF imm
      <4>3. count' = count + 1 /\ insts'[count] = [type |-> "J", imm |-> imm, from |-> bb, to |-> d]
        BY <4>1, <4>2, PushAppends
      <4> QED  BY <1>0, <2>5, <4>3 DEF Follows, IsJump
    <3> QED  BY <1>1, <3>1, <3>2
  <2>6. CASE bbs[b].br
    <3>1. /\ at = "jump" /\ Destination = bbs[b].then_bb
          /\ bbs[b].then_bb \in Block /\ bbs[b].else_bb \in Block
      BY <2>1, <2>6, BlockTyped DEF Jumping, Destination
    <3>2. End(b) + 1 = count /\ IsJump(End(b), "BNR", bbs[b].else_bb)  BY <3>1 DEF Layout
    <3>3. IsJump(End(b), "BNR", bbs[b].else_bb)'  BY <1>0, <2>3, <3>2, KeptJump
    <3>4. Follows(End(b) + 1, b, bbs[b].then_bb)'  BY <1>0, <2>3, <2>5, <3>1, <3>2
    <3>5. bbs[b].else_bb # None  BY <3>1 DEF None, Block
    <3> QED  BY <1>0, <2>4, <2>6, <3>3, <3>4, <3>5 DEF Laid
  <2>7. CASE ~bbs[b].br
    <3>1. at = "copy" /\ copied = bbs[b].size /\ Destination = bbs[b].else_bb
      BY <2>1, <2>7 DEF Jumping, Destination, ControlOK
    <3>2. End(b) = count  BY <3>1 DEF Layout, End
    <3>3. Follows(End(b), b, bbs[b].else_bb)'  BY <1>0, <2>2, <2>3, <2>5, <3>1, <3>2
    <3> QED  BY <1>0, <2>1, <2>4, <2>7, <3>1, <3>3 DEF Laid
  <2> QED  BY <2>6, <2>7
<1>2. CASE Return
  <2>1. at = "return" /\ Push("RET", Zero, None)  BY <1>2 DEF Return
  <2>2. ~bbs[b].br /\ bbs[b].else_bb = None  BY <2>1 DEF ControlOK
  <2>3. entry'[b].index = entry[b].index /\ End(b)' = End(b)
    BY <1>0, <2>1 DEF Settled, Placed, End
  <2>4. /\ Body(b, bbs[b].size) /\ End(b) + 1 = count /\ insts[End(b)].type = "UNDEFINED"
        /\ End(b) \in Int
    <3>1. entry[b].index \in Int  BY <2>1 DEF Layout, Placed
    <3> QED  BY <2>1, <3>1, BlockTyped DEF Layout, End
  <2>5. Body(b, bbs[b].size)'  BY <1>0, <2>3, <2>4, KeptBody, BlockTyped
  <2>6. count' = count + 1
        /\ insts'[count] = [type |-> "RET", imm |-> Zero, from |-> bb, to |-> None]
    BY <2>1, PushAppends, ZeroTyped
  <2>7. End(b) \in 0 .. count - 1
    <3>1. 0 <= End(b)
      <4>1. 0 <= entry[b].index  BY <2>1 DEF Layout, Placed
      <4>2. 0 <= bbs[b].size /\ bbs[b].size \in Nat  BY BlockTyped
      <4>3. entry[b].index \in Int  BY <2>1 DEF Layout, Placed
      <4> QED  BY <4>1, <4>2, <4>3 DEF End
    <3> QED  BY <1>0, <2>4, <3>1
  <2>8. insts'[End(b)].type = "UNDEFINED"  BY <2>4, <2>7 DEF Kept
  <2>9. End(b) + 1 \in 0 .. count' - 1 /\ insts'[End(b) + 1].type = "RET"
    BY <1>0, <2>4, <2>6
  <2> QED  BY <1>0, <2>2, <2>3, <2>5, <2>6, <2>7, <2>8, <2>9 DEF Laid
<1> QED  BY <1>0, <1>1, <1>2 DEF Next, Enter, Fill, FillDone, Copy, BnrElse, ReturnUndefined

LEMMA StepLayout == IInv /\ Next => Layout'
<1> SUFFICES ASSUME IInv, Next PROVE Layout'  OBVIOUS
<1>1. TypeOK /\ ControlOK /\ Layout /\ Kept /\ Settled  BY StepKept, StepSettled DEF IInv
<1>2. \A b \in Block : Placed(b)' => entry'[b].index \in 0 .. count'  BY <1>1, StepPlaces
<1>3. ASSUME NEW b \in Block, b < bb' PROVE Laid(b)'
  <2>0. bb \in Int /\ b \in Int /\ bb' \in {bb, bb + 1} /\ (bb' = bb + 1 => bb \in Block)
    <3>1. bb \in Int /\ b \in Int  BY LinkerAssumption, <1>1 DEF TypeOK, Block
    <3> QED
      BY <1>1, <3>1 DEF Next, Enter, Fill, FillDone, Copy, BnrElse, FallThrough, Jump, Return,
         ReturnUndefined, Jumping, ControlOK
  <2>1. CASE b < bb
    <3>1. Laid(b)  BY <1>1, <2>1 DEF Layout
    <3> QED  BY <1>1, <2>1, <3>1, KeptLaid
  <2>2. CASE ~(b < bb)
    <3>1. b = bb /\ bb' = bb + 1  BY <1>3, <2>0, <2>2
    <3> QED  BY <1>1, <3>1, StepFinished
  <2> QED  BY <2>1, <2>2
<1> QED  BY <1>1, <1>2, <1>3, StepCurrent DEF Layout

(***************************************************************************)
(* The invariant, and what follows from it.                                *)
(***************************************************************************)
LEMMA Stutter == IInv /\ UNCHANGED vars => IInv'
<1> SUFFICES ASSUME IInv, UNCHANGED vars PROVE IInv'
  OBVIOUS
<1>1. UNCHANGED <<bbs, entry, insts, count, bb, at, inst_to_fill, copied>>
  BY DEF vars
<1>2. TypeOK' /\ ControlOK' /\ JumpsMarked'
  BY <1>1 DEF IInv, TypeOK, ControlOK, JumpsMarked, Placed
<1>3. \A d, n : (JumpsTo(d, n))' = JumpsTo(d, n)
  BY <1>1 DEF JumpsTo
<1>4. ChainEnds' /\ ChainsComplete'
  BY <1>1, <1>3 DEF IInv, ChainEnds, ChainsComplete, Lands
<1>5. /\ \A b, n : Body(b, n) => Body(b, n)'
      /\ \A b : End(b)' = End(b)
      /\ \A i, d, type : IsJump(i, type, d) => IsJump(i, type, d)'
  BY <1>1 DEF Body, IsJump, End
<1>6. \A b, i, d : Follows(i, b, d) => Follows(i, b, d)'
  BY <1>1, <1>5 DEF Follows, Placed
<1>7. \A b : Laid(b) => Laid(b)'
  BY <1>1, <1>5, <1>6 DEF Laid
<1>8. Layout'
  BY <1>1, <1>5, <1>7 DEF IInv, Layout, Placed
<1> QED
  BY <1>2, <1>4, <1>8 DEF IInv

LEMMA Invariance == Spec => []IInv
<1>1. IInv /\ [Next]_vars => IInv'
  BY StepType, StepControl, StepChains, StepLayout, Stutter DEF IInv
<1> QED  BY <1>1, InitInv, PTL DEF Spec

LEMMA LinkedAtEnd == IInv => LinkedAsBuilt
<1> SUFFICES ASSUME IInv, bb = N + 1, NEW b \in Block
             PROVE  LET start == entry[b].index
                        end == start + bbs[b].size
                    IN  /\ \A i \in start .. end - 1 :
                             /\ i < count /\ insts[i].type = "BODY" /\ insts[i].from = b
                             /\ insts[i].imm = i - start
                        /\ bbs[b].br => /\ end < count /\ insts[end].type = "BNR"
                                        /\ end + 1 + insts[end].imm = entry[bbs[b].else_bb].index
                                        /\ GoesTo(end + 1, bbs[b].then_bb)
                        /\ ~bbs[b].br /\ bbs[b].else_bb # None => GoesTo(end, bbs[b].else_bb)
                        /\ bbs[b].else_bb = None =>
                             /\ end + 1 < count /\ insts[end].type = "UNDEFINED"
                             /\ insts[end + 1].type = "RET"
  BY DEF LinkedAsBuilt
<1>0. TypeOK /\ ControlOK /\ ChainsComplete /\ Layout /\ N \in Nat /\ count \in Nat
  BY LinkerAssumption DEF IInv, TypeOK
<1>1. ASSUME NEW d \in Block PROVE d < bb /\ Placed(d) /\ ~entry[d].is_ptr /\ entry[d].index \in Int
  <2>1. d < bb /\ Placed(d)  BY <1>0 DEF Block, Placed
  <2> QED  BY <1>0, <2>1 DEF ControlOK, Layout
<1>2. ASSUME NEW d \in Block, NEW i, NEW type, IsJump(i, type, d)
      PROVE  i \in 0 .. count - 1 /\ insts[i].type = type /\ Lands(i, entry[d].index)
  <2>1. i \in JumpsTo(d, count) /\ i \in 0 .. count - 1 /\ insts[i].type = type
    BY <1>2 DEF IsJump, JumpsTo
  <2> QED  BY <1>0, <1>1, <2>1 DEF ChainsComplete
<1>3. ASSUME NEW d \in Block, NEW i, Follows(i, b, d) PROVE GoesTo(i, d)
  <2>1. CASE IsJump(i, "J", d)
    <3>1. i \in 0 .. count - 1 /\ insts[i].type = "J" /\ Lands(i, entry[d].index)
      BY <1>2, <2>1
    <3> QED  BY <1>0, <3>1 DEF Lands, GoesTo
  <2>2. CASE ~IsJump(i, "J", d)  BY <1>1, <1>3, <2>2 DEF Follows, GoesTo
  <2> QED  BY <2>1, <2>2
<1>4. Laid(b)  BY <1>0, <1>1 DEF Layout
<1>5. /\ bbs[b].size \in Nat /\ entry[b].index \in Int /\ End(b) \in Int
      /\ bbs[b].br => bbs[b].then_bb \in Block /\ bbs[b].else_bb \in Block
      /\ bbs[b].else_bb # None => bbs[b].else_bb \in Block
  BY <1>0, <1>1, BlockTyped DEF End
<1>6. ASSUME NEW i \in entry[b].index .. End(b) - 1
      PROVE  /\ i < count /\ insts[i].type = "BODY" /\ insts[i].from = b
             /\ insts[i].imm = i - entry[b].index
  <2> DEFINE k == i - entry[b].index
  <2>1. k \in 0 .. bbs[b].size - 1 /\ entry[b].index + k = i  BY <1>5 DEF End
  <2> HIDE DEF k
  <2>2. i \in 0 .. count - 1 /\ insts[i].type = "BODY" /\ insts[i].from = b /\ insts[i].imm = k
    BY <1>4, <2>1 DEF Laid, Body
  <2> QED  BY <1>0, <2>2 DEF k
<1>7. ASSUME bbs[b].br
      PROVE  /\ End(b) < count /\ insts[End(b)].type = "BNR"
             /\ End(b) + 1 + insts[End(b)].imm = entry[bbs[b].else_bb].index
             /\ GoesTo(End(b) + 1, bbs[b].then_bb)
  <2>1. /\ IsJump(End(b), "BNR", bbs[b].else_bb) /\ Follows(End(b) + 1, b, bbs[b].then_bb)
        /\ bbs[b].then_bb \in Block /\ bbs[b].else_bb \in Block
    BY <1>4, <1>5, <1>7 DEF Laid
  <2>2. /\ End(b) \in 0 .. count - 1 /\ insts[End(b)].type = "BNR"
        /\ Lands(End(b), entry[bbs[b].else_bb].index)
    BY <1>2, <2>1
  <2>3. GoesTo(End(b) + 1, bbs[b].then_bb)  BY <1>3, <2>1
  <2>4. End(b) + 1 + insts[End(b)].imm = entry[bbs[b].else_bb].index  BY <2>2 DEF Lands
  <2>5. End(b) < count  BY <1>0, <2>2
  <2> QED  BY <2>2, <2>3, <2>4, <2>5
<1>8. ASSUME ~bbs[b].br, bbs[b].else_bb # None PROVE GoesTo(End(b), bbs[b].else_bb)
  BY <1>3, <1>4, <1>5, <1>8 DEF Laid
<1>9. ASSUME bbs[b].else_bb = None
      PROVE  /\ End(b) + 1 < count /\ insts[End(b)].type = "UNDEFINED"
             /\ insts[End(b) + 1].type = "RET"
  BY <1>0, <1>4, <1>5, <1>9 DEF Laid
<1> QED  BY <1>6, <1>7, <1>8, <1>9 DEF End

(* The pointer of a chain never leaves the list of instructions, whatever   *)
(* the control flow graph.                                                  *)
THEOREM TypeCorrect == Spec => []TypeOK
<1>1. IInv => TypeOK  BY DEF IInv
<1> QED  BY <1>1, Invariance, PTL

(* Every jump to a block without a place stays on its chain, and is filled  *)
(* in with the right operand when the block gets its place.                 *)
THEOREM ChainsStayComplete == Spec => []ChainsComplete
<1>1. IInv => ChainsComplete  BY DEF IInv
<1> QED  BY <1>1, Invariance, PTL

(* The list that ir_builder_destroy returns runs as the basic blocks do.    *)
THEOREM LinkerBuildsGraph == Spec => []LinkedAsBuilt
BY LinkedAtEnd, Invariance, PTL

(* The loop that fills in a chain moves down the list, so it ends. *)
THEOREM ChainsDescend == Spec => ChainDescends
<1>1. IInv /\ [Next]_vars =>
        [at = "fill" /\ at' = "fill" => inst_to_fill' < inst_to_fill]_vars
  <2> SUFFICES ASSUME IInv, Next, at = "fill", at' = "fill" PROVE inst_to_fill' < inst_to_fill
    OBVIOUS
  <2>1. Fill
    BY DEF Next, Enter, FillDone, Copy, BnrElse, FallThrough, Jump, ReturnUndefined, Return, Jumping
  <2>2. /\ bb \in Block /\ entry[bb].is_ptr /\ inst_to_fill \in JumpsTo(bb, count)
        /\ ChainsComplete /\ inst_to_fill \in Int
    <3>1. bb \in Int /\ \A d \in Block : d \in Int  BY LinkerAssumption DEF IInv, TypeOK, Block
    <3> QED  BY <2>1, <3>1 DEF IInv, ControlOK, ChainEnds, Placed, Fill, JumpsTo, NoInst
  <2>3. IsLast(JumpsTo(bb, inst_to_fill), insts[inst_to_fill].imm)
    <3>1. inst_to_fill <= inst_to_fill  BY <2>2
    <3> QED  BY <2>2, <3>1 DEF ChainsComplete
  <2>4. inst_to_fill' = insts[inst_to_fill].imm /\ inst_to_fill >= 0  BY <2>1 DEF Fill
  <2> QED  BY <2>2, <2>3, <2>4 DEF IsLast, JumpsTo, NoInst
<1> QED  BY <1>1, Invariance, PTL DEF Spec, ChainDescends
===============================================================================
