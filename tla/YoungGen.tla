------------------------------- MODULE YoungGen -------------------------------
(***************************************************************************)
(* The two blocks of young_gen.c word by word: the bump allocator, and the *)
(* bitmap from which a collection finds the userdata to destruct.  What    *)
(* the objects hold is the business of ObjectHeap; here they have a place, *)
(* a size and a type, and the caller has one handle for each it keeps.     *)
(* A definition named Bad... is a mistake in the one after it that a       *)
(* property rules out.                                                     *)
(***************************************************************************)
EXTENDS Naturals, FiniteSets

CONSTANTS Id,            \* names of objects; for userdata, of the data they own
          BlockSize,     \* YOUNG_GEN_BLOCK_SIZE in words
          HeaderSize,    \* sizeof(YoungGenBlock), its bitmap included, in words
          TableSizes,    \* the sizes of tables: 5 words and 2 per slot
          UserdataSize,  \* 5: the header of a table
          WordBytes      \* sizeof(void *): 4, the build is -m32

ASSUME YoungGenAssumption ==
  /\ {BlockSize, HeaderSize} \subseteq Nat \ {0}
  /\ HeaderSize < BlockSize /\ BlockSize % 8 = 0
  /\ UserdataSize = 5 /\ WordBytes = 4
  /\ TableSizes \subseteq Nat /\ \A size \in TableSizes : size > UserdataSize

VARIABLES current,     \* which block is young_gen->current
          blocks,      \* of each: its allocated counter, its bitmap, and the objects in it
          handles,     \* the objects the caller keeps a pointer to
          phase,       \* "mutate" or "mark"
          todo,        \* the handles young_gen_gc_mark has yet to be called on
          destructed   \* how often the destructor of the userdata of that name has run

vars == <<current, blocks, handles, phase, todo, destructed>>

------------------------------------------------------------------------------
EmptyBlock == [allocated |-> HeaderSize, bitmap |-> {}, objects |-> {}]

(* A bit of the bitmap is a byte and a bit of it.  A byte past the bitmap   *)
(* is one of the content's, which no object occupies and nothing scans.     *)
BitmapBytes == (BlockSize + 7) \div 8
BadBitOf(pos) == <<pos \div 8, pos>>   \* & 7 forgotten
BitOf(pos) == <<pos \div 8, pos % 8>>
SetBit(bitmap, pos) == IF pos \div 8 < BitmapBytes THEN bitmap \cup {BitOf(pos)} ELSE bitmap

(* bit = offset & 7, where offset is in bytes. *)
BadUnsetBit(bitmap, pos) == bitmap \ {<<pos \div 8, (8 * pos) % 8>>}   \* as in a 64-bit build
UnsetBit(bitmap, pos) == bitmap \ {<<pos \div 8, (WordBytes * pos) % 8>>}

(* The test of young_gen_gc_mark for an address in the block. *)
InBlock(o) == o.pos < BlockSize
Objects(type) == {o \in blocks[current].objects : o.type = type}
Named(id) == CHOOSE o \in blocks[current].objects \cup blocks[1 - current].objects : o.id = id
Known == {o.id : o \in blocks[0].objects \cup blocks[1].objects}

Fits(b, size) == blocks[b].allocated + size <= BlockSize

(* _young_gen_allocate: allocated counts the header, content comes after it. *)
Allocated(b, id, size, type) ==
  LET o == [id |-> id, pos |-> HeaderSize + b.allocated, size |-> size, type |-> type]
  IN  [allocated |-> b.allocated + size,
       bitmap |-> IF type = "userdata" THEN SetBit(b.bitmap, o.pos) ELSE b.bitmap,
       objects |-> b.objects \cup {o}]

(* A copied object leaves its header behind, marked GC_LEFT. *)
Left(b, o) ==
  [allocated |-> b.allocated,
   bitmap |-> IF o.type = "userdata" THEN UnsetBit(b.bitmap, o.pos) ELSE b.bitmap,
   objects |-> (b.objects \ {o}) \cup {[o EXCEPT !.type = "left"]}]

New(id, size, type) ==
  /\ phase = "mutate" /\ id \notin Known
  /\ Fits(current, size)
  /\ blocks' = [blocks EXCEPT ![current] = Allocated(@, id, size, type)]
  /\ handles' = handles \cup {id}
  /\ destructed' = [destructed EXCEPT ![id] = 0]
  /\ UNCHANGED <<current, phase, todo>>

NewHash(id) == \E size \in TableSizes : New(id, size, "table")
NewUserdata(id) == New(id, UserdataSize, "userdata")

Drop(id) ==
  /\ phase = "mutate" /\ id \in handles
  /\ handles' = handles \ {id}
  /\ UNCHANGED <<current, blocks, phase, todo, destructed>>

GCStart ==
  /\ phase = "mutate"
  /\ phase' = "mark"
  /\ todo' = handles
  /\ UNCHANGED <<current, blocks, handles, destructed>>

(* young_gen_gc_mark, called on the handles in any order.  A table that has *)
(* become too large for its fields is copied into a smaller one.            *)
CopySizes(o) ==
  {o.size} \cup IF o.type = "table" THEN {size \in TableSizes : size < o.size} ELSE {}

BadGCMark(id) ==   \* the bit of the copy not set
  /\ phase = "mark" /\ id \in todo
  /\ LET o == Named(id)
         copied == Allocated(blocks[1 - current], id, o.size, o.type)
     IN  blocks' = [blocks EXCEPT ![current] = Left(@, o),
                                  ![1 - current] = [copied EXCEPT !.bitmap = blocks[1 - current].bitmap]]
  /\ todo' = todo \ {id}
  /\ UNCHANGED <<current, handles, phase, destructed>>

GCMark(id) ==
  /\ phase = "mark" /\ id \in todo
  /\ LET o == Named(id)
     IN  \/ /\ ~InBlock(o)
            /\ UNCHANGED blocks
         \/ /\ InBlock(o)
            /\ \E size \in CopySizes(o) :
                 blocks' = [blocks EXCEPT ![current] = Left(@, o),
                                          ![1 - current] = Allocated(@, id, size, o.type)]
  /\ todo' = todo \ {id}
  /\ UNCHANGED <<current, handles, phase, destructed>>

(* _young_gen_gc_destruct_userdata: the bits that still name userdata. *)
BadDestructible == {o \in blocks[current].objects : BitOf(o.pos) \in blocks[current].bitmap}
Destructible == {o \in Objects("userdata") : BitOf(o.pos) \in blocks[current].bitmap}

GCEnd ==
  /\ phase = "mark" /\ todo = {}
  /\ destructed' = [id \in Id |-> destructed[id] +
                      Cardinality({o \in Destructible : o.id = id})]
  /\ current' = 1 - current
  /\ blocks' = [blocks EXCEPT ![current] =
                  [EmptyBlock EXCEPT !.objects = {o \in blocks[current].objects : ~InBlock(o)}]]
  /\ phase' = "mutate"
  /\ UNCHANGED <<handles, todo>>

Init ==
  /\ current = 0
  /\ blocks = [b \in {0, 1} |-> EmptyBlock]
  /\ handles = {} /\ todo = {}
  /\ phase = "mutate"
  /\ destructed = [id \in Id |-> 0]

Next ==
  \/ \E id \in Id : NewHash(id) \/ NewUserdata(id) \/ Drop(id) \/ GCMark(id)
  \/ GCStart \/ GCEnd

Spec == Init /\ [][Next]_vars

------------------------------------------------------------------------------
TypeOK ==
  /\ current \in {0, 1}
  /\ \A b \in {0, 1} :
       /\ blocks[b].allocated \in HeaderSize .. BlockSize
       /\ \A x \in blocks[b].bitmap : x[1] < BitmapBytes /\ x[2] \in 0 .. 7
       /\ \A o \in blocks[b].objects : o.id \in Id /\ o.type \in {"table", "userdata", "left"}
  /\ handles \subseteq Id /\ todo \subseteq handles
  /\ phase \in {"mutate", "mark"}
  /\ destructed \in [Id -> Nat]

(* The scan of a collection finds every userdata of the block and reads no  *)
(* header where none is, although unsetting clears another bit than the one *)
(* that was set: no two headers are close enough to share that bit.         *)
BitmapNamesUserdata ==
  /\ \A o \in Objects("userdata") : InBlock(o) => BitOf(o.pos) \in blocks[current].bitmap
  /\ \A x \in blocks[current].bitmap : \E o \in blocks[current].objects : BitOf(o.pos) = x

(* The destructor of what the program still holds never runs, and no        *)
(* destructor runs twice, over any number of collections.                   *)
DestructedOnceDead ==
  \A id \in Id : destructed[id] <= IF id \in handles THEN 0 ELSE 1

(* README: "GC managed userdata".  A collection destructs all the userdata  *)
(* that the program has let go of.                                          *)
UserdataManaged ==
  [][phase = "mark" /\ phase' = "mutate" =>
       \A o \in Objects("userdata") : o.id \notin handles => destructed'[o.id] = 1]_vars
==============================================================================
