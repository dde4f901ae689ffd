---------------------------- MODULE YoungGenProofs ----------------------------
(***************************************************************************)
(* Proofs about YoungGen, for blocks, headers and tables of any size.      *)
(***************************************************************************)
EXTENDS YoungGen, FiniteSetTheorems, TLAPS

Blk == {0, 1}
Bit == (0 .. BitmapBytes - 1) \X (0 .. 7)
Object == [id : Id, pos : Nat, size : Nat, type : {"table", "userdata", "left"}]
Block == [allocated : HeaderSize .. BlockSize, bitmap : SUBSET Bit, objects : SUBSET Object]

Typed ==
  /\ current \in Blk /\ blocks \in [Blk -> Block]
  /\ handles \subseteq Id /\ todo \subseteq handles
  /\ phase \in {"mutate", "mark"}
  /\ destructed \in [Id -> Nat]

(* What lies where in a block: two headers are as far apart as the first    *)
(* object is long, or further by another object.  The exception are objects *)
(* past the end, of this collection or an earlier one.                      *)
Apart(from, to) == to = from \/ to > from + UserdataSize - 1
LaidOut(b) ==
  /\ \A o \in b.objects : /\ o.size >= UserdataSize
                          /\ o.type = "userdata" => o.size = UserdataSize
                          /\ InBlock(o) => Apart(o.pos + o.size, HeaderSize + b.allocated)
  /\ \A o, p \in b.objects :
       InBlock(o) /\ InBlock(p) /\ o # p =>
         Apart(o.pos + o.size, p.pos) \/ Apart(p.pos + p.size, o.pos)

(* The bits are those of the userdata in the block. *)
BitsSet(b) ==
  /\ \A o \in b.objects : o.type = "userdata" /\ InBlock(o) => BitOf(o.pos) \in b.bitmap
  /\ \A x \in b.bitmap : \E o \in b.objects : BitOf(o.pos) = x

(* Who has been copied, and who has not been destructed. *)
Everything == blocks[0].objects \cup blocks[1].objects
Copied(id) == phase = "mark" /\ id \in handles /\ id \notin todo
NamesUnique ==
  /\ \A b \in Blk : \A o, p \in blocks[b].objects : o.id = p.id => o = p
  /\ \A o \in blocks[current].objects, p \in blocks[1 - current].objects :
       o.id = p.id => o.type = "left"
LeftAreCopied ==
  /\ \A o \in blocks[1 - current].objects : o.type # "left"
  /\ \A o \in blocks[current].objects :
       o.type = "left" => /\ Copied(o.id) /\ InBlock(o)
                          /\ \E p \in blocks[1 - current].objects : p.id = o.id
  /\ \A o \in blocks[current].objects : Copied(o.id) /\ InBlock(o) => o.type = "left"
  /\ \A o \in blocks[1 - current].objects : InBlock(o) => Copied(o.id)
HandlesPoint == \A id \in handles : \E o \in Everything : o.id = id
NotDestructed == \A o \in Everything : destructed[o.id] = 0

(* The words of what has been copied, at least as many as the replacement   *)
(* has given out: it never fills before the old block has.                  *)
Words(o) == o.pos .. o.pos + o.size - 1
LeftWords == UNION {Words(o) : o \in Objects("left")}
CopiesCounted ==
  /\ Cardinality(LeftWords) >= blocks[1 - current].allocated - HeaderSize
  /\ \A o \in blocks[current].objects : InBlock(o) => o.pos >= 2 * HeaderSize
  /\ \A o \in blocks[1 - current].objects : InBlock(o) => o.pos >= 2 * HeaderSize

IInv ==
  /\ Typed
  /\ \A b \in Blk : LaidOut(blocks[b]) /\ BitsSet(blocks[b])
  /\ phase = "mutate" => todo = {}
  /\ NamesUnique /\ LeftAreCopied /\ HandlesPoint /\ NotDestructed
  /\ \A id \in Id : destructed[id] <= 1
  /\ CopiesCounted

(***************************************************************************)
(* What one call does to one block.                                        *)
(***************************************************************************)
LEMMA Sizes ==
  /\ BlockSize \in Nat /\ HeaderSize \in Nat /\ HeaderSize < BlockSize
  /\ UserdataSize = 5 /\ WordBytes = 4
  /\ \A size \in TableSizes : size \in Nat /\ size > 5
  /\ BitmapBytes \in Nat /\ 8 * BitmapBytes = BlockSize
<1>1. BlockSize \in Nat /\ BlockSize % 8 = 0
  BY YoungGenAssumption
<1>2. 8 * ((BlockSize + 7) \div 8) = BlockSize /\ (BlockSize + 7) \div 8 \in Nat
  BY <1>1
<1> QED
  BY <1>2, YoungGenAssumption DEF BitmapBytes

LEMMA BitTyped ==
  ASSUME NEW pos \in Nat
  PROVE  /\ pos \div 8 \in Nat /\ pos % 8 \in 0 .. 7
         /\ pos \div 8 < BitmapBytes <=> pos < BlockSize
         /\ pos < BlockSize => BitOf(pos) \in Bit
<1>1. pos = 8 * (pos \div 8) + (pos % 8) /\ pos \div 8 \in Nat /\ pos % 8 \in 0 .. 7
  OBVIOUS
<1>2. pos \div 8 < BitmapBytes <=> pos < BlockSize
  BY <1>1, Sizes
<1> QED
  BY <1>1, <1>2, Sizes DEF BitOf, Bit

LEMMA AllocatedBlock ==
  ASSUME NEW b \in Block, LaidOut(b), BitsSet(b),
         NEW id \in Id, NEW size \in Nat, NEW type \in {"table", "userdata"},
         size >= 5, type = "userdata" => size = 5, b.allocated + size <= BlockSize
  PROVE  /\ Allocated(b, id, size, type) \in Block
         /\ LaidOut(Allocated(b, id, size, type)) /\ BitsSet(Allocated(b, id, size, type))
<1> DEFINE c == Allocated(b, id, size, type)
           n == [id |-> id, pos |-> HeaderSize + b.allocated, size |-> size, type |-> type]
<1>1. b.allocated \in HeaderSize .. BlockSize /\ b.bitmap \subseteq Bit /\ b.objects \subseteq Object
  BY DEF Block
<1>2. /\ c.allocated = b.allocated + size /\ c.objects = b.objects \cup {n}
      /\ c.bitmap = IF type = "userdata" THEN SetBit(b.bitmap, n.pos) ELSE b.bitmap
      /\ c = [allocated |-> c.allocated, bitmap |-> c.bitmap, objects |-> c.objects]
  BY DEF Allocated
<1>3. n \in Object /\ n.pos \in Nat /\ n.size = size /\ n.type = type
      /\ n.pos = HeaderSize + b.allocated
  BY <1>1, Sizes DEF Object
<1> HIDE DEF c, n
<1>4. c.bitmap = IF type = "userdata" /\ InBlock(n) THEN b.bitmap \cup {BitOf(n.pos)} ELSE b.bitmap
  BY <1>2, <1>3, BitTyped DEF SetBit, InBlock
<1>5. c \in Block
  <2>1. c.bitmap \subseteq Bit
    BY <1>1, <1>3, <1>4, BitTyped DEF InBlock
  <2>2. c.allocated \in HeaderSize .. BlockSize
    BY <1>1, <1>2, Sizes
  <2> QED
    BY <2>1, <2>2, <1>1, <1>2, <1>3 DEF Block
<1>6. LaidOut(c)
  <2>1. ASSUME NEW o \in b.objects, InBlock(o)
        PROVE  Apart(o.pos + o.size, n.pos) /\ Apart(o.pos + o.size, HeaderSize + c.allocated)
    <3>1. Apart(o.pos + o.size, HeaderSize + b.allocated)
      BY <2>1 DEF LaidOut
    <3>2. o.pos \in Nat /\ o.size \in Nat
      BY <1>1 DEF Object
    <3> QED
      BY <3>1, <3>2, <1>1, <1>2, <1>3, Sizes DEF Apart
  <2>2. n.size >= UserdataSize /\ (n.type = "userdata" => n.size = UserdataSize)
        /\ n.pos + n.size = HeaderSize + c.allocated
    BY <1>1, <1>2, <1>3, Sizes
  <2> QED
    BY <2>1, <2>2, <1>2 DEF LaidOut, Apart
<1>7. BitsSet(c)
  BY <1>2, <1>3, <1>4 DEF BitsSet
<1> QED
  BY <1>5, <1>6, <1>7 DEF c

LEMMA SameByte ==
  ASSUME NEW q \in Nat, NEW i \in 0 .. 7, NEW j \in 0 .. 7,
         NEW x \in Nat, NEW y \in Nat, x = 8 * q + i, y = 8 * q + j,
         y = x + 5 \/ y > x + 9 \/ x = y + 5 \/ x > y + 9
  PROVE  j = i + 5 \/ i = j + 5
OBVIOUS

(* The bit that is cleared for userdata is no other userdata's. *)
LEMMA UnsetSparesOthers ==
  ASSUME NEW b \in Block, LaidOut(b),
         NEW o \in b.objects, NEW p \in b.objects, o # p, InBlock(o), InBlock(p),
         o.type = "userdata", p.type = "userdata"
  PROVE  BitOf(p.pos) # <<o.pos \div 8, (WordBytes * o.pos) % 8>>
<1>1. o.pos \in Nat /\ p.pos \in Nat
  BY DEF Block, Object
<1>2. o.size = 5 /\ p.size = 5
  BY Sizes DEF LaidOut
<1>3. \/ p.pos = o.pos + 5 \/ p.pos > o.pos + 9
      \/ o.pos = p.pos + 5 \/ o.pos > p.pos + 9
  BY <1>1, <1>2, Sizes DEF LaidOut, Apart
<1>4. /\ o.pos = 8 * (o.pos \div 8) + (o.pos % 8) /\ o.pos \div 8 \in Nat /\ o.pos % 8 \in 0 .. 7
      /\ p.pos = 8 * (p.pos \div 8) + (p.pos % 8) /\ p.pos \div 8 \in Nat /\ p.pos % 8 \in 0 .. 7
  BY <1>1
<1>5. (4 * o.pos) % 8 = IF (o.pos % 8) \in {0, 2, 4, 6} THEN 0 ELSE 4
  BY <1>1
<1>6. p.pos \div 8 = o.pos \div 8 => p.pos % 8 # (4 * o.pos) % 8
  <2>1. ASSUME p.pos \div 8 = o.pos \div 8
        PROVE  p.pos % 8 = (o.pos % 8) + 5 \/ o.pos % 8 = (p.pos % 8) + 5
    <3> DEFINE q == o.pos \div 8  i == o.pos % 8  j == p.pos % 8
    <3>1. /\ q \in Nat /\ i \in 0 .. 7 /\ j \in 0 .. 7
          /\ o.pos = 8 * q + i /\ p.pos = 8 * q + j
      BY <2>1, <1>4
    <3> HIDE DEF q, i, j
    <3>2. j = i + 5 \/ i = j + 5
      BY <3>1, <1>1, <1>3, SameByte
    <3> QED
      BY <3>2 DEF i, j
  <2> QED
    BY <2>1, <1>4, <1>5
<1> QED
  BY <1>6, Sizes DEF BitOf

LEMMA LeftBlock ==
  ASSUME NEW b \in Block, LaidOut(b), BitsSet(b), NEW o \in b.objects, InBlock(o)
  PROVE  /\ Left(b, o) \in Block /\ LaidOut(Left(b, o)) /\ BitsSet(Left(b, o))
<1> DEFINE c == Left(b, o)
           l == [o EXCEPT !.type = "left"]
<1>1. b.allocated \in HeaderSize .. BlockSize /\ b.bitmap \subseteq Bit /\ b.objects \subseteq Object
  BY DEF Block
<1>2. /\ c.allocated = b.allocated /\ c.objects = (b.objects \ {o}) \cup {l}
      /\ c.bitmap = IF o.type = "userdata" THEN UnsetBit(b.bitmap, o.pos) ELSE b.bitmap
      /\ c = [allocated |-> c.allocated, bitmap |-> c.bitmap, objects |-> c.objects]
  BY DEF Left
<1>3. l \in Object /\ l.pos = o.pos /\ l.size = o.size /\ l.id = o.id /\ l.type = "left"
  BY <1>1 DEF Object
<1> HIDE DEF c, l
<1>4. c.bitmap \subseteq b.bitmap
  BY <1>2 DEF UnsetBit
<1>5. c \in Block
  BY <1>1, <1>2, <1>3, <1>4 DEF Block
<1>6. LaidOut(c)
  BY <1>2, <1>3 DEF LaidOut, InBlock
<1>7. BitsSet(c)
  <2>1. ASSUME NEW p \in b.objects, p # o, p.type = "userdata", InBlock(p)
        PROVE  BitOf(p.pos) \in c.bitmap
    BY <2>1, <1>2, UnsetSparesOthers DEF BitsSet, UnsetBit
  <2>2. ASSUME NEW x \in c.bitmap
        PROVE  \E p \in c.objects : BitOf(p.pos) = x
    BY <2>2, <1>2, <1>3, <1>4 DEF BitsSet
  <2> QED
    BY <2>1, <2>2, <1>2, <1>3 DEF BitsSet
<1> QED
  BY <1>5, <1>6, <1>7 DEF c

(***************************************************************************)
(* The invariant.                                                          *)
(***************************************************************************)
LEMMA TwoBlocks ==
  ASSUME Typed
  PROVE  /\ current \in Blk /\ 1 - current \in Blk /\ 1 - current # current
         /\ \A b \in Blk : b = current \/ b = 1 - current
         /\ Everything = blocks[current].objects \cup blocks[1 - current].objects
         /\ \A b \in Blk : blocks[b] \in Block /\ blocks[b].objects \subseteq Object
BY DEF Typed, Blk, Everything, Block

LEMMA NothingLeft ==
  ASSUME Objects("left") = {}
  PROVE  Cardinality(LeftWords) = 0
<1>1. LeftWords = {}
  BY DEF LeftWords
<1> QED
  BY <1>1, FS_EmptySet

LEMMA EmptyTyped == EmptyBlock \in Block /\ LaidOut(EmptyBlock) /\ BitsSet(EmptyBlock)
BY Sizes DEF EmptyBlock, Block, LaidOut, BitsSet

LEMMA InitInv == Init => IInv
<1> SUFFICES ASSUME Init PROVE IInv
  OBVIOUS
<1>1. Typed
  BY EmptyTyped DEF Init, Typed, Blk
<1>2. \A b \in Blk : blocks[b] = EmptyBlock /\ blocks[b].objects = {} /\ blocks[b].allocated = HeaderSize
  BY DEF Init, Blk, EmptyBlock
<1>3. current = 0 /\ 1 - current = 1 /\ 0 \in Blk /\ 1 \in Blk
  BY DEF Init, Blk
<1>4. CopiesCounted
  <2>1. Objects("left") = {}
    BY <1>2, <1>3 DEF Objects
  <2> QED
    BY <2>1, <1>2, <1>3, NothingLeft, Sizes DEF CopiesCounted
<1> QED
  BY <1>1, <1>2, <1>3, <1>4, EmptyTyped
  DEF Init, IInv, NamesUnique, LeftAreCopied, HandlesPoint, NotDestructed, Everything

LEMMA NewKeepsInv ==
  ASSUME IInv, NEW id \in Id, NEW size \in Nat, NEW type \in {"table", "userdata"},
         size >= 5, type = "userdata" => size = 5, New(id, size, type)
  PROVE  IInv'
<1> DEFINE n == [id |-> id, pos |-> HeaderSize + blocks[current].allocated,
                 size |-> size, type |-> type]
<1>1. /\ current \in Blk /\ 1 - current \in Blk /\ 1 - current # current
      /\ \A b \in Blk : b = current \/ b = 1 - current
      /\ \A b \in Blk : blocks[b] \in Block
      /\ Everything = blocks[current].objects \cup blocks[1 - current].objects
  BY TwoBlocks DEF IInv
<1>2. phase = "mutate" /\ id \notin Known /\ phase' = phase /\ current' = current /\ todo' = todo
      /\ handles' = handles \cup {id} /\ destructed' = [destructed EXCEPT ![id] = 0]
      /\ blocks[current].allocated + size <= BlockSize
  BY DEF New, Fits
<1>3. /\ blocks'[current] = Allocated(blocks[current], id, size, type)
      /\ blocks'[1 - current] = blocks[1 - current]
      /\ blocks' \in [Blk -> {blocks'[current], blocks[1 - current]}]
  BY <1>1 DEF New, IInv, Typed
<1>4. /\ blocks'[current] \in Block /\ LaidOut(blocks'[current])
      /\ BitsSet(blocks'[current])
  BY <1>1, <1>2, <1>3, AllocatedBlock DEF IInv
<1>5. blocks'[current].objects = blocks[current].objects \cup {n}
  BY <1>3 DEF Allocated
<1>6. \A o \in Everything : o.id # id
  BY <1>2 DEF Known, Everything
<1>7. Typed'
  BY <1>1, <1>2, <1>3, <1>4 DEF IInv, Typed
<1>8. Everything' = Everything \cup {n}
  BY <1>1, <1>3, <1>5, <1>7, TwoBlocks, <1>2 DEF Everything, Blk
<1>9. NamesUnique'
  BY <1>1, <1>2, <1>3, <1>5, <1>6 DEF IInv, NamesUnique
<1>10. LeftAreCopied'
  BY <1>1, <1>2, <1>3, <1>5 DEF IInv, LeftAreCopied, Copied
<1>11. HandlesPoint' /\ NotDestructed'
  <2>1. n.id = id /\ \A o \in Everything : o.id \in Id /\ o.id # id
    BY <1>1, <1>6 DEF Block, Object
  <2> HIDE DEF n
  <2>2. HandlesPoint'
    BY <2>1, <1>2, <1>8 DEF IInv, HandlesPoint
  <2>3. \A o \in Everything : destructed'[o.id] = destructed[o.id]
    BY <2>1, <1>2 DEF IInv, Typed
  <2>4. destructed'[id] = 0
    BY <1>2 DEF IInv, Typed
  <2> QED
    BY <2>1, <2>2, <2>3, <2>4, <1>8 DEF IInv, NotDestructed
<1>12. CopiesCounted'
  <2>1. Objects("left") = {} /\ Objects("left")' = {}
    BY <1>2, <1>5 DEF IInv, LeftAreCopied, Copied, Objects
  <2>2. n.pos >= 2 * HeaderSize
    BY <1>1, Sizes DEF Block
  <2>3. Cardinality(LeftWords) = 0 /\ Cardinality(LeftWords)' = 0
    <3>1. LeftWords' = {} /\ LeftWords = {}
      BY <2>1 DEF LeftWords
    <3> QED
      BY <3>1, FS_EmptySet
  <2> QED
    BY <1>2, <1>3, <1>5, <2>2, <2>3 DEF IInv, CopiesCounted, InBlock
<1> QED
  BY <1>1, <1>2, <1>3, <1>4, <1>7, <1>9, <1>10, <1>11, <1>12 DEF IInv, Typed

LEMMA DropKeepsInv ==
  ASSUME IInv, NEW id \in Id, Drop(id)
  PROVE  IInv'
BY DEF IInv, Drop, Typed, NamesUnique, LeftAreCopied, Copied, HandlesPoint, NotDestructed,
       Everything, CopiesCounted, LeftWords, Objects, InBlock, LaidOut, BitsSet

LEMMA GCStartKeepsInv ==
  ASSUME IInv, GCStart
  PROVE  IInv'
BY DEF IInv, GCStart, Typed, NamesUnique, LeftAreCopied, Copied, HandlesPoint, NotDestructed,
       Everything, CopiesCounted, LeftWords, Objects, InBlock, LaidOut, BitsSet

(* A handle that is still to be marked names one object, which is no copy.  *)
LEMMA NamedFound ==
  ASSUME IInv, NEW id \in todo
  PROVE  /\ Named(id) \in Everything /\ Named(id).id = id
         /\ \A o \in Everything : o.id = id => o = Named(id)
         /\ InBlock(Named(id)) => /\ Named(id) \in blocks[current].objects
                                  /\ Named(id) \notin blocks[1 - current].objects
                                  /\ Named(id).type \in {"table", "userdata"}
         /\ phase = "mark" /\ id \in handles /\ id \in Id /\ ~Copied(id)
<1>1. /\ current \in Blk /\ 1 - current \in Blk
      /\ Everything = blocks[current].objects \cup blocks[1 - current].objects
      /\ \A b \in Blk : blocks[b].objects \subseteq Object
  BY TwoBlocks DEF IInv
<1>2. phase = "mark" /\ id \in handles /\ id \in Id /\ ~Copied(id)
  BY DEF IInv, Typed, Copied
<1>3. \E o \in Everything : o.id = id
  BY <1>2 DEF IInv, HandlesPoint
<1>4. Named(id) \in Everything /\ Named(id).id = id
  BY <1>1, <1>3 DEF Named
<1>5. ASSUME NEW o \in Everything, o.id = id, NEW p \in Everything, p.id = id
      PROVE  o = p
  BY <1>1, <1>2, <1>5 DEF IInv, NamesUnique, LeftAreCopied
<1>6. \A o \in blocks[1 - current].objects : o.id = id => ~InBlock(o)
  BY <1>2 DEF IInv, LeftAreCopied
<1>7. Named(id).type # "left"
  BY <1>1, <1>2, <1>4 DEF IInv, LeftAreCopied
<1> QED
  BY <1>1, <1>2, <1>4, <1>5, <1>6, <1>7 DEF Object

LEMMA IntervalSize ==
  ASSUME NEW from \in Nat, NEW size \in Nat, NEW to, to = from + size - 1
  PROVE  IsFiniteSet(from .. to) /\ Cardinality(from .. to) = size
<1>1. from \in Int /\ to \in Int
  OBVIOUS
<1>2. /\ IsFiniteSet(from .. to)
      /\ Cardinality(from .. to) = IF from > to THEN 0 ELSE to - from + 1
  BY <1>1, FS_Interval, Zenon
<1> QED
  BY <1>2

(* There is room for the copy, since what has been copied and what is now   *)
(* were apart in the old block.                                             *)
LEMMA CopyFits ==
  ASSUME IInv, NEW o \in blocks[current].objects, InBlock(o), o.type # "left"
  PROVE  /\ IsFiniteSet(LeftWords) /\ Cardinality(LeftWords) \in Nat
         /\ Cardinality(LeftWords \cup Words(o)) = Cardinality(LeftWords) + o.size
         /\ blocks[1 - current].allocated + o.size <= BlockSize
<1> DEFINE end == HeaderSize + blocks[current].allocated
<1>1. /\ current \in Blk /\ 1 - current \in Blk /\ blocks[current] \in Block
      /\ blocks[1 - current] \in Block /\ blocks[current].objects \subseteq Object
  BY TwoBlocks DEF IInv
<1>2. /\ blocks[current].allocated \in HeaderSize .. BlockSize /\ end \in Nat
      /\ blocks[1 - current].allocated \in HeaderSize .. BlockSize
  BY <1>1, Sizes DEF Block
<1>3. ASSUME NEW p \in blocks[current].objects, InBlock(p)
      PROVE  /\ p.pos \in Nat /\ p.size \in Nat
             /\ p.pos >= 2 * HeaderSize /\ p.pos + p.size <= end
  BY <1>1, <1>2, <1>3, Sizes DEF IInv, LaidOut, Apart, CopiesCounted, Object
<1>4. ASSUME NEW p \in Objects("left")
      PROVE  /\ p \in blocks[current].objects /\ InBlock(p)
             /\ Words(p) \subseteq 2 * HeaderSize .. end - 1
             /\ Words(p) \cap Words(o) = {}
  <2>1. p \in blocks[current].objects /\ InBlock(p) /\ p # o
    BY <1>4 DEF Objects, IInv, LeftAreCopied
  <2>2. Apart(p.pos + p.size, o.pos) \/ Apart(o.pos + o.size, p.pos)
    BY <2>1, <1>1 DEF IInv, LaidOut
  <2> QED
    BY <2>1, <2>2, <1>2, <1>3, Sizes DEF Words, Apart
<1>5. Words(o) \subseteq 2 * HeaderSize .. end - 1
  BY <1>2, <1>3, Sizes DEF Words
<1>6. LeftWords \subseteq 2 * HeaderSize .. end - 1 /\ LeftWords \cap Words(o) = {}
  BY <1>4 DEF LeftWords
<1>7. /\ IsFiniteSet(2 * HeaderSize .. end - 1)
      /\ Cardinality(2 * HeaderSize .. end - 1) = blocks[current].allocated - HeaderSize
  <2>1. /\ 2 * HeaderSize \in Nat /\ blocks[current].allocated - HeaderSize \in Nat
        /\ end - 1 = 2 * HeaderSize + (blocks[current].allocated - HeaderSize) - 1
    BY <1>2, Sizes
  <2> DEFINE from == 2 * HeaderSize
             size == blocks[current].allocated - HeaderSize
             to == end - 1
  <2> HIDE DEF from, size, to
  <2>2. from \in Nat /\ size \in Nat /\ to = from + size - 1
    BY <2>1 DEF from, size, to
  <2>3. IsFiniteSet(from .. to) /\ Cardinality(from .. to) = size
    BY <2>2, IntervalSize
  <2> QED
    BY <2>3 DEF from, size, to
<1>8. IsFiniteSet(Words(o)) /\ Cardinality(Words(o)) = o.size
  BY <1>3, IntervalSize DEF Words
<1>9. IsFiniteSet(LeftWords) /\ IsFiniteSet(LeftWords \cup Words(o))
      /\ Cardinality(LeftWords \cup Words(o)) <= blocks[current].allocated - HeaderSize
  <2>1. LeftWords \cup Words(o) \subseteq 2 * HeaderSize .. end - 1
    BY <1>5, <1>6
  <2>2. LeftWords \subseteq 2 * HeaderSize .. end - 1
    BY <1>6
  <2> HIDE DEF end
  <2>3. IsFiniteSet(LeftWords)
    BY <2>2, <1>7, FS_Subset
  <2>4. /\ IsFiniteSet(LeftWords \cup Words(o))
        /\ Cardinality(LeftWords \cup Words(o)) <= Cardinality(2 * HeaderSize .. end - 1)
    BY <2>1, <1>7, FS_Subset
  <2> QED
    BY <2>3, <2>4, <1>7
<1>10. Cardinality(LeftWords) \in Nat
       /\ Cardinality(LeftWords \cup Words(o)) = Cardinality(LeftWords) + o.size
  <2>1. Cardinality(LeftWords \cup Words(o)) =
          Cardinality(LeftWords) + Cardinality(Words(o)) - Cardinality(LeftWords \cap Words(o))
    BY <1>8, <1>9, FS_Union
  <2>2. Cardinality(LeftWords \cap Words(o)) = 0
    BY <1>6, FS_EmptySet
  <2>3. Cardinality(LeftWords) \in Nat
    BY <1>9, FS_CardinalityType
  <2> QED
    BY <2>1, <2>2, <2>3, <1>3, <1>8
<1> QED
  BY <1>2, <1>3, <1>9, <1>10, Sizes DEF IInv, CopiesCounted

LEMMA GCMarkKeepsInv ==
  ASSUME IInv, NEW id \in Id, GCMark(id)
  PROVE  IInv'
<1> DEFINE o == Named(id)
<1>1. /\ current \in Blk /\ 1 - current \in Blk /\ 1 - current # current
      /\ \A b \in Blk : b = current \/ b = 1 - current
      /\ \A b \in Blk : blocks[b] \in Block /\ blocks[b].objects \subseteq Object
      /\ Everything = blocks[current].objects \cup blocks[1 - current].objects
  BY TwoBlocks DEF IInv
<1>2. /\ phase = "mark" /\ id \in todo /\ todo' = todo \ {id} /\ phase' = phase
      /\ current' = current /\ handles' = handles /\ destructed' = destructed
  BY DEF GCMark
<1>3. /\ o \in Everything /\ o.id = id /\ \A p \in Everything : p.id = id => p = o
      /\ InBlock(o) => /\ o \in blocks[current].objects /\ o \notin blocks[1 - current].objects
                       /\ o.type \in {"table", "userdata"}
      /\ id \in handles /\ ~Copied(id)
  BY <1>2, NamedFound
<1>4. \A x \in Id : Copied(x)' <=> Copied(x) \/ x = id
  BY <1>2, <1>3 DEF Copied
<1>5. CASE ~InBlock(o)
  <2>1. blocks' = blocks
    BY <1>5 DEF GCMark
  <2>2. \A p \in Everything : InBlock(p) => (Copied(p.id)' <=> Copied(p.id)) /\ p.id \in Id
    BY <1>1, <1>3, <1>4, <1>5 DEF Object
  <2>3. LeftAreCopied'
    BY <2>1, <2>2, <1>1, <1>2 DEF IInv, LeftAreCopied, InBlock
  <2>4. Typed'
    BY <2>1, <1>2 DEF IInv, Typed
  <2> QED
    BY <2>1, <2>3, <2>4, <1>2 DEF IInv, NamesUnique, HandlesPoint, NotDestructed, Everything,
       CopiesCounted, LeftWords, Objects, InBlock, LaidOut, BitsSet
<1>6. CASE InBlock(o)
  <2>0. PICK size \in CopySizes(o) :
          blocks' = [blocks EXCEPT ![current] = Left(@, o),
                                   ![1 - current] = Allocated(@, id, size, o.type)]
    BY <1>6 DEF GCMark
  <2> DEFINE l == [o EXCEPT !.type = "left"]
             n == [id |-> id, pos |-> HeaderSize + blocks[1 - current].allocated,
                   size |-> size, type |-> o.type]
  <2>1. /\ o \in Object /\ o.size \in Nat
        /\ size \in Nat /\ size >= 5 /\ size <= o.size /\ (o.type = "userdata" => size = 5)
    BY <1>1, <1>3, <1>6, Sizes DEF IInv, LaidOut, Object, CopySizes
  <2>2. /\ IsFiniteSet(LeftWords) /\ Cardinality(LeftWords) \in Nat
        /\ Cardinality(LeftWords \cup Words(o)) = Cardinality(LeftWords) + o.size
        /\ blocks[1 - current].allocated + o.size <= BlockSize
    BY <1>3, <1>6, CopyFits
  <2>3. /\ blocks'[current] = Left(blocks[current], o)
        /\ blocks'[1 - current] = Allocated(blocks[1 - current], id, size, o.type)
        /\ blocks' \in [Blk -> {blocks'[current], blocks'[1 - current]}]
    BY <1>1, <2>0 DEF IInv, Typed
  <2>4. /\ blocks'[current] \in Block /\ LaidOut(blocks'[current]) /\ BitsSet(blocks'[current])
    BY <1>1, <1>3, <1>6, <2>3, LeftBlock DEF IInv
  <2>5. /\ blocks'[1 - current] \in Block /\ LaidOut(blocks'[1 - current])
        /\ BitsSet(blocks'[1 - current])
    <3>1. blocks[1 - current].allocated + size <= BlockSize
      BY <1>1, <2>1, <2>2, Sizes DEF Block
    <3> QED
      BY <3>1, <1>1, <1>3, <1>6, <2>1, <2>3, AllocatedBlock DEF IInv
  <2>6. /\ blocks'[current].objects = (blocks[current].objects \ {o}) \cup {l}
        /\ blocks'[1 - current].objects = blocks[1 - current].objects \cup {n}
        /\ blocks'[1 - current].allocated = blocks[1 - current].allocated + size
    BY <2>3 DEF Left, Allocated
  <2>7. /\ l.id = id /\ l.pos = o.pos /\ l.size = o.size /\ l.type = "left"
        /\ n.id = id /\ n.type = o.type /\ n.size = size
        /\ n.pos = HeaderSize + blocks[1 - current].allocated
    BY <2>1, <1>3 DEF Object
  <2> HIDE DEF l, n, o
  <2>8. Typed'
    BY <1>1, <1>2, <2>3, <2>4, <2>5 DEF IInv, Typed
  <2>9. \A b \in Blk : LaidOut(blocks'[b]) /\ BitsSet(blocks'[b])
    BY <1>1, <2>4, <2>5
  <2>10. NamesUnique'
    <3>1. \A p, q \in blocks'[current].objects : p.id = q.id => p = q
      BY <1>1, <1>3, <1>6, <2>6, <2>7 DEF IInv, NamesUnique
    <3>2. \A p, q \in blocks'[1 - current].objects : p.id = q.id => p = q
      BY <1>1, <1>3, <1>6, <2>6, <2>7 DEF IInv, NamesUnique
    <3>3. \A p \in blocks'[current].objects, q \in blocks'[1 - current].objects :
            p.id = q.id => p.type = "left"
      BY <1>1, <1>3, <1>6, <2>6, <2>7 DEF IInv, NamesUnique
    <3> QED
      BY <3>1, <3>2, <3>3, <1>1, <1>2 DEF NamesUnique
  <2>11. LeftAreCopied'
    <3>1. \A p \in blocks'[1 - current].objects : p.type # "left" /\ (InBlock(p) => Copied(p.id)')
      BY <1>1, <1>3, <1>4, <1>6, <2>6, <2>7 DEF IInv, LeftAreCopied, Object
    <3>2. \A p \in blocks'[current].objects :
            p.type = "left" => /\ Copied(p.id)' /\ InBlock(p)
                               /\ \E q \in blocks'[1 - current].objects : q.id = p.id
      BY <1>1, <1>3, <1>4, <1>6, <2>6, <2>7 DEF IInv, LeftAreCopied, Object, InBlock
    <3>3. \A p \in blocks'[current].objects : Copied(p.id)' /\ InBlock(p) => p.type = "left"
      BY <1>1, <1>3, <1>4, <2>6, <2>7 DEF IInv, LeftAreCopied, Object
    <3> QED
      BY <3>1, <3>2, <3>3, <1>2 DEF LeftAreCopied, InBlock
  <2>12. Everything' = blocks'[current].objects \cup blocks'[1 - current].objects
    BY <1>1, <1>2 DEF Everything, Blk
  <2>13. HandlesPoint'
    BY <1>1, <1>2, <1>3, <2>6, <2>7, <2>12 DEF IInv, HandlesPoint
  <2>14. NotDestructed'
    BY <1>1, <1>2, <1>3, <2>6, <2>7, <2>12 DEF IInv, NotDestructed
  <2>15. CopiesCounted'
    <3>1. Objects("left")' = Objects("left") \cup {l}
      BY <1>2, <1>3, <1>6, <2>6, <2>7 DEF Objects
    <3>2. LeftWords' = LeftWords \cup Words(o)
      <4>1. Words(l) = Words(o)
        BY <2>7 DEF Words
      <4> QED
        BY <3>1, <4>1 DEF LeftWords
    <3>3. Cardinality(LeftWords') >= blocks'[1 - current].allocated - HeaderSize
      <4>1. Cardinality(LeftWords) >= blocks[1 - current].allocated - HeaderSize
        BY DEF IInv, CopiesCounted
      <4>2. blocks[1 - current].allocated \in HeaderSize .. BlockSize
        BY <1>1 DEF Block
      <4> QED
        BY <4>1, <4>2, <3>2, <2>1, <2>2, <2>6, Sizes
    <3>4. n.pos >= 2 * HeaderSize
      BY <1>1, <2>7, Sizes DEF Block
    <3> QED
      BY <3>3, <3>4, <1>2, <1>3, <1>6, <2>6, <2>7 DEF IInv, CopiesCounted, InBlock
  <2> QED
    BY <1>2, <2>8, <2>9, <2>10, <2>11, <2>13, <2>14, <2>15 DEF IInv
<1> QED
  BY <1>5, <1>6

(* The scan destructs userdata that has not been copied, once. *)
LEMMA DestructibleDead ==
  ASSUME IInv
  PROVE  /\ \A o \in Destructible : InBlock(o) /\ o \in blocks[current].objects /\ o.type = "userdata"
         /\ \A id \in Id : Cardinality({o \in Destructible : o.id = id}) =
                             IF \E o \in Destructible : o.id = id THEN 1 ELSE 0
<1>1. /\ current \in Blk /\ blocks[current] \in Block
      /\ blocks[current].objects \subseteq Object /\ blocks[current].bitmap \subseteq Bit
  BY TwoBlocks DEF IInv, Block
<1>2. ASSUME NEW o \in Destructible
      PROVE  InBlock(o) /\ o \in blocks[current].objects /\ o.type = "userdata"
  <2>1. o \in blocks[current].objects /\ o.type = "userdata" /\ BitOf(o.pos) \in Bit
    BY <1>1, <1>2 DEF Destructible, Objects
  <2>2. o.pos \in Nat /\ o.pos \div 8 \in 0 .. BitmapBytes - 1
    BY <2>1, <1>1 DEF Object, BitOf, Bit
  <2> QED
    BY <2>1, <2>2, BitTyped, Sizes DEF InBlock
<1>3. ASSUME NEW id \in Id
      PROVE  Cardinality({o \in Destructible : o.id = id}) =
               IF \E o \in Destructible : o.id = id THEN 1 ELSE 0
  <2>1. CASE \E o \in Destructible : o.id = id
    <3>1. PICK o \in Destructible : o.id = id
      BY <2>1
    <3>2. {p \in Destructible : p.id = id} = {o}
      BY <1>1, <1>2, <3>1 DEF IInv, NamesUnique
    <3> QED
      BY <2>1, <3>2, FS_Singleton
  <2>2. CASE ~ \E o \in Destructible : o.id = id
    <3>1. {p \in Destructible : p.id = id} = {}
      BY <2>2
    <3> QED
      BY <2>2, <3>1, FS_EmptySet
  <2> QED
    BY <2>1, <2>2
<1> QED
  BY <1>2, <1>3

LEMMA GCEndKeepsInv ==
  ASSUME IInv, GCEnd
  PROVE  IInv'
<1> DEFINE kept == {o \in blocks[current].objects : ~InBlock(o)}
<1>1. /\ current \in Blk /\ 1 - current \in Blk /\ 1 - current # current
      /\ 1 - (1 - current) = current
      /\ \A b \in Blk : b = current \/ b = 1 - current
      /\ \A b \in Blk : blocks[b] \in Block /\ blocks[b].objects \subseteq Object
      /\ Everything = blocks[current].objects \cup blocks[1 - current].objects
  BY TwoBlocks DEF IInv, Blk, Typed
<1>2. /\ phase = "mark" /\ todo = {} /\ todo' = todo /\ phase' = "mutate"
      /\ current' = 1 - current /\ handles' = handles
      /\ destructed' = [id \in Id |-> destructed[id] + Cardinality({o \in Destructible : o.id = id})]
  BY DEF GCEnd
<1>3. /\ blocks'[1 - current] = blocks[1 - current]
      /\ blocks'[current] = [EmptyBlock EXCEPT !.objects = kept]
      /\ blocks' \in [Blk -> {blocks[1 - current], blocks'[current]}]
  BY <1>1 DEF GCEnd, IInv, Typed
<1>4. blocks'[current] = [allocated |-> HeaderSize, bitmap |-> {}, objects |-> kept]
  BY <1>3 DEF EmptyBlock
<1> HIDE DEF kept
<1>5. /\ blocks'[current].allocated = HeaderSize /\ blocks'[current].bitmap = {}
      /\ blocks'[current].objects = kept
  BY <1>4
<1>6. \A o \in kept : o \in blocks[current].objects /\ ~InBlock(o)
  BY DEF kept
<1>7. blocks'[current] \in Block /\ LaidOut(blocks'[current]) /\ BitsSet(blocks'[current])
  <2>1. kept \subseteq Object /\ HeaderSize \in HeaderSize .. BlockSize
    BY <1>1, <1>6, Sizes
  <2>2. blocks'[current] \in Block
    BY <2>1, <1>4 DEF Block
  <2> QED
    BY <2>2, <1>1, <1>5, <1>6 DEF IInv, LaidOut, BitsSet
<1>8. \A id \in Id : destructed'[id] = destructed[id] + IF \E o \in Destructible : o.id = id
                                                        THEN 1 ELSE 0
  BY <1>2, DestructibleDead
<1>9. Typed'
  <2>1. destructed' \in [Id -> Nat]
    <3>1. \A id \in Id : destructed'[id] \in Nat
      BY <1>8 DEF IInv, Typed
    <3> QED
      BY <3>1, <1>2
  <2> QED
    BY <2>1, <1>1, <1>2, <1>3, <1>7 DEF IInv, Typed
<1>10. \A b \in Blk : LaidOut(blocks'[b]) /\ BitsSet(blocks'[b])
  BY <1>1, <1>3, <1>7 DEF IInv
<1>11. Everything' = kept \cup blocks[1 - current].objects
  BY <1>1, <1>3, <1>5 DEF Everything, Blk
<1>12. NamesUnique'
  <2>1. \A o \in blocks[1 - current].objects, p \in kept : o.id # p.id
    BY <1>6 DEF IInv, NamesUnique, LeftAreCopied
  <2>2. \A b \in Blk : \A o, p \in blocks'[b].objects : o.id = p.id => o = p
    <3>1. \A o, p \in blocks'[current].objects : o.id = p.id => o = p
      BY <1>1, <1>5, <1>6 DEF IInv, NamesUnique
    <3>2. \A o, p \in blocks'[1 - current].objects : o.id = p.id => o = p
      BY <1>1, <1>3 DEF IInv, NamesUnique
    <3> QED
      BY <3>1, <3>2, <1>1 DEF Blk
  <2>3. \A o \in blocks'[current'].objects, p \in blocks'[1 - current'].objects :
          o.id = p.id => o.type = "left"
    BY <2>1, <1>1, <1>2, <1>3, <1>5
  <2> QED
    BY <2>2, <2>3 DEF NamesUnique
<1>13. LeftAreCopied'
  BY <1>1, <1>2, <1>3, <1>5, <1>6 DEF IInv, LeftAreCopied, InBlock, Copied
<1>14. HandlesPoint'
  <2>1. ASSUME NEW id \in handles
        PROVE  \E o \in Everything' : o.id = id
    <3>1. PICK o \in Everything : o.id = id
      BY DEF IInv, HandlesPoint
    <3>2. CASE o \in blocks[1 - current].objects
      BY <3>1, <3>2, <1>11
    <3>3. CASE o \in blocks[current].objects /\ ~InBlock(o)
      BY <3>1, <3>3, <1>11 DEF kept
    <3>4. CASE o \in blocks[current].objects /\ InBlock(o)
      <4>1. Copied(id)
        BY <1>2 DEF Copied
      <4> QED
        BY <4>1, <3>1, <3>4, <1>11 DEF IInv, LeftAreCopied
    <3> QED
      BY <3>1, <3>2, <3>3, <3>4, <1>1
  <2> QED
    BY <2>1, <1>2 DEF HandlesPoint
<1>15. NotDestructed'
  <2>1. ASSUME NEW o \in Everything'
        PROVE  /\ o \in Everything /\ o.id \in Id
               /\ ~ \E p \in Destructible : p.id = o.id
    <3>1. o \in Everything /\ o.id \in Id
      BY <1>1, <1>6, <1>11, <2>1 DEF Object
    <3>2. \A p \in Destructible : InBlock(p) /\ p \in blocks[current].objects /\ p.type = "userdata"
      BY DestructibleDead
    <3> QED
      BY <3>1, <3>2, <1>1, <1>6, <1>11, <2>1 DEF IInv, NamesUnique
  <2> QED
    BY <2>1, <1>8 DEF IInv, NotDestructed, Typed
<1>16. \A id \in Id : destructed'[id] <= 1
  <2>1. ASSUME NEW o \in Destructible
        PROVE  destructed[o.id] = 0
    BY <1>1, DestructibleDead DEF IInv, NotDestructed
  <2> QED
    BY <2>1, <1>8 DEF IInv, Typed
<1>17. CopiesCounted'
  <2>1. Objects("left")' = {}
    BY <1>2, <1>3 DEF Objects, IInv, LeftAreCopied
  <2>2. LeftWords' = {}
    BY <2>1 DEF LeftWords
  <2>3. Cardinality(LeftWords') = 0
    BY <2>2, FS_EmptySet
  <2>4. 1 - current' = current
    BY <1>1, <1>2
  <2>5. blocks'[1 - current'].allocated - HeaderSize = 0
    BY <2>4, <1>5, Sizes
  <2>6. /\ \A o \in blocks'[current'].objects : InBlock(o) => o.pos >= 2 * HeaderSize
        /\ \A o \in blocks'[1 - current'].objects : ~InBlock(o)
    BY <2>4, <1>2, <1>3, <1>5, <1>6 DEF IInv, CopiesCounted
  <2> QED
    BY <2>3, <2>5, <2>6 DEF CopiesCounted, InBlock
<1> QED
  BY <1>2, <1>9, <1>10, <1>12, <1>13, <1>14, <1>15, <1>16, <1>17 DEF IInv

LEMMA NextKeepsInv == IInv /\ [Next]_vars => IInv'
<1> SUFFICES ASSUME IInv, [Next]_vars PROVE IInv'
  OBVIOUS
<1>1. CASE UNCHANGED vars
  BY <1>1 DEF vars, IInv, Typed, NamesUnique, LeftAreCopied, Copied, HandlesPoint, NotDestructed,
     Everything, CopiesCounted, LeftWords, Objects, InBlock, LaidOut, BitsSet
<1>2. ASSUME NEW id \in Id, NewHash(id) PROVE IInv'
  BY <1>2, Sizes, NewKeepsInv DEF NewHash
<1>3. ASSUME NEW id \in Id, NewUserdata(id) PROVE IInv'
  BY <1>3, Sizes, NewKeepsInv DEF NewUserdata
<1> QED
  BY <1>1, <1>2, <1>3, DropKeepsInv, GCMarkKeepsInv, GCStartKeepsInv, GCEndKeepsInv DEF Next

LEMMA Invariance == Spec => []IInv
BY InitInv, NextKeepsInv, PTL DEF Spec

------------------------------------------------------------------------------
(* The counters, bits and headers of young_gen.c stay in range; the copies   *)
(* of a collection fit into the replacement block.                           *)
THEOREM TypeCorrect == Spec => []TypeOK
<1>1. IInv => TypeOK
  <2> SUFFICES ASSUME IInv PROVE TypeOK
    OBVIOUS
  <2>1. ASSUME NEW b \in Blk
        PROVE  /\ blocks[b].allocated \in HeaderSize .. BlockSize
               /\ \A x \in blocks[b].bitmap : x[1] < BitmapBytes /\ x[2] \in 0 .. 7
               /\ \A o \in blocks[b].objects : o.id \in Id /\ o.type \in {"table", "userdata", "left"}
    <3>1. blocks[b] \in Block
      BY DEF IInv, Typed
    <3> QED
      BY <3>1, Sizes DEF Block, Bit, Object
  <2> QED
    BY <2>1 DEF IInv, Typed, TypeOK, Blk
<1> QED
  BY <1>1, Invariance, PTL

(* The scan of _young_gen_gc_destruct_userdata finds the userdata of its     *)
(* block, although _young_gen_unset_bitmap clears other bits than were set.  *)
THEOREM BitmapIsRight == Spec => []BitmapNamesUserdata
<1>1. IInv => BitmapNamesUserdata
  BY TwoBlocks DEF IInv, BitsSet, BitmapNamesUserdata, Objects
<1> QED
  BY <1>1, Invariance, PTL

(* No collection destructs what a handle points at, or anything twice.       *)
THEOREM DestructorsRunOnce == Spec => []DestructedOnceDead
<1>1. IInv => DestructedOnceDead
  BY TwoBlocks DEF IInv, DestructedOnceDead, HandlesPoint, NotDestructed, Typed
<1> QED
  BY <1>1, Invariance, PTL

(* While no object lies past the end of its block, each collection destructs *)
(* all userdata that has no handle.                                          *)
NoneAtEnd == \A o \in blocks[current].objects : InBlock(o)
THEOREM AllDueAreDestructed == Spec /\ []NoneAtEnd => UserdataManaged
<1> DEFINE Due == phase = "mark" /\ phase' = "mutate" =>
                    \A o \in Objects("userdata") : o.id \notin handles => destructed'[o.id] = 1
<1>1. IInv /\ NoneAtEnd /\ [Next]_vars => [Due]_vars
  <2> SUFFICES ASSUME IInv, NoneAtEnd, Next, phase = "mark", phase' = "mutate",
                      NEW o \in Objects("userdata")
               PROVE  destructed'[o.id] = 1
    OBVIOUS
  <2>1. GCEnd
    BY DEF Next, NewHash, NewUserdata, New, Drop, GCMark, GCStart
  <2>2. o \in blocks[current].objects /\ o \in Everything /\ o.id \in Id
    BY TwoBlocks DEF IInv, Objects, Object
  <2>3. o \in Destructible
    BY <2>2, TwoBlocks DEF IInv, BitsSet, Destructible, Objects, NoneAtEnd
  <2>4. destructed[o.id] = 0
    BY <2>2 DEF IInv, NotDestructed
  <2>5. Cardinality({p \in Destructible : p.id = o.id}) = 1
    BY <2>2, <2>3, DestructibleDead
  <2> QED
    BY <2>1, <2>2, <2>4, <2>5 DEF GCEnd
<1> QED
  BY <1>1, Invariance, PTL DEF Spec, UserdataManaged
==============================================================================
