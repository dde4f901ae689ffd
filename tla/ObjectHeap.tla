------------------------------ MODULE ObjectHeap ------------------------------
(***************************************************************************)
(* The objects of the virtual machine (cvm.c) and the copying collector    *)
(* that moves them (young_gen.c).  Registers and fields hold raw pointers. *)
(* A table that grows is replaced by a larger one and leaves a REDIRECT    *)
(* header behind; a collection copies what the roots reach to the other    *)
(* block and leaves GC_LEFT headers behind, one marked cell per step.      *)
(* The program is any sequence of instructions.  A definition named Bad... *)
(* is a mistake in the one after it that a property rules out.             *)
(***************************************************************************)
EXTENDS Frames

CONSTANTS Programs,     \* the programs that are run, each on a machine as small as it needs
          MaxFields,    \* bound on the fields that are set in the block in use
          StaleFields,  \* FALSE: only programs where no pointer but a register's gets to a REDIRECT
          CollectPastEnd  \* FALSE: only runs whose collections come to no object past the block's end

(* instructions: what the programs are made of.                             *)
(* growAt:       12, the live fields HASH_MIN_CAPACITY slots hold before growing. *)
(* shrinkBelow:  8, those of a larger table, below which a collection halves it.  *)
(* blockSize:    the words a block hands out; a table takes 1 and 1 per HASH_MIN_CAPACITY slots. *)
(* header:       sizeof(YoungGenBlock) in these words.  allocated counts it and the address *)
(*               counts it again: the last words a block hands out lie past its end. *)
(* objects, frames: bounds on the objects of scripts in the block in use, and on *)
(*               the frames of all scenes.                                  *)
Kinds == {"load", "move", "integer", "object", "closure", "set", "get", "call", "import", "foreach"}
ASSUME HeapAssumption ==
  /\ Programs \subseteq [instructions : SUBSET Kinds, growAt : Nat \ {0}, shrinkBelow : Nat \ {0},
                         blockSize : Nat \ (0 .. 3), header : Nat, objects : Nat, frames : Nat]
  /\ \A p \in Programs : p.header + 2 < p.blockSize
  /\ MaxFields \in Nat
  /\ StaleFields \in BOOLEAN
  /\ CollectPastEnd \in BOOLEAN

VARIABLES heap,     \* the objects of the two blocks, in allocation order
          used,     \* their allocated counters, without the header
          inside,   \* how many of their objects begin before the end of the block
          current,  \* the block objects are allocated in
          global,   \* vm->global
          scenes,   \* vm->scenes, the top first: the frames of one run and its external array
          pc,       \* "run", "native", "alloc" (an allocation is pending), "gc", "oom"
          pending,  \* the allocation, and what is done with it
          todo,     \* the cells young_gen_gc_mark has yet to be called on
          native,   \* the C function that runs (Callbacks); NoCall here
          program   \* the one of Programs that is run

heapVars == <<heap, used, inside, current>>
vars == <<heap, used, inside, current, global, scenes, pc, pending, todo, native, program>>

------------------------------------------------------------------------------
Uses(kind) == kind \in program.instructions
BlockSize == program.blockSize
BlockEnd == BlockSize - program.header

(* Pointers are <<block, index>>. *)
IsPtr(v) == Len(v) = 2
Address == {0, 1} \X (1 .. BlockSize)
Value == {Undefined, Zero} \cup Address

(* Objects.  "object" is HT_OBJECT and HT_ARRAY; fwd is what size holds in  *)
(* a REDIRECT or GC_LEFT header.  id is history: the identity that Machine  *)
(* knows the object by, which a header left behind keeps; a table that no   *)
(* script ever sees has none.                                               *)
NewObject(type, cap, fields, id) ==
  [type |-> type, cap |-> cap, fields |-> fields, fwd |-> Undefined, id |-> id]
NoId == Undefined

Obj(p) == heap[p[1]][p[2]]
IsAddress(p) == p[1] \in {0, 1} /\ p[2] \in 1 .. Len(heap[p[1]])
Allotted == {p \in Address : IsAddress(p)}

(* The loops that follow REDIRECT headers. *)
Resolve(p) ==
  LET target[q \in Allotted] ==
        IF Obj(q).type = "redirect" THEN target[Obj(q).fwd] ELSE q
  IN  target[p]

Count(o) == Cardinality(DOMAIN o.fields)
NeedExpand(o) == Count(o) > program.growAt * o.cap
NeedShrink(o) == o.cap > 1 /\ Count(o) < program.shrinkBelow * o.cap

------------------------------------------------------------------------------
(* Frames and registers. *)
Scene == Head(scenes)
Frame == Head(Scene.frames)
Regs == Frame.regs

WithRegs(regs) == [scenes EXCEPT ![1].frames[1].regs = regs]
SetReg(r, v) == scenes' = WithRegs([Regs EXCEPT ![r] = v])

AllFrames == UNION {{s} \X DOMAIN scenes[s].frames : s \in DOMAIN scenes}
MayPush == Cardinality(AllFrames) < program.frames
Registers == {<<x[1], x[2], r>> : x \in AllFrames, r \in Reg}

(* The pointers of the roots, of an object, and of the roots and one block. *)
Roots ==
  {global} \cup {scenes[s].external : s \in 1 .. Len(scenes)}
  \cup {v \in {scenes[x[1]].frames[x[2]].regs[x[3]] : x \in Registers} : IsPtr(v)}
Targets(p) ==
  LET o == Obj(p) IN
  {v \in {o.fields[k] : k \in DOMAIN o.fields} \cup {o.fwd} : IsPtr(v)}
Pointers(b) == Roots \cup UNION {Targets(<<b, i>>) : i \in 1 .. Len(heap[b])}

------------------------------------------------------------------------------
(* What the heap stands for in Machine.  Every header on the way from a     *)
(* pointer to its table has the identity of the table.                      *)
Denote(p) ==
  LET at[q \in Allotted] == IF Obj(q).type \in {"redirect", "left"} THEN at[Obj(q).fwd] ELSE q
  IN  at[p]
Identified(v) == IF IsPtr(v) THEN Obj(v).id ELSE v
IdentifiedIn(call) ==
  [call EXCEPT !.array = Identified(@), !.callback = Identified(@)]

(* The tables that scripts, and C functions that run scripts, get at.  (The *)
(* unions over a set of one have TLC evaluate its element once.)            *)
Waiting == {native} \cup {scenes[s].caller : s \in 1 .. Len(scenes)}
Visible ==
  LET roots == {global} \cup (UNION {{c.array, c.callback} : c \in Waiting})
                 \cup {scenes[x[1]].frames[x[2]].regs[x[3]] : x \in Registers}
      Tables(values) == {Denote(v) : v \in {w \in values : IsPtr(w)}}
      upTo[n \in 0 .. BlockSize \div 2] ==
        IF n = 0 THEN Tables(roots)
        ELSE UNION {near \cup UNION {Tables(Range(Obj(p).fields)) : p \in near} : near \in {upTo[n - 1]}}
  IN  upTo[BlockSize \div 2]
MachineObjects(visible) ==
  [i \in {Obj(p).id : p \in visible} |->
     LET o == Obj(CHOOSE p \in visible : Obj(p).id = i)
     IN  [type |-> o.type, fields |-> [k \in DOMAIN o.fields |-> Identified(o.fields[k])]]]
MachineFrame(f) == [f EXCEPT !.regs = [r \in Reg |-> Identified(@[r])]]
MachineScene(s) ==
  [frames |-> [f \in 1 .. Len(s.frames) |-> MachineFrame(s.frames[f])],
   caller |-> IdentifiedIn(s.caller)]
MachineWith(visible) ==
  [objects |-> MachineObjects(visible), global |-> Identified(global),
   scenes |-> [s \in 1 .. Len(scenes) |-> MachineScene(scenes[s])],
   native |-> IdentifiedIn(native)]
MachineState == CHOOSE m \in {MachineWith(visible) : visible \in {Visible}} : TRUE

(* A new object gets the first identity that is free.                       *)
Ids == UNION {{<<i>> : i \in 1 .. p.blockSize} : p \in Programs}
M == INSTANCE Machine WITH machine <- MachineState, Identity <- Ids
NewId ==
  LET taken == {Obj(p).id : p \in Visible}
  IN  CHOOSE i \in Ids : i \notin taken /\ \A j \in Ids : j[1] < i[1] => j \in taken

------------------------------------------------------------------------------
(* Allocation.  An instruction that allocates issues its request; the block *)
(* being full, a collection runs and the request is tried once more.        *)
Request(op, type, cap, reg, captured) ==
  [op |-> op, type |-> type, cap |-> cap, reg |-> reg, captured |-> captured,
   args |-> Undefined, retry |-> FALSE]
NoRequest == Request("none", "none", 0, 1, NoFields)
BadFits(cap) == used[current] + cap <= BlockSize   \* the header forgotten
Fits(cap) == used[current] + 1 + cap <= BlockSize
Fresh == <<current, Len(heap[current]) + 1>>

Issue(request) == pc' = "alloc" /\ pending' = request

(* The heap with a new object, and the object at p changed; the words it takes. *)
Allocated(o, p, changed) == [[heap EXCEPT ![current] = Append(@, o)] EXCEPT ![p[1]][p[2]] = changed]
(* In block b; the object is the last of allocations in order, so those past the end are too. *)
TakenIn(b, cap) ==
  /\ used' = [used EXCEPT ![b] = @ + 1 + cap]
  /\ inside' = [inside EXCEPT ![b] = IF used[b] < BlockEnd THEN Len(heap[b]) + 1 ELSE @]
Taken(cap) == TakenIn(current, cap)
AllocateAndSet(o, p, changed) == heap' = Allocated(o, p, changed) /\ Taken(o.cap)
Allocate(o) == AllocateAndSet(o, Fresh, o)
Served == pc' = "run" /\ pending' = NoRequest /\ UNCHANGED <<current, global, todo, native, program>>

(* The cells cvm_young_gc marks, in its order. *)
RegCells(s, f) == [i \in Reg |-> <<"reg", s, f, i>>]
(* The external array forgotten. *)
BadSceneCells(s) ==
  LET cells[f \in 0 .. Len(scenes[s].frames)] ==
        IF f = 0 THEN <<>> ELSE cells[f - 1] \o RegCells(s, f)
  IN  cells[Len(scenes[s].frames)]
SceneCells(s) ==
  LET cells[f \in 0 .. Len(scenes[s].frames)] ==
        IF f = 0 THEN << <<"external", s>> >> ELSE cells[f - 1] \o RegCells(s, f)
  IN  cells[Len(scenes[s].frames)]
RootCells ==
  LET cells[s \in 0 .. Len(scenes)] ==
        IF s = 0 THEN << <<"global">> >> ELSE cells[s - 1] \o SceneCells(s)
  IN  cells[Len(scenes)]

StartGC ==
  /\ pc = "alloc" /\ ~Fits(pending.cap)
  /\ ~pending.retry
  /\ pc' = "gc"
  /\ pending' = [pending EXCEPT !.retry = TRUE]
  /\ todo' = RootCells
  /\ heap' = [heap EXCEPT ![1 - current] = <<>>]
  /\ UNCHANGED <<used, inside, current, global, scenes, native, program>>

(* error_f traps. *)
OutOfMemory ==
  /\ pc = "alloc" /\ ~Fits(pending.cap) /\ pending.retry
  /\ pc' = "oom"
  /\ UNCHANGED <<heapVars, global, scenes, pending, todo, native, program>>

------------------------------------------------------------------------------
(* young_gen_gc_mark on one cell.  A register follows REDIRECT headers      *)
(* first; a field does so only to find a forwarded object behind them; the  *)
(* other roots do not.                                                      *)
Read(c) ==
  CASE c[1] = "global" -> global
    [] c[1] = "external" -> scenes[c[2]].external
    [] c[1] = "reg" -> scenes[c[2]].frames[c[3]].regs[c[4]]
    [] c[1] = "field" -> Obj(c[2]).fields[c[3]]

Subject(c) ==
  LET v == Read(c) IN
  IF c[1] = "reg" \/ (c[1] = "field" /\ Obj(Resolve(v)).type = "left") THEN Resolve(v) ELSE v

(* The assignment to the cell; h is the heap it is made in. *)
BadWriteCell(c, v, h) ==   \* a register not written back
  /\ global' = IF c[1] = "global" THEN v ELSE global
  /\ scenes' = IF c[1] = "external" THEN [scenes EXCEPT ![c[2]].external = v] ELSE scenes
  /\ heap' = IF c[1] = "field" THEN [h EXCEPT ![c[2][1]][c[2][2]].fields[c[3]] = v] ELSE h
WriteCell(c, v, h) ==
  /\ global' = IF c[1] = "global" THEN v ELSE global
  /\ scenes' = CASE c[1] = "external" -> [scenes EXCEPT ![c[2]].external = v]
                 [] c[1] = "reg" -> [scenes EXCEPT ![c[2]].frames[c[3]].regs[c[4]] = v]
                 [] OTHER -> scenes
  /\ heap' = IF c[1] = "field" THEN [h EXCEPT ![c[2][1]][c[2][2]].fields[c[3]] = v] ELSE h

(* hash_for_each over a copy: its cells in some order, here that of keys.   *)
FieldCells(p, o) ==
  LET ordered == {k \in DOMAIN o.fields : IsPtr(o.fields[k])}
      nth[n \in 1 .. Cardinality(ordered)] ==
        CHOOSE k \in ordered : Cardinality({j \in ordered : j < k}) = n - 1
  IN  [n \in 1 .. Cardinality(ordered) |-> <<"field", p, nth[n]>>]

Forwarded(c) ==
  LET p == Subject(c) IN
  /\ WriteCell(c, IF Obj(p).type = "left" THEN Obj(p).fwd ELSE p, heap)
  /\ todo' = Tail(todo)
  /\ UNCHANGED <<used, inside>>

(* The copy takes the place of the object; its children are marked next,    *)
(* before the other cells.                                                  *)
Moved(c) ==
  LET p    == Subject(c)
      o    == Obj(p)
      copy == IF NeedShrink(o) THEN [o EXCEPT !.cap = @ \div 2] ELSE o
      to   == 1 - current
      q    == <<to, Len(heap[to]) + 1>>
  IN  /\ WriteCell(c, q, [heap EXCEPT ![to] = Append(@, copy),
                                      ![current][p[2]].type = "left",
                                      ![current][p[2]].cap = 0,
                                      ![current][p[2]].fwd = q])
      /\ TakenIn(to, copy.cap)
      /\ todo' = FieldCells(q, copy) \o Tail(todo)

(* Only what begins in the block is taken for an object of it: one past its *)
(* end stays where it is, and its fields are not marked.                    *)
PastEnd(p) == p[1] = current /\ p[2] > inside[current]

(* The test for HT_GC_LEFT forgotten. *)
BadMark ==
  /\ pc = "gc" /\ todo # <<>>
  /\ LET c == Head(todo) IN
       IF ~IsPtr(Read(c)) THEN todo' = Tail(todo) /\ UNCHANGED <<heap, used, inside, global, scenes>>
       ELSE IF Subject(c)[1] # current THEN Forwarded(c)
       ELSE IF PastEnd(Subject(c)) THEN CollectPastEnd /\ Forwarded(c)
       ELSE Moved(c)
  /\ UNCHANGED <<current, pc, pending, native, program>>

Mark ==
  /\ pc = "gc" /\ todo # <<>>
  /\ LET c == Head(todo) IN
       IF ~IsPtr(Read(c)) THEN todo' = Tail(todo) /\ UNCHANGED <<heap, used, inside, global, scenes>>
       ELSE IF Obj(Subject(c)).type = "left" \/ Subject(c)[1] # current THEN Forwarded(c)
       ELSE IF PastEnd(Subject(c)) THEN CollectPastEnd /\ Forwarded(c)
       ELSE Moved(c)
  /\ UNCHANGED <<current, pc, pending, native, program>>

(* young_gen_gc_end: the blocks are swapped.  The contents of the old one   *)
(* stay in memory; the model forgets them once nothing points into them, or *)
(* else when the next collection begins to overwrite them.                  *)
EndGC ==
  /\ pc = "gc" /\ todo = <<>>
  /\ current' = 1 - current
  /\ used' = [used EXCEPT ![current] = 0]
  /\ inside' = [inside EXCEPT ![current] = 0]
  /\ heap' = IF \E p \in Pointers(1 - current) : p[1] = current THEN heap ELSE [heap EXCEPT ![current] = <<>>]
  /\ pc' = "alloc"
  /\ UNCHANGED <<global, scenes, pending, todo, native, program>>

------------------------------------------------------------------------------
(* Instructions, on operands of the types they are for.  Fields of a        *)
(* closure are left alone: its table has no slot to spare for them.         *)
Running == pc = "run"
Quiet == UNCHANGED <<heapVars, global, pc, pending, todo, native, program>>

Holds(r, types) == IsPtr(Regs[r]) /\ Obj(Resolve(Regs[r])).type \in types

(* I_UNDEFINED and I_NULL, and with r = 0 whatever computes an integer. *)
Load(d) == Running /\ SetReg(d, Undefined) /\ Quiet

Move(d, r) == Running /\ SetReg(d, Operand(Regs, r)) /\ Quiet

(* Without StaleFields, a program never stores a pointer to a REDIRECT, and *)
(* the tables it lets grow are held by registers alone.                     *)
Storable(v) == ~StaleFields /\ IsPtr(v) => Obj(v).type # "redirect"
HeldByRegistersOnly(p) ==
  p # global /\ \A i \in 1 .. Len(heap[current]) : p \notin Targets(<<current, i>>)

ObjectNr == Cardinality({i \in DOMAIN heap[current] : heap[current][i].id # NoId})

(* I_NEW_OBJ, I_NEW_ARR and I_NEW_CLS.  A closure captures a register for  *)
(* each register in the domain of captured, once it is itself in register d. *)
New(d, type, captured) ==
  /\ Running /\ ObjectNr < program.objects
  /\ \A r \in DOMAIN captured : Storable(Regs[captured[r]])
  /\ Issue(Request("new", type, 1, d, captured))
  /\ UNCHANGED <<heapVars, global, scenes, todo, native, program>>

NewServed ==
  /\ pc = "alloc" /\ pending.op = "new" /\ Fits(pending.cap)
  /\ LET regs == [Regs EXCEPT ![pending.reg] = Fresh]
         source == pending.captured
         held == {r \in DOMAIN source : regs[source[r]] # Undefined}
     IN  /\ Allocate(NewObject(pending.type, 1, [r \in held |-> regs[source[r]]], NewId))
         /\ scenes' = WithRegs(regs)
  /\ Served

(* I_SET_OBJ, _cvm_set_hash_in_register: the register is made to point at   *)
(* the table itself, and the table grows when it is full.                   *)
FieldNr ==
  Cardinality(UNION {{<<i, k>> : k \in DOMAIN heap[current][i].fields} : i \in 1 .. Len(heap[current])})

SetObj(r, k, s) ==
  /\ Running /\ Holds(r, {"object"})
  /\ LET p == Resolve(Regs[r])
         o == [Obj(p) EXCEPT !.fields = Put(@, k, Operand(Regs, s))]
     IN  /\ k \in DOMAIN Obj(p).fields \cup IF FieldNr < MaxFields THEN Key ELSE {}
         /\ Storable(Operand(Regs, s))
         /\ NeedExpand(o) /\ ~StaleFields => HeldByRegistersOnly(p) /\ Operand(Regs, s) # p
         /\ SetReg(r, p)
         /\ heap' = [heap EXCEPT ![p[1]][p[2]] = o]
         /\ IF NeedExpand(o) THEN Issue(Request("grow", o.type, 2 * o.cap, r, NoFields))
            ELSE UNCHANGED <<pc, pending>>
  /\ UNCHANGED <<used, inside, current, global, todo, native, program>>

(* No REDIRECT left for the other pointers to the table. *)
BadGrowServed ==
  /\ pc = "alloc" /\ pending.op = "grow" /\ Fits(pending.cap)
  /\ LET o == Obj(Resolve(Regs[pending.reg]))
     IN  Allocate(NewObject(pending.type, pending.cap, o.fields, o.id))
  /\ SetReg(pending.reg, Fresh)
  /\ Served

GrowServed ==
  /\ pc = "alloc" /\ pending.op = "grow" /\ Fits(pending.cap)
  /\ LET p == Resolve(Regs[pending.reg])
         o == Obj(p)
     IN  /\ AllocateAndSet(NewObject(pending.type, pending.cap, o.fields, o.id), p,
                           [NewObject("redirect", 0, NoFields, o.id) EXCEPT !.fwd = Fresh])
         /\ SetReg(pending.reg, p)
  /\ Served

GetObj(d, r, k) ==
  /\ Running /\ Holds(r, {"object"})
  /\ LET p == Resolve(Regs[r])
     IN  scenes' = WithRegs([Regs EXCEPT ![r] = p, ![d] = Get(Obj(p), k)])
  /\ Quiet

(* I_CALL of a closure and I_RET to it. *)
Call(d, f, a) ==
  /\ Running /\ Holds(f, {"closure"}) /\ Holds(a, {"object"})
  /\ MayPush
  /\ LET func == Resolve(Regs[f])
         args == Resolve(Regs[a])
         caller == WithRegs([Regs EXCEPT ![f] = func, ![a] = args])
         frame  == NewFrame(Obj(func), Obj(args), d)
     IN  scenes' = [caller EXCEPT ![1].frames = <<frame>> \o @]
  /\ Quiet

Return(r) ==
  /\ Running /\ Len(Scene.frames) > 1
  /\ scenes' = [scenes EXCEPT ![1].frames =
                 [Tail(@) EXCEPT ![1].regs[Frame.rd] = Regs[r]]]
  /\ Quiet

------------------------------------------------------------------------------
(* cvm_state_new: the global object, the external array of the scene, and a *)
(* frame whose register 1 is the global object.                             *)
Init ==
  /\ heap = [b \in {0, 1} |-> IF b = 0 THEN <<NewObject("object", 1, NoFields, <<1>>),
                                              NewObject("object", 1, NoFields, NoId)>> ELSE <<>>]
  /\ used = [b \in {0, 1} |-> IF b = 0 THEN 4 ELSE 0]
  /\ inside = [b \in {0, 1} |-> IF b = 0 THEN 2 ELSE 0]
  /\ current = 0
  /\ global = <<0, 1>>
  /\ scenes = << [external |-> <<0, 2>>,
                  frames |-> <<MainFrame(<<0, 1>>)>>,
                  caller |-> NoCall] >>
  /\ pc = "run" /\ pending = NoRequest
  /\ todo = <<>> /\ native = NoCall /\ program \in Programs

Collector == StartGC \/ Mark \/ EndGC
Allocator == NewServed \/ GrowServed \/ OutOfMemory

Operands == Reg \cup IF Uses("integer") THEN {0} ELSE {}
Instruction ==
  \E d \in Reg :
    \/ Uses("load") /\ Load(d)
    \/ Uses("object") /\ New(d, "object", NoFields)
    \/ \E s \in Operands :
         \/ Uses("move") /\ Move(d, s)
         \/ \E k \in Key : Uses("set") /\ SetObj(d, k, s)
    \/ \E r \in Reg :
         \/ \E c \in Reg : Uses("closure") /\ New(d, "closure", [x \in {c} |-> r])
         \/ \E k \in Key : Uses("get") /\ GetObj(d, r, k)
         \/ \E a \in Reg : Uses("call") /\ Call(d, r, a)
         \/ Uses("call") /\ Return(r)

Next == Collector \/ Allocator \/ Instruction
Spec == Init /\ [][Next]_vars

------------------------------------------------------------------------------
IsObject(o) ==
  /\ o.type \in {"object", "closure", "redirect", "left"}
  /\ o.cap \in 0 .. BlockSize
  /\ DOMAIN o.fields \subseteq Nat
  /\ \A k \in DOMAIN o.fields : o.fields[k] \in Value \ {Undefined}
  /\ o.fwd \in Address \cup {Undefined}
  /\ Len(o.id) <= 1

TypeOK ==
  /\ DOMAIN heap = {0, 1}
  /\ \A b \in {0, 1} : \A i \in 1 .. Len(heap[b]) : IsObject(heap[b][i])
  /\ used \in [{0, 1} -> 0 .. BlockSize]
  /\ current \in {0, 1}
  /\ global \in Address
  /\ \A s \in 1 .. Len(scenes) :
       /\ scenes[s].external \in Address
       /\ scenes[s].frames # <<>>
       /\ \A f \in 1 .. Len(scenes[s].frames) :
            scenes[s].frames[f] \in [regs : [Reg -> Value], rd : Reg]
  /\ pc \in {"run", "native", "alloc", "gc", "oom"}
  /\ pending.op \in {"none", "new", "grow", "import", "cb_arg", "external", "scene"}

(* Outside a collection every pointer of a root or of an object is into the *)
(* block in use, to an object of it: none into the block the next           *)
(* collection overwrites, none to a header a collection left behind.        *)
NoDangling ==
  pc \in {"run", "alloc"} =>
    \A p \in Pointers(current) : p[1] = current /\ IsAddress(p) /\ Obj(p).type # "left"

(* Copying needs no more room than the originals had, so the allocations of *)
(* young_gen_gc_mark, which are not checked, never fail.                    *)
ReplacementFits == pc = "gc" => used[1 - current] <= used[current]

(* No object is copied twice and every forwarding address is a copy's.      *)
ForwardingInjective ==
  pc = "gc" =>
    LET left == {i \in 1 .. Len(heap[current]) : heap[current][i].type = "left"} IN
    /\ Cardinality(left) = Len(heap[1 - current])
    /\ {heap[current][i].fwd : i \in left} =
         {1 - current} \X (1 .. Len(heap[1 - current]))

(* The machine keeps its promises: a program finds in its registers and     *)
(* fields what Machine says, whatever grows, moves or is collected on the   *)
(* way (GrowServed and the whole collector change nothing there).           *)
ImplementsMachine == M!Spec

(* A collection copies no garbage: what it copied a root or an earlier copy *)
(* points to.                                                               *)
CopiesReached ==
  pc = "gc" =>
    \A i \in 1 .. Len(heap[1 - current]) :
      LET q == <<1 - current, i>> IN
      q \in Roots \/ \E j \in 1 .. i - 1 : q \in Targets(<<1 - current, j>>)

(* typeof and sizeof (libs.c) follow the REDIRECT headers of the value they *)
(* get and assert that no GC_LEFT header is behind them.                    *)
TypeofFindsNoForwarding ==
  pc = "run" =>
    \A r \in Reg : IsPtr(Regs[r]) => Obj(Resolve(Regs[r])).type # "left"
==============================================================================
