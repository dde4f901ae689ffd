-------------------------------- MODULE Machine --------------------------------
(***************************************************************************)
(* What the virtual machine promises to the scripts it runs.  An object has *)
(* an identity and no address, a table holds any number of fields, memory   *)
(* does not end, and what no path leads to is gone.  A scene is one run of  *)
(* cvm_state_run: a C function that calls a script has it run in a scene of *)
(* its own, and goes on when the scene is left.                             *)
(*                                                                         *)
(* The state is one record.  Each operation relates m, the machine before   *)
(* it, and n, the machine after it.                                         *)
(***************************************************************************)
EXTENDS Frames

CONSTANT Identity    \* the identities of objects

VARIABLE machine
(* objects: what the program can reach.                                     *)
(* global:  the global object.                                              *)
(* scenes:  the runs, from the innermost: their frames and the call they    *)
(*          serve.                                                          *)
(* native:  the C function that has control; NoCall: a script has.          *)

Regs(m) == m.scenes[1].frames[1].regs
WithRegs(m, regs) == [m.scenes EXCEPT ![1].frames[1].regs = regs]
SetReg(m, r, v) == WithRegs(m, [Regs(m) EXCEPT ![r] = v])
Frames(m) == UNION {Range(m.scenes[s].frames) : s \in DOMAIN m.scenes}
Calls(m) == {m.native} \cup {m.scenes[s].caller : s \in DOMAIN m.scenes}

Roots(m) ==
  {m.global} \cup (UNION {Range(f.regs) : f \in Frames(m)})
  \cup UNION {{c.array, c.callback} : c \in Calls(m)}
Reachable(m) ==
  LET upTo[n \in 0 .. Cardinality(DOMAIN m.objects)] ==
        IF n = 0 THEN Roots(m) \cap DOMAIN m.objects
        ELSE UNION {near \cup ((UNION {Range(m.objects[i].fields) : i \in near}) \cap DOMAIN m.objects) :
                      near \in {upTo[n - 1]}}
  IN  upTo[Cardinality(DOMAIN m.objects)]
Collected(m) == [m EXCEPT !.objects = [i \in Reachable(m) |-> @[i]]]

Changed(m, n, scenes, native, objects) ==
  /\ n.scenes = scenes /\ n.native = native
  /\ n = Collected([m EXCEPT !.scenes = scenes, !.native = native, !.objects = objects])
Step(m, n, scenes, objects) == m.native = NoCall /\ Changed(m, n, scenes, NoCall, objects)

Is(m, v, type) == v \in DOMAIN m.objects /\ m.objects[v].type = type

------------------------------------------------------------------------------
(* The instructions. *)
Load(m, n, d) == Step(m, n, SetReg(m, d, Undefined), m.objects)
Move(m, n, d, r) == Step(m, n, SetReg(m, d, Operand(Regs(m), r)), m.objects)

(* A closure has a field for each register it captures. *)
NewClosureOf(regs, captured) ==
  [r \in {x \in DOMAIN captured : regs[captured[x]] # Undefined} |-> regs[captured[r]]]
New(m, n, d, type, captured) ==
  LET i == Regs(n)[d]
      regs == [Regs(m) EXCEPT ![d] = i]
      new == [type |-> type, fields |-> NewClosureOf(regs, captured)]
  IN  /\ i \in Identity \ DOMAIN m.objects
      /\ Step(m, n, WithRegs(m, regs),
              [j \in DOMAIN m.objects \cup {i} |-> IF j = i THEN new ELSE m.objects[j]])

SetObj(m, n, r, k, s) ==
  /\ Is(m, Regs(m)[r], "object")
  /\ Step(m, n, m.scenes,
          [m.objects EXCEPT ![Regs(m)[r]].fields = Put(@, k, Operand(Regs(m), s))])

GetObj(m, n, d, r, k) ==
  /\ Is(m, Regs(m)[r], "object")
  /\ Step(m, n, SetReg(m, d, Get(m.objects[Regs(m)[r]], k)), m.objects)

Call(m, n, d, f, a) ==
  /\ Is(m, Regs(m)[f], "closure") /\ Is(m, Regs(m)[a], "object")
  /\ LET frame == NewFrame(m.objects[Regs(m)[f]], m.objects[Regs(m)[a]], d)
     IN  Step(m, n, [m.scenes EXCEPT ![1].frames = <<frame>> \o @], m.objects)

Return(m, n, r) ==
  LET frames == m.scenes[1].frames
      left == [Tail(frames) EXCEPT ![1].regs[Head(frames).rd] = Regs(m)[r]]
  IN  Len(frames) > 1 /\ Step(m, n, [m.scenes EXCEPT ![1].frames = left], m.objects)

------------------------------------------------------------------------------
(* Calls from C.  A script that is imported runs in a frame of its own, and *)
(* what it returns is the result.                                           *)
Entered(m, frame, caller) == <<[frames |-> <<frame>>, caller |-> caller]>> \o m.scenes
Import(m, n, d) ==
  Step(m, n, Entered(m, MainFrame(m.global), [NoCall EXCEPT !.fn = "import", !.rd = d]),
       m.objects)

(* foreach calls the callback once for each element of the array, with the  *)
(* global object and the element, in order.                                 *)
ForeachCall(m, n, d, a) ==
  /\ m.native = NoCall /\ Is(m, Regs(m)[a], "object")
  /\ LET args == m.objects[Regs(m)[a]]
         call == [fn |-> "foreach", rd |-> d, array |-> Get(args, ArrayArgument),
                  callback |-> Get(args, CallbackArgument), done |-> 0]
     IN  /\ Is(m, call.array, "object") /\ Is(m, call.callback, "closure")
         /\ Changed(m, n, m.scenes, call, m.objects)

Elements(m) == m.objects[m.native.array]
ForeachNext(m, n) ==
  /\ m.native.fn = "foreach" /\ m.native.done < Cardinality(DOMAIN Elements(m).fields)
  /\ LET args == [fields |-> CallbackArguments(m.global, Get(Elements(m), m.native.done))]
         frame == NewFrame(m.objects[m.native.callback], args, 1)
     IN  Changed(m, n, Entered(m, frame, [m.native EXCEPT !.done = @ + 1]), NoCall, m.objects)

ForeachDone(m, n) ==
  /\ m.native.fn = "foreach" /\ m.native.done >= Cardinality(DOMAIN Elements(m).fields)
  /\ Changed(m, n, SetReg(m, m.native.rd, Undefined), NoCall, m.objects)

(* A run ends with the return of its last frame, or anywhere with halt.     *)
Leave(m, n, v) ==
  LET caller == m.scenes[1].caller IN
  /\ m.native = NoCall /\ Len(m.scenes) > 1
  /\ v = Undefined \/ Len(m.scenes[1].frames) = 1
  /\ \/ /\ caller.fn = "import"
        /\ Changed(m, n, [Tail(m.scenes) EXCEPT ![1].frames[1].regs[caller.rd] = v], NoCall, m.objects)
     \/ /\ caller.fn = "foreach"
        /\ Changed(m, n, Tail(m.scenes), caller, m.objects)

------------------------------------------------------------------------------
Initial(m) ==
  /\ m.global \in Identity
  /\ m = [global |-> m.global,
          objects |-> [i \in {m.global} |-> [type |-> "object", fields |-> NoFields]],
          scenes |-> <<[frames |-> <<MainFrame(m.global)>>, caller |-> NoCall]>>,
          native |-> NoCall]

Instruction(m, n) ==
  \E d \in Reg :
    \/ Load(m, n, d)
    \/ New(m, n, d, "object", NoFields)
    \/ \E r \in 0 .. RegisterNr : Move(m, n, d, r)
    \/ \E s \in 0 .. RegisterNr, k \in Key : SetObj(m, n, d, k, s)
    \/ \E r \in Reg :
         \/ \E c \in Reg : New(m, n, d, "closure", [x \in {c} |-> r])
         \/ Return(m, n, r)
         \/ \E k \in Key : GetObj(m, n, d, r, k)
         \/ \E a \in Reg : Call(m, n, d, r, a)
FromC(m, n) ==
  \/ \E d \in Reg : Import(m, n, d) \/ \E a \in Reg : ForeachCall(m, n, d, a)
  \/ ForeachNext(m, n) \/ ForeachDone(m, n)
  \/ \E v \in {Undefined} \cup Range(Regs(m)) : Leave(m, n, v)
Next(m, n) == Instruction(m, n) \/ FromC(m, n)

Spec == Initial(machine) /\ [][\E m \in {machine}, n \in {machine'} : n = m \/ Next(m, n)]_machine
==============================================================================
