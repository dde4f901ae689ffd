------------------------------- MODULE Callbacks -------------------------------
(***************************************************************************)
(* Scripts that call C functions that run scripts (libs.c, cvm.c): import  *)
(* runs another script and foreach a closure for every element of an array.*)
(* Each run is a scene of its own on vm->scenes, with its frames and an    *)
(* external array that keeps what C code creates.  A C function remembers  *)
(* tables by raw pointers in its local variables, and these are no roots   *)
(* of the collector: native and the callers of the scenes, and the args of *)
(* a pending allocation.  The light functions themselves are left out: what *)
(* register holds foreach or import changes nothing here.                   *)
(***************************************************************************)
EXTENDS ObjectHeap

CONSTANT CollectInForeach   \* FALSE: only runs without a collection while a foreach is running

(* The two elements that foreach gives its callback never outgrow a table.  *)
ASSUME CallbacksAssumption ==
  /\ CollectInForeach \in BOOLEAN
  /\ \A p \in Programs : "foreach" \in p.instructions => p.growAt >= 2

NewTable(cap, fields) == NewObject("object", cap, fields, NoId)

------------------------------------------------------------------------------
(* _cvm_push_scene.  The external array is allocated before the scene is    *)
(* linked: a collection sees the scenes below it only.                      *)
RequestScene(op, reg, args) == [Request(op, "object", 1, reg, NoFields) EXCEPT !.args = args]
PushScene(frame, caller) ==
  /\ Allocate(NewTable(1, NoFields))
  /\ scenes' = <<[external |-> Fresh, frames |-> <<frame>>, caller |-> caller]>> \o scenes
  /\ pc' = "run" /\ pending' = NoRequest /\ native' = NoCall
  /\ UNCHANGED <<current, global, todo, program>>

(* _lib_import: the main function of the other script gets a frame like     *)
(* that of the first one.                                                   *)
Import(d) ==
  /\ Running /\ MayPush
  /\ Issue(RequestScene("import", d, Undefined))
  /\ UNCHANGED <<heapVars, global, scenes, todo, native, program>>

ImportServed ==
  /\ pc = "alloc" /\ pending.op = "import" /\ Fits(pending.cap)
  /\ PushScene(MainFrame(global), [NoCall EXCEPT !.fn = "import", !.rd = pending.reg])

(* The end of a cvm_state_run that C code called: its last frame returned,  *)
(* or any frame met a halt.  _cvm_pop_scene drops all its frames.           *)
BadLeaveImport(v) ==   \* the result put into the scene that ends
  /\ Scene.caller.fn = "import"
  /\ scenes' = Tail([scenes EXCEPT ![1].frames[1].regs[Scene.caller.rd] = v])
  /\ UNCHANGED <<native, pc>>
LeaveImport(v) ==
  /\ Scene.caller.fn = "import"
  /\ scenes' = [Tail(scenes) EXCEPT ![1].frames[1].regs[Scene.caller.rd] = v]
  /\ UNCHANGED <<native, pc>>
LeaveCallback ==
  /\ Scene.caller.fn = "foreach"
  /\ scenes' = Tail(scenes)
  /\ native' = Scene.caller /\ pc' = "native"

Leave(v) ==
  /\ Running /\ Len(scenes) > 1
  /\ v = Undefined \/ Len(Scene.frames) = 1
  /\ LeaveImport(v) \/ LeaveCallback
  /\ UNCHANGED <<heapVars, global, pending, todo, program>>

------------------------------------------------------------------------------
(* _lib_foreach.  It reads its arguments without following their REDIRECT   *)
(* headers; here there are none.                                            *)
IsTable(v, type) == IsPtr(v) /\ Obj(v).type = type

ForeachCall(d, a) ==
  /\ Running /\ MayPush /\ IsTable(Regs[a], "object")
  /\ LET array == Get(Obj(Regs[a]), ArrayArgument)
         callback == Get(Obj(Regs[a]), CallbackArgument)
     IN  /\ IsTable(array, "object") /\ IsTable(callback, "closure")
         /\ native' = [fn |-> "foreach", rd |-> d, array |-> array, callback |-> callback, done |-> 0]
  /\ pc' = "native"
  /\ UNCHANGED <<heapVars, global, scenes, pending, todo, program>>

(* The test i < hash_size(array), and the cvm_create_array of the loop.     *)
InForeach == pc = "native" /\ IsTable(native.array, "object")
ForeachNext ==
  /\ InForeach /\ native.done < Count(Obj(native.array))
  /\ Issue(Request("cb_arg", "object", 1, native.rd, NoFields))
  /\ UNCHANGED <<heapVars, global, scenes, todo, native, program>>

(* The array of arguments goes into the external array, which may have to   *)
(* grow (_cvm_set_hash); it is given its elements and passed on to          *)
(* cvm_state_call_function, which pushes a scene.  h is the heap so far.    *)
PassArguments(h, p) ==
  /\ heap' = [h EXCEPT ![p[1]][p[2]].fields =
                 CallbackArguments(global, Get(Obj(native.array), native.done))]
  /\ Issue(RequestScene("scene", native.rd, p))

CbArgServed ==
  /\ pc = "alloc" /\ pending.op = "cb_arg" /\ Fits(pending.cap)
  /\ LET e == Scene.external
         external == [Obj(e) EXCEPT !.fields = Put(@, Count(Obj(e)), Fresh)]
         created == Allocated(NewTable(1, NoFields), e, external)
     IN  IF NeedExpand(external)
         THEN /\ heap' = created
              /\ Issue([Request("external", "object", 2 * external.cap, native.rd, NoFields)
                          EXCEPT !.args = Fresh])
         ELSE PassArguments(created, Fresh)
  /\ Taken(1)
  /\ UNCHANGED <<current, global, scenes, todo, native, program>>

ExternalServed ==
  /\ pc = "alloc" /\ pending.op = "external" /\ Fits(pending.cap)
  /\ LET e == Scene.external
         header == [NewTable(0, NoFields) EXCEPT !.type = "redirect", !.fwd = Fresh]
     IN  PassArguments(Allocated(NewTable(pending.cap, Obj(e).fields), e, header), pending.args)
  /\ scenes' = [scenes EXCEPT ![1].external = Fresh]
  /\ Taken(pending.cap)
  /\ UNCHANGED <<current, global, todo, native, program>>

BadSceneServed ==   \* the element counted only when the callback is left with a result
  /\ pc = "alloc" /\ pending.op = "scene" /\ Fits(pending.cap)
  /\ PushScene(NewFrame(Obj(native.callback), Obj(pending.args), 1), native)
SceneServed ==
  /\ pc = "alloc" /\ pending.op = "scene" /\ Fits(pending.cap)
  /\ PushScene(NewFrame(Obj(native.callback), Obj(pending.args), 1), [native EXCEPT !.done = @ + 1])

ForeachDone ==
  /\ InForeach /\ native.done >= Count(Obj(native.array))
  /\ SetReg(native.rd, Undefined)
  /\ pc' = "run" /\ native' = NoCall
  /\ UNCHANGED <<heapVars, global, pending, todo, program>>

------------------------------------------------------------------------------
Collectable == CollectInForeach \/ \A c \in Waiting : c.fn # "foreach"

Foreach ==
  \/ \E d \in Reg, a \in Reg : Uses("foreach") /\ ForeachCall(d, a)
  \/ ForeachNext \/ CbArgServed \/ ExternalServed \/ SceneServed \/ ForeachDone
FromC ==
  \/ \E d \in Reg : Uses("import") /\ Import(d)
  \/ ImportServed
  \/ \E v \in {Undefined} \cup Range(Regs) : Leave(v)

CallbacksNext ==
  \/ Collectable /\ StartGC
  \/ Mark \/ EndGC
  \/ Allocator \/ Instruction \/ FromC \/ Foreach
CallbacksSpec == Init /\ [][CallbacksNext]_vars

------------------------------------------------------------------------------
(* Outside a collection, what a C function remembers in its local variables *)
(* (the array, the callback and the arguments under construction) is a      *)
(* table of the block in use, not what a collection left of one.            *)
LocalsLive ==
  pc # "gc" =>
    \A v \in (UNION {{c.array, c.callback} : c \in Waiting}) \cup {pending.args} :
      IsPtr(v) => v[1] = current /\ IsAddress(v) /\ Obj(v).type # "left"
==============================================================================
