-------------------------------- MODULE Frames --------------------------------
(***************************************************************************)
(* What Machine and ObjectHeap agree on: values, the registers of a frame, *)
(* and the fields of a table.  Pointers differ: an identity in Machine, an *)
(* address in ObjectHeap.                                                   *)
(***************************************************************************)
EXTENDS Naturals, Sequences, FiniteSets, Functions, TLC

CONSTANTS RegisterNr,   \* register_nr of every function; register 0 is the constant 0
          Key,          \* the keys of fields
          Arguments,    \* arguments_nr of every function
          ArrayArgument, CallbackArgument   \* where foreach finds its arguments: 1 and 2

ASSUME FramesAssumption ==
  /\ Key \subseteq Nat
  /\ RegisterNr \in Nat \ {0}
  /\ {Arguments, ArrayArgument, CallbackArgument} \subseteq Nat

(* Zero stands for every integer and string, Undefined for null too.        *)
Undefined == <<>>
Zero == <<0>>
Reg == 1 .. RegisterNr

NoFields == [k \in {} |-> Undefined]
Get(o, k) == IF k \in DOMAIN o.fields THEN o.fields[k] ELSE Undefined
Put(fields, k, v) ==
  [x \in IF v = Undefined THEN DOMAIN fields \ {k} ELSE DOMAIN fields \cup {k} |->
     IF x = k THEN v ELSE fields[x]]

(* cvm_get_register. *)
Operand(regs, r) == IF r = 0 THEN Zero ELSE regs[r]

(* cvm_state_push_frame: register 1 is the global object.                   *)
MainFrame(global) == [regs |-> [r \in Reg |-> IF r = 1 THEN global ELSE Undefined], rd |-> 1]

(* cvm_state_push_frame and _cvm_setup_function_frame, func and args being  *)
(* objects: arguments_nr + 1 registers are set from the arguments, then the *)
(* captured ones from the closure.                                          *)
NewFrame(func, args, rd) ==
  [regs |-> [r \in Reg |->
               IF r \in DOMAIN func.fields THEN func.fields[r]
               ELSE IF r <= Arguments + 1 THEN Get(args, r - 1)
               ELSE Undefined],
   rd   |-> rd]

(* What foreach passes to the callback. *)
CallbackArguments(global, element) == Put(Put(NoFields, 0, global), 1, element)

(* What a C function that runs scripts remembers: where its result goes,    *)
(* and foreach the array, the callback and how many elements are done.      *)
NoCall == [fn |-> "none", rd |-> 1, array |-> Undefined, callback |-> Undefined, done |-> 0]
==============================================================================
