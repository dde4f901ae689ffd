---------------------------- MODULE MCCallbacks ----------------------------
(* Instances of Callbacks for TLC. *)
EXTENDS Callbacks

Program(instructions, growAt, blockSize, header, objects, frames) ==
  [instructions |-> instructions, growAt |-> growAt, shrinkBelow |-> 3 - growAt,
   blockSize |-> blockSize, header |-> header, objects |-> objects, frames |-> frames]

Tables == Program({"move", "object", "set"}, 1, 9, 1, 9, 1)
Edge == Program({"integer", "object", "set"}, 1, 10, 2, 9, 1)
Calls == Program({"move", "closure", "set", "call"}, 2, 6, 1, 6, 2)
Imports == Program({"load", "closure", "call", "import"}, 2, 9, 1, 2, 3)
Callback == {"closure", "set", "foreach"}
Twice == Program(Callback, 2, 17, 2, 3, 3)
Often == Program(Callback \cup {"get"}, 2, 21, 1, 2, 3)

AllPrograms == {Tables, Edge, Calls, Imports, Twice, Often}
Cramped == {Program(Callback, 2, 10, 2, 2, 2)}
=============================================================================
