------------------------------- MODULE HashMap -------------------------------
(***************************************************************************)
(* What hash.h promises of hash_find and hash_set: a map from keys to      *)
(* values that is read and written as a whole.  A call is made with its    *)
(* arguments and takes effect in one step, however the table stores the    *)
(* map and whenever it is resized.                                         *)
(***************************************************************************)
CONSTANTS Key, Val, Null, Undefined

VARIABLES dict,    \* the value of every key, Undefined for a key that has none
          answer,  \* what the last lookup answered
          call     \* the call being served

mapVars == <<dict, answer, call>>

NoCall == [op |-> "none"]

MapInit ==
  /\ dict = [k \in Key |-> Undefined]
  /\ answer = Undefined
  /\ call = NoCall

CallFind(k) ==
  /\ call = NoCall
  /\ call' = [op |-> "find", key |-> k]
  /\ UNCHANGED <<dict, answer>>

(* Storing Null or Undefined removes the key. *)
CallSet(k, v) ==
  /\ call = NoCall
  /\ call' = [op |-> "set", key |-> k, value |-> IF v = Null THEN Undefined ELSE v]
  /\ UNCHANGED <<dict, answer>>

ServeFind ==
  /\ call.op = "find"
  /\ answer' = dict[call.key]
  /\ call' = NoCall
  /\ UNCHANGED dict

ServeSet ==
  /\ call.op = "set"
  /\ dict' = [dict EXCEPT ![call.key] = call.value]
  /\ call' = NoCall
  /\ UNCHANGED answer

MapNext ==
  \/ ServeFind
  \/ ServeSet
  \/ \E k \in Key : CallFind(k)
  \/ \E k \in Key, v \in Val \cup {Null, Undefined} : CallSet(k, v)

MapSpec == MapInit /\ [][MapNext]_mapVars
==============================================================================
