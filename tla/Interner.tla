------------------------------- MODULE Interner -------------------------------
(***************************************************************************)
(* What the users of the string pool rely on, the keys of objects first of *)
(* all: a text has one address for ever, and no two texts share one.       *)
(***************************************************************************)
CONSTANTS Text, Address, None

VARIABLES interned,  \* the address of each text, None if it was never inserted
          answer     \* what the last call returned

internerVars == <<interned, answer>>

InternerInit == interned = [t \in Text |-> None] /\ answer = None

Lookup(t) == answer' = interned[t] /\ UNCHANGED interned

Intern(t) ==
  /\ interned[t] = None
  /\ answer' \in Address \ {interned[u] : u \in Text}
  /\ interned' = [interned EXCEPT ![t] = answer']

InternerNext == \E t \in Text : Lookup(t) \/ Intern(t)
InternerSpec == InternerInit /\ [][InternerNext]_internerVars
===============================================================================
