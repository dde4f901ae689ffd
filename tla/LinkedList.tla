------------------------------ MODULE LinkedList ------------------------------
(***************************************************************************)
(* The intrusive lists of list.h, pointer by pointer.  A node points back  *)
(* at whatever points at it: the head of its list or the next pointer of   *)
(* the node before it.  Such a location is what `prev` and `tail` hold,    *)
(* and no operation looks for the beginning or the end of a list.          *)
(***************************************************************************)
EXTENDS Naturals, SequencesExt

CONSTANTS Node, List, NULL

Distinct == NULL \notin Node \cup List   \* what the theorems assume of the constants

HeadOf(l) == <<"head", l>>   \* &list->head
NextOf(n) == <<"next", n>>   \* &node->next
Location == {HeadOf(l) : l \in List} \cup {NextOf(n) : n \in Node}

VARIABLES memory,   \* the fields: what each location holds, prev and list of nodes,
                    \* tail and size of lists
          order,    \* history: the nodes of each list as its users put them there
          lost,     \* history: the nodes of lists that were initialized again
          moving    \* the arguments of a running list_move, or NULL

vars == <<memory, order, lost, moving>>

Memory == [cell : [Location -> Node \cup {NULL}], prev : [Node -> Location],
           list : [Node -> List \cup {NULL}], tail : [List -> Location], size : [List -> Nat]]

------------------------------------------------------------------------------
(* What the functions do to the memory m.                                   *)
Initialized(m, l) ==
  [cell |-> [m.cell EXCEPT ![HeadOf(l)] = NULL], prev |-> m.prev, list |-> m.list,
   tail |-> [m.tail EXCEPT ![l] = HeadOf(l)], size |-> [m.size EXCEPT ![l] = 0]]

(* The end both ways of inserting share: what follows n points back at it.  *)
Followed(prev, n, next) == IF next = NULL THEN prev ELSE [prev EXCEPT ![next] = NextOf(n)]
EndingIn(tail, l, n, next) == IF next = NULL THEN [tail EXCEPT ![l] = NextOf(n)] ELSE tail

Appended(m, l, n) ==
  [cell |-> [m.cell EXCEPT ![NextOf(n)] = NULL, ![m.tail[l]] = n],
   prev |-> [m.prev EXCEPT ![n] = m.tail[l]],
   list |-> [m.list EXCEPT ![n] = l],
   tail |-> [m.tail EXCEPT ![l] = NextOf(n)],
   size |-> [m.size EXCEPT ![l] = @ + 1]]

Prepended(m, l, n) ==
  LET next == m.cell[HeadOf(l)]
  IN  [cell |-> [m.cell EXCEPT ![NextOf(n)] = next, ![HeadOf(l)] = n],
       prev |-> Followed([m.prev EXCEPT ![n] = HeadOf(l)], n, next),
       list |-> [m.list EXCEPT ![n] = l],
       tail |-> EndingIn(m.tail, l, n, next),
       size |-> [m.size EXCEPT ![l] = @ + 1]]

Before(m, old, n) ==
  [cell |-> [m.cell EXCEPT ![m.prev[old]] = n, ![NextOf(n)] = old],
   prev |-> [m.prev EXCEPT ![n] = m.prev[old], ![old] = NextOf(n)],
   list |-> [m.list EXCEPT ![n] = m.list[old]],
   tail |-> m.tail,
   size |-> [m.size EXCEPT ![m.list[old]] = @ + 1]]

After(m, old, n) ==
  LET next == m.cell[NextOf(old)]
  IN  [cell |-> [m.cell EXCEPT ![NextOf(n)] = next, ![NextOf(old)] = n],
       prev |-> Followed([m.prev EXCEPT ![n] = NextOf(old)], n, next),
       list |-> [m.list EXCEPT ![n] = m.list[old]],
       tail |-> EndingIn(m.tail, m.list[old], n, next),
       size |-> [m.size EXCEPT ![m.list[old]] = @ + 1]]

Unlinked(m, n) ==
  LET next == m.cell[NextOf(n)]
      l == m.list[n]
  IN  [cell |-> [m.cell EXCEPT ![m.prev[n]] = next],
       prev |-> IF next = NULL THEN m.prev ELSE [m.prev EXCEPT ![next] = m.prev[n]],
       list |-> [m.list EXCEPT ![n] = NULL],
       tail |-> IF next = NULL THEN [m.tail EXCEPT ![l] = m.prev[n]] ELSE m.tail,
       size |-> [m.size EXCEPT ![l] = @ - 1]]

(* The macros that read.  list_tail and list_prev compute the node from the *)
(* address of its next pointer; of an empty list's tail that is no node.    *)
ContainerOf(location) == IF location[1] = "next" THEN location[2] ELSE NULL
list_head(l) == memory.cell[HeadOf(l)]
list_tail(l) == ContainerOf(memory.tail[l])
list_next(n) == memory.cell[NextOf(n)]
list_prev(n) == IF memory.prev[n] = HeadOf(memory.list[n]) THEN NULL
                ELSE ContainerOf(memory.prev[n])

------------------------------------------------------------------------------
(* The callers insert nodes that are in no list and unlink those that are. *)
Free(n) == memory.list[n] = NULL
Linked(n) == ~Free(n) /\ n \notin lost
IndexIn(s, n) == CHOOSE i \in 1 .. Len(s) : s[i] = n

Insert(m, l, i, n) ==
  /\ memory' = m
  /\ order' = [order EXCEPT ![l] = InsertAt(@, i, n)]
  /\ UNCHANGED <<lost, moving>>

list_append(l, n) ==
  /\ moving = NULL /\ Free(n)
  /\ Insert(Appended(memory, l, n), l, Len(order[l]) + 1, n)

list_prepend(l, n) ==
  /\ moving = NULL /\ Free(n)
  /\ Insert(Prepended(memory, l, n), l, 1, n)

list_before(old, n) ==
  /\ moving = NULL /\ Linked(old) /\ Free(n)
  /\ LET l == memory.list[old]
     IN  Insert(Before(memory, old, n), l, IndexIn(order[l], old), n)

list_after(old, n) ==
  /\ moving = NULL /\ Linked(old) /\ Free(n)
  /\ LET l == memory.list[old]
     IN  Insert(After(memory, old, n), l, IndexIn(order[l], old) + 1, n)

list_unlink(n) ==
  /\ moving = NULL /\ Linked(n)
  /\ memory' = Unlinked(memory, n)
  /\ LET l == memory.list[n]
     IN  order' = [order EXCEPT ![l] = RemoveAt(@, IndexIn(@, n))]
  /\ UNCHANGED <<lost, moving>>

(* list_move initializes its destination, whatever is in it; the import of  *)
(* functions in cvm.c runs the same loop without.                           *)
list_move(dst, src) ==
  /\ moving = NULL /\ dst # src
  /\ memory' = Initialized(memory, dst)
  /\ order' = [order EXCEPT ![dst] = << >>]
  /\ lost' = lost \cup ToSet(order[dst])
  /\ moving' = <<dst, src>>

ImportFunctions(dst, src) ==
  /\ moving = NULL /\ dst # src
  /\ moving' = <<dst, src>>
  /\ UNCHANGED <<memory, order, lost>>

MoveHead ==
  /\ moving # NULL /\ memory.size[moving[2]] > 0
  /\ LET n == list_head(moving[2])
     IN  /\ memory' = Appended(Unlinked(memory, n), moving[1], n)
         /\ order' = [order EXCEPT ![moving[1]] = InsertAt(@, Len(@) + 1, n),
                                   ![moving[2]] = RemoveAt(@, 1)]
  /\ UNCHANGED <<lost, moving>>

MoveDone ==
  /\ moving # NULL /\ memory.size[moving[2]] = 0
  /\ moving' = NULL
  /\ UNCHANGED <<memory, order, lost>>

(* Every list after list_init, every node after list_node_init, which sets  *)
(* no other field.                                                          *)
Init ==
  /\ \E held \in [Node -> Node \cup {NULL}], prev \in [Node -> Location] :
       memory = [cell |-> [x \in Location |-> IF x[1] = "head" THEN NULL ELSE held[x[2]]],
                 prev |-> prev,
                 list |-> [n \in Node |-> NULL],
                 tail |-> [l \in List |-> HeadOf(l)],
                 size |-> [l \in List |-> 0]]
  /\ order = [l \in List |-> << >>]
  /\ lost = {} /\ moving = NULL

Next ==
  \/ \E l \in List, n \in Node : list_append(l, n) \/ list_prepend(l, n)
  \/ \E old, n \in Node : list_before(old, n) \/ list_after(old, n)
  \/ \E n \in Node : list_unlink(n)
  \/ \E dst, src \in List : list_move(dst, src) \/ ImportFunctions(dst, src)
  \/ MoveHead \/ MoveDone

Spec == Init /\ [][Next]_vars

------------------------------------------------------------------------------
TypeOK ==
  /\ memory \in Memory
  /\ order \in [List -> Seq(Node)]
  /\ lost \subseteq Node
  /\ moving \in {NULL} \cup (List \X List)

(* Reading a list from either end by its macros gives its nodes in the      *)
(* order they were put in, whatever was unlinked or moved in between.       *)
ReadsAsOrdered ==
  \A l \in List :
    LET s == order[l]
    IN  /\ memory.size[l] = Len(s)
        /\ list_head(l) = IF s = << >> THEN NULL ELSE s[1]
        /\ s # << >> => list_tail(l) = s[Len(s)]
        /\ \A i \in 1 .. Len(s) :
             /\ list_next(s[i]) = IF i = Len(s) THEN NULL ELSE s[i + 1]
             /\ list_prev(s[i]) = IF i = 1 THEN NULL ELSE s[i - 1]

(* A node that thinks it is in a list is in that list, once, and in no      *)
(* other, unless the list was initialized under it.                         *)
NodesInOneList ==
  /\ \A l \in List : IsInjective(order[l]) /\ ToSet(order[l]) \cap lost = {}
  /\ \A n \in Node \ lost, l \in List : memory.list[n] = l <=> n \in ToSet(order[l])

(* A move keeps the order of what it moves, and of what was there.          *)
MoveKeepsOrder ==
  [][moving # NULL => LET dst == moving[1]  src == moving[2]
                      IN  order'[dst] \o order'[src] = order[dst] \o order[src]]_vars
==============================================================================
