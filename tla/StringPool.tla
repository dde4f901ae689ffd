------------------------------ MODULE StringPool ------------------------------
(***************************************************************************)
(* string_pool.c: strings are stored once, in pages, and found through an  *)
(* open-addressing table that nothing is ever removed from and that grows  *)
(* before it is more than half full.  A call is one step.  A definition    *)
(* named Bad... is a mistake in the one after it that a property rules out.*)
(***************************************************************************)
EXTENDS Integers, Sequences, FiniteSetsExt, TLC

CONSTANTS Text,             \* the texts that are looked up and inserted
          Length, Hash,     \* the length of each and its string_hash_vec
          DefaultCapacity,  \* STRING_POOL_DEFAULT_CAPACITY
          PageSize,         \* STRING_PAGE_SIZE, in bytes
          PageHeader,       \* sizeof(StringPage)
          Word,             \* sizeof(size_t) and sizeof(CString)
          SizeLimit         \* 2^32: size_t wraps around

ASSUME PoolAssumption ==
  /\ Length \in [Text -> Nat] /\ Hash \in [Text -> Nat]
  /\ {PageSize, PageHeader, Word, SizeLimit} \subseteq Nat \ {0}
  /\ DefaultCapacity \in {2, 4, 8, 16, 32, 64}          \* a power of two
  /\ PageSize % Word = 0 /\ PageHeader % Word = 0
  /\ PageHeader < PageSize /\ 2 * PageSize < SizeLimit
  /\ \A x \in Text : PageHeader + Length[x] + 1 + 2 * Word <= PageSize

VARIABLES table,   \* its capacity, size and nodes
          pages,   \* allocated of each page in the list, the head first
          strings, \* the text at every address that holds one unharmed
          result   \* what the last call returned

vars == <<table, pages, strings, result>>

None == <<>>
Empty == [key |-> 0, string |-> None]
NewTable(capacity) ==
  [capacity |-> capacity, size |-> 0, content |-> [i \in 0 .. capacity - 1 |-> Empty]]
NewPage == PageHeader        \* allocated of a page that holds nothing

Slots(t) == 0 .. t.capacity - 1

(* _string_next_index: 40389 and 403 are its constants modulo 2^16.         *)
NextIndex(index, capacity) == (index * 40389 + 403) % capacity

(* The slots visited in search of a hash. *)
Visited(capacity, hash) ==
  LET slot[n \in 0 .. capacity] ==
        IF n = 0 THEN hash % capacity ELSE NextIndex(slot[n - 1], capacity)
  IN  slot
FirstVisited(capacity, hash, stops) ==
  LET slot == Visited(capacity, hash) IN slot[Min({n \in 0 .. capacity : slot[n] \in stops})]

(* _string_pool_find_hash. *)
Free(t) == {i \in Slots(t) : t.content[i].string = None}
BadSame(node, x) == node.key = Hash[x]                    \* the texts not compared
Same(node, x) == node.key = Hash[x] /\ node.string \in DOMAIN strings /\ strings[node.string] = x
Found(t, x) ==
  LET stops == Free(t) \cup {i \in Slots(t) : Same(t.content[i], x)}
  IN  t.content[FirstVisited(t.capacity, Hash[x], stops)].string

(* _string_hash_insert. *)
Put(t, hash, a) ==
  [t EXCEPT !.content[FirstVisited(t.capacity, hash, Free(t))] = [key |-> hash, string |-> a]]

BadNeedExpand(size, capacity) == size > capacity     \* no slot kept free
NeedExpand(size, capacity) == size > capacity - capacity \div 2

(* _string_expand_pool.  The size of the new table starts again at 0. *)
BadRehashed(t) ==   \* the nodes copied to where they were
  [NewTable(2 * t.capacity) EXCEPT
     !.content = [i \in 0 .. 2 * t.capacity - 1 |-> IF i < t.capacity THEN t.content[i] ELSE Empty]]
Rehashed(t) ==
  LET upTo[n \in 0 .. t.capacity] ==
        IF n = 0 THEN NewTable(2 * t.capacity)
        ELSE IF t.content[n - 1].string = None THEN upTo[n - 1]
        ELSE Put(upTo[n - 1], t.content[n - 1].key, t.content[n - 1].string)
  IN  upTo[t.capacity]

(* _string_allocate_in_pool for a text and its tailing zero: only the head  *)
(* of the pages is tried, and the room left in it is computed in size_t.    *)
Room == (PageSize - Head(pages)) % SizeLimit
BadTaken(x) == ((Length[x] + 1) \div Word) * Word    \* without the length field
Taken(x) == ((Length[x] + 1 + Word + Word) \div Word) * Word
BadNeedPage(x) == Room < Length[x] + 1               \* without the length field
NeedPage(x) == Room < Length[x] + 1 + Word

(* An address is the page, numbered from the oldest, and the offset in it.  *)
Span(a, x) == a[2] .. a[2] + Word + Length[x]
Overlap(a, x, b, y) == a[1] = b[1] /\ Span(a, x) \cap Span(b, y) # {}
Outside == {b \in DOMAIN strings : b[2] + Word + Length[strings[b]] >= PageSize}

Init ==
  /\ table = NewTable(DefaultCapacity)
  /\ pages = << NewPage >>
  /\ strings = [a \in {} |-> None]
  /\ result = None

(* string_pool_find_vec, and string_pool_insert_vec of a known text. *)
Find(x) ==
  /\ result' = Found(table, x)
  /\ UNCHANGED <<table, pages, strings>>

(* string_pool_insert_vec.  The page that comes with an expanded table is   *)
(* lost in list_move.  What is written outside of a page may be overwritten *)
(* at any time.                                                             *)
Insert(x) ==
  /\ Found(table, x) = None
  /\ \E harmed \in SUBSET Outside :
       LET slots == IF NeedExpand(table.size + 1, table.capacity)
                    THEN Rehashed(table) ELSE table
           list  == IF NeedPage(x) THEN <<NewPage>> \o pages ELSE pages
           a     == <<Len(list), Head(list)>>
           whole == {b \in DOMAIN strings \ harmed : ~Overlap(a, x, b, strings[b])}
       IN  /\ pages' = [list EXCEPT ![1] = @ + Taken(x)]
           /\ strings' = [b \in whole \cup {a} |-> IF b = a THEN x ELSE strings[b]]
           /\ table' = [Put(slots, Hash[x], a) EXCEPT !.size = @ + 1]
           /\ result' = a

Next == \E x \in Text : Find(x) \/ Insert(x)
Spec == Init /\ [][Next]_vars

(***************************************************************************)
(* What must hold.                                                         *)
(***************************************************************************)
Addresses == Nat \X Nat

(* The types of the variables; the allocated bytes of a page are bytes of it *)
(* (string_pool.c:169-174).                                                 *)
TypeOK ==
  /\ table.capacity \in Nat \ {0} /\ table.size \in Nat
  /\ table.content \in [Slots(table) -> [key : Nat, string : {None} \union Addresses]]
  /\ pages \in Seq(PageHeader .. PageSize)
  /\ DOMAIN strings \subseteq Addresses /\ strings \in [DOMAIN strings -> Text]
  /\ result \in {None} \union Addresses

(* Every search ends: from any slot, _string_pool_find_hash and             *)
(* _string_hash_insert (string_pool.c:76, 149) come upon a free one.  An    *)
(* expansion forgets how many nodes the table holds (string_pool.c:103,     *)
(* 128), so a table fills far beyond half: what saves the search is that an *)
(* expansion leaves as many free slots as the one before it did.            *)
SearchEnds ==
  \A h \in Slots(table) : \E n \in Slots(table) : Visited(table.capacity, h)[n] \in Free(table)

(* No insertion writes into the characters of another string, nor outside   *)
(* of the page (string_pool.c:169-174), and every node of the table has the *)
(* hash of the text at its address.                                         *)
StringsIntact ==
  \A i \in Slots(table) \ Free(table) :
    LET node == table.content[i]
    IN  node.string \in DOMAIN strings /\ node.key = Hash[strings[node.string]]

(* An insertion into room for the string and not a byte more: what it takes *)
(* may be a word more (string_pool.c:169-174).  The proofs of what holds    *)
(* until then leave such insertions out.                                    *)
FitsExactly == \E x \in Text : Insert(x) /\ Room = Length[x] + 1 + Word

(* A text keeps the address it was given, through growth and new pages, and *)
(* no other text gets it: parse.c and cvm.c compare addresses for texts.    *)
Promise == INSTANCE Interner
             WITH Address <- Addresses, answer <- result,
                  interned <- [x \in Text |-> Found(table, x)]
Interns == Promise!InternerSpec
===============================================================================
