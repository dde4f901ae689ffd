--------------------------------- MODULE Parser ---------------------------------
(***************************************************************************)
(* parse.c for one function: the tables of its scopes, what it captures of  *)
(* the function around it, and the basic blocks its statements become.  A   *)
(* name has a register for each value it is given; where paths meet, the    *)
(* parser makes them agree with moves.  The program is any sequence of      *)
(* statements; an action is a statement, or the beginning, the middle or    *)
(* the end of one that holds others.                                        *)
(*                                                                         *)
(* The blocks carry claims of what the program means, which the machine    *)
(* does not see: "IS", the register holds the value of this expression,    *)
(* and "WHEN", the block runs only if this condition is, or is not, true.  *)
(***************************************************************************)
EXTENDS IRBuilder, SequencesExt

CONSTANTS
  Params, Locals,     \* the names: a sequence and a set of strings
  Enclosing,          \* the registers of the names of the function around this one
  Values, Conds,      \* the expressions of statements, and of if and while
  Results,            \* what is returned
  MaxStatements, MaxDepth,
  Careful             \* only programs that parse.c does not get wrong

Names == Range(Params) \cup Locals \cup DOMAIN Enclosing

ASSUME EnclosingAssumption ==
  /\ Range(Enclosing) \subseteq Nat \ {0}
  /\ Careful => IsInjective(Enclosing)
ASSUME NamesAssumption == Params \in Seq(Range(Params)) /\ IsFiniteSet(Names)

VARIABLES
  ir,          \* the builder of the function
  scopes,      \* the scopes, from the innermost outwards
  open,        \* the statements that are being parsed, likewise
  statements,  \* how many there are so far
  ended        \* the function's closing brace has been read
vars == <<ir, scopes, open, statements, ended>>

(* A scope: the names let in it and their registers, and the registers of  *)
(* names let further out that it has assigned to.  Two fields are history: *)
(* which variable a name is, and which names an else branch would read     *)
(* from registers that only the then branch has written.                   *)
NewScope == [symbol_table |-> Empty, upper_table |-> Empty, variable |-> Empty, stale |-> {}]

(* _parse_symbol_table_lookup. *)
At(ss, n) == Min({i \in DOMAIN ss : n \in DOMAIN ss[i].symbol_table \cup DOMAIN ss[i].upper_table})
Exists(ss, n) == \E s \in Range(ss) : n \in DOMAIN s.symbol_table \cup DOMAIN s.upper_table
Lookup(ss, n) ==
  LET s == ss[At(ss, n)]
  IN  IF n \in DOMAIN s.symbol_table THEN s.symbol_table[n] ELSE s.upper_table[n]

DefinedAtTop(ss, n) ==
  LET defining == {i \in DOMAIN ss : n \in DOMAIN ss[i].symbol_table}
  IN  defining # {} /\ Min(defining) = 1
BadStore(ss, n, r) == [ss EXCEPT ![1].symbol_table = With(@, n, r)]
Store(ss, n, r) ==
  IF DefinedAtTop(ss, n) THEN [ss EXCEPT ![1].symbol_table = With(@, n, r)]
  ELSE [ss EXCEPT ![1].upper_table = With(@, n, r)]

(* _parse_capture_variable: the first time a name of the function around    *)
(* this one is met, it gets a register here, which the closure is to fill   *)
(* from the one there.  The base scope defines it, and the innermost scope  *)
(* takes it for assigned.                                                   *)
Capture(i, n) ==
  LET new == Allocated(i)
  IN  [new EXCEPT !.captured = With(@, n, new.reg),
                  !.capture_list = With(@, Enclosing[n], new.reg)]
Found(i, ss, n) ==
  CASE Exists(ss, n) -> [i EXCEPT !.reg = Lookup(ss, n)]
    [] ~Exists(ss, n) /\ n \in DOMAIN i.captured -> [i EXCEPT !.reg = i.captured[n]]
    [] OTHER -> Capture(i, n)
Captured(ss, i) ==
  LET new == [n \in DOMAIN i.captured \ DOMAIN Last(ss).symbol_table |-> i.captured[n]]
      defined == [ss EXCEPT ![Len(ss)].symbol_table = Over(new, @)]
  IN  IF Len(ss) = 1 THEN defined ELSE [defined EXCEPT ![1].upper_table = Over(new, @)]

Push(ss) == <<NewScope>> \o ss
(* _parse_join_scope: what the scope assigned outside of it is now assigned *)
(* by the scope around it.                                                  *)
Join(ss) ==
  LET upper == Head(ss).upper_table
      own == DOMAIN ss[2].symbol_table \cap DOMAIN upper
  IN  [Tail(ss) EXCEPT ![1].symbol_table = Over([n \in own |-> upper[n]], @),
                       ![1].upper_table = Over([n \in DOMAIN upper \ own |-> upper[n]], @)]

(* The variables the names stand for, and names whose register is stale.    *)
Variables(ss) ==
  [n \in {m \in Names : \E s \in Range(ss) : m \in DOMAIN s.variable} |->
     ss[Min({i \in DOMAIN ss : n \in DOMAIN ss[i].variable})].variable[n]]
Stale(ss, n) == \E i \in 1 .. At(ss, n) - 1 : n \in ss[i].stale

(* An expression is what the functions of parse.c that read it meet, in     *)
(* that order: a number, a name or a function literal (what matters of it   *)
(* here are the names from outside of it); after its operands an operator;  *)
(* of a chain of && or ||, FIRST after the first operand, then AND or OR    *)
(* before each of the others, and LAST.                                     *)
Num(n) == <<[op |-> "NUM", n |-> n]>>
Var(n) == <<[op |-> "VAR", name |-> n]>>
Function(names) == <<[op |-> "FUNCTION", names |-> names]>>
Nothing == <<[op |-> "UNDEFINED"]>>      \* in claims only
Op(op, l, r) == l \o r \o <<[op |-> op]>>
Neg(l) == l \o <<[op |-> "NEG"]>>
Not(l) == l \o <<[op |-> "NOT"]>>
Chain(op, args) ==
  Head(args) \o <<[op |-> "FIRST"]>>
    \o FlattenSeq([k \in DOMAIN Tail(args) |-> <<[op |-> op]>> \o Tail(args)[k]])
    \o <<[op |-> "LAST", of |-> op, nr |-> Len(args)]>>
And(args) == Chain("AND", args)
Or(args) == Chain("OR", args)

NamesIn(e) ==
  UNION {IF t.op = "VAR" THEN {t.name} ELSE IF t.op = "FUNCTION" THEN Range(t.names) ELSE {} :
           t \in Range(e)}

(* FIRST, AND, OR and LAST nest like brackets; an operator has operands.    *)
Binaries == Ops \cup {"!=", ">", ">="}
Leaves == {"NUM", "VAR", "FUNCTION"}
Count(e, k, ops) == Cardinality({j \in 1 .. k : e[j].op \in ops})
Chains(e, k) == Count(e, k, {"FIRST"}) - Count(e, k, {"LAST"})
Operands(e, k) == Count(e, k, Leaves) - Count(e, k, {"AND", "OR"} \cup Binaries)
Needs(op) == IF op \in Leaves THEN 0 ELSE IF op \in Binaries THEN 2 ELSE 1
WellFormed(e) ==
  /\ e \in Seq(Range(e)) /\ Chains(e, Len(e)) = 0
  /\ \A k \in DOMAIN e :
       /\ e[k].op \in Leaves \cup Binaries \cup {"NEG", "NOT", "FIRST", "AND", "OR", "LAST"}
       /\ Operands(e, k - 1) >= Needs(e[k].op)
       /\ e[k].op \in {"AND", "OR", "LAST"} => Chains(e, k - 1) > 0
       /\ e[k].op = "FUNCTION" => e[k].names \in Seq(Names)
ASSUME ExpressionsAssumption == \A e \in Values \cup Conds \cup Results : WellFormed(e)

(* What an expression means, where value is what the names stand for; the   *)
(* stack has what its operands mean, the last one first.                    *)
Meant(stack, t, value) ==
  LET l == stack[2]
      r == stack[1]
      one(v) == <<v>> \o Tail(stack)
      two(v) == <<v>> \o Tail(Tail(stack))
  IN  CASE t.op = "NUM" -> <<t.n>> \o stack
        [] t.op = "UNDEFINED" -> <<Undefined>> \o stack
        [] t.op = "VAR" -> <<value[t.name]>> \o stack
        [] t.op = "FUNCTION" -> <<[k \in DOMAIN t.names |-> value[t.names[k]]]>> \o stack
        [] t.op = "NEG" -> one(Apply("SUB", 0, r))
        [] t.op = "NOT" -> one(Bit(~Truth(r)))
        [] t.op \in {"FIRST", "AND", "OR"} -> stack
        [] t.op = "LAST" ->
             LET deciding == {k \in 1 .. t.nr : Truth(stack[k]) <=> t.of = "OR"}
             IN  <<stack[Max(deciding \cup {1})]>> \o SubSeq(stack, t.nr + 1, Len(stack))
        [] t.op = "!=" -> two(Bit(l # r))
        [] t.op = ">" -> two(Apply("SLT", r, l))
        [] t.op = ">=" -> two(Apply("SLE", r, l))
        [] OTHER -> two(Apply(t.op, l, r))
Eval(e, value) == Head(FoldLeft(LAMBDA stack, t : Meant(stack, t, value), <<>>, e))

Inverted(i, r) == Lnot(i, i.current_bb, r)
Compare(i, op, l, r) ==
  LET bb == i.current_bb IN
  CASE op = ">" -> Binary(i, bb, "SLT", r, l)
    [] op = ">=" -> Binary(i, bb, "SLE", r, l)
    [] op = "!=" -> LET equal == Binary(i, bb, "SEQ", l, r) IN Inverted(equal, equal.reg)
    [] OTHER -> Binary(i, bb, op, l, r)

(* _parse_logic_and_expr and _parse_logic_or_expr: each operand is moved to  *)
(* temp_reg, and what follows it is skipped if it decides.                  *)
First(i) == Extended(Allocated(i), i.current_bb)
Branch(i, op, r, temp_reg, expr_end) ==
  LET known == Holder(i, i.current_bb, "numeric_value", r) # None
      next_block == Newest(i) + 1
      moved == Extended(MovUpper(i, i.current_bb, temp_reg, r), i.current_bb)
  IN  [Br(Doubt(moved, known), i.current_bb, temp_reg,
          IF op = "AND" THEN next_block ELSE expr_end,
          IF op = "AND" THEN expr_end ELSE next_block) EXCEPT !.current_bb = next_block]
Ended(i, r, temp_reg, expr_end) ==
  [J(MovUpper(i, i.current_bb, temp_reg, r), i.current_bb, expr_end)
     EXCEPT !.current_bb = expr_end, !.reg = temp_reg]

(* _parse_right_hand_expr and what it calls. *)
Negative(i, r) ==
  LET zero == Li(i, i.current_bb, 0) IN Binary(zero, i.current_bb, "SUB", zero.reg, r)
Read(i, ss, n) == Found(Doubt(i, Exists(ss, n) /\ Stale(ss, n)), ss, n)
(* _parse_function_literal, seen from the function around it: the list of   *)
(* captures goes from the registers here to those of the new function, of   *)
(* which k stands for that of the k-th name.                                *)
NewClosure(i, ss, names) ==
  LET met[k \in 0 .. Len(names)] ==
        IF k = 0 THEN [ir |-> i, list |-> Empty]
        ELSE LET read == Read(met[k - 1].ir, ss, names[k])
             IN  [ir |-> read, list |-> With(met[k - 1].list, read.reg, k)]
      all == met[Len(names)]
  IN  Fresh(all.ir, i.current_bb, Inst("NEW_CLS", 0, all.list, Len(names)))

(* The local variables of these functions: the registers of operands, and   *)
(* temp_reg and expr_end of each chain that is being read, the last ones    *)
(* first.                                                                   *)
Step(c, ss, t) ==
  LET i == c.ir
      r == c.operands[1]
      give(n, j) == [c EXCEPT !.ir = j, !.operands = <<j.reg>> \o SubSeq(@, n + 1, Len(@))]
  IN  CASE t.op = "NUM" -> give(0, Li(i, i.current_bb, t.n))
        [] t.op = "VAR" -> give(0, Read(i, ss, t.name))
        [] t.op = "FUNCTION" -> give(0, NewClosure(i, ss, t.names))
        [] t.op = "NEG" -> give(1, Negative(i, r))
        [] t.op = "NOT" -> give(1, Inverted(i, r))
        [] t.op = "FIRST" ->
             [c EXCEPT !.ir = First(i),
                       !.chains = <<[temp_reg |-> First(i).reg, expr_end |-> Newest(First(i))]>> \o @]
        [] t.op \in {"AND", "OR"} ->
             [c EXCEPT !.ir = Branch(i, t.op, r, Head(c.chains).temp_reg, Head(c.chains).expr_end),
                       !.operands = Tail(@)]
        [] t.op = "LAST" ->
             [give(1, Ended(i, r, Head(c.chains).temp_reg, Head(c.chains).expr_end))
                EXCEPT !.chains = Tail(@)]
        [] OTHER -> give(2, Compare(i, t.op, c.operands[2], r))
Compile(i, ss, e) ==
  LET read[k \in 0 .. Len(e)] ==
        IF k = 0 THEN [ir |-> i, operands |-> <<>>, chains |-> <<>>]
        ELSE Step(read[k - 1], ss, e[k])
  IN  read[Len(e)].ir

(* The value of a let or an assignment gets a register of its own, unless   *)
(* the expression has allocated one, be it for a name it has captured.      *)
Owned(i, c) ==
  IF c.register_nr = i.register_nr THEN Mov(c, c.current_bb, c.reg)
  ELSE Doubt(c, c.reg <= i.register_nr \/ c.reg \in Range(c.captured))
Valued(i, ss, e) == Owned(i, Compile(i, ss, e))

(* The claims. *)
Claim(i, bb, claim) == [i EXCEPT !.bbs[bb].insts = Append(@, claim)]
Is(i, ss, variable, e, r) ==
  Claim(i, i.current_bb,
        [type |-> "IS", variable |-> variable, expr |-> e, names |-> Variables(ss), rs |-> r])
When(i, ss, bb, e, true) ==
  Claim(i, bb, [type |-> "WHEN", expr |-> e, names |-> Variables(ss), true |-> true])

-------------------------------------------------------------------------------
(* Where a statement may begin: in a block, and once after ) or else.       *)
MayBegin == /\ ~ended /\ statements < MaxStatements
            /\ open # <<>> => open[1].kind = "block" \/ ~open[1].parsed
Parsed(os) == IF os = <<>> THEN os ELSE [os EXCEPT ![1].parsed = TRUE]
Known(n) == Exists(scopes, n) \/ n \in DOMAIN Enclosing
Readable(e) == \A n \in NamesIn(e) : Known(n)
Admit == Careful => ~ir'.doubtful

Init ==
  /\ ir = [Builder EXCEPT !.register_nr = 1 + Len(Params)]
  /\ LET nr == [n \in Range(Params) |-> CHOOSE k \in DOMAIN Params : Params[k] = n]
     IN  scopes = <<[NewScope EXCEPT
           !.symbol_table = With([n \in Range(Params) |-> 1 + nr[n]], "this", 1),
           !.variable = Over(nr, [n \in DOMAIN Enclosing |-> -Enclosing[n]])]>>
  /\ open = <<>> /\ statements = 0 /\ ended = FALSE

Simple(i, ss) ==
  /\ MayBegin
  /\ ir' = i /\ scopes' = ss /\ Admit
  /\ open' = Parsed(open) /\ statements' = statements + 1
  /\ UNCHANGED ended

(* let, with a value and without; the names of e are those further out.     *)
Define(n, i, e) ==
  /\ n \notin DOMAIN Head(scopes).symbol_table
  /\ LET variable == Len(Params) + statements + 1
     IN  Simple(Is(i, scopes, variable, e, i.reg),
                [Captured(scopes, i) EXCEPT ![1].symbol_table = With(@, n, i.reg),
                                            ![1].variable = With(@, n, variable)])
Let(n, e) == Readable(e) /\ Define(n, Valued(ir, scopes, e), e)
Declare(n) == Define(n, Fresh(ir, ir.current_bb, Inst("UNDEFINED", 0, 0, 0)), Nothing)

Assign(n, e) ==
  /\ Known(n) /\ Readable(e)
  /\ LET found == Found(ir, scopes, n)
         ss == Captured(scopes, found)
         i == Valued(found, ss, e)
     IN  Simple(Is(i, ss, Variables(ss)[n], e, i.reg), Store(Captured(ss, i), n, i.reg))

(* return, with a value and without.                                        *)
Returned(i, e) ==
  LET claimed == Is(i, scopes, 0, e, i.reg)
  IN  Simple(Emit(claimed, i.current_bb, Inst("RET", i.reg, 0, 0)), Captured(scopes, i))
Return(e) == Readable(e) /\ Returned(Compile(ir, scopes, e), e)
ReturnNothing == Returned(Fresh(ir, ir.current_bb, Inst("UNDEFINED", 0, 0, 0)), Nothing)

(* A statement that holds others begins with block as the current one.      *)
Begin(i, block, construct) ==
  /\ MayBegin /\ Len(open) < MaxDepth
  /\ ir' = [i EXCEPT !.current_bb = block] /\ Admit
  /\ scopes' = Push(Captured(scopes, i))
  /\ open' = <<construct>> \o open
  /\ statements' = statements + 1 /\ UNCHANGED ended
Construct(kind, start, reg, expr) ==
  [kind |-> kind, parsed |-> FALSE, start |-> start, reg |-> reg, expr |-> expr,
   cond_start |-> None, body_start |-> None, then_bb |-> None, newer |-> Empty]
Ending(kind) == ~ended /\ open # <<>> /\ open[1].kind = kind /\ (kind = "block" \/ open[1].parsed)
Finish(i, current_bb, ss) ==
  /\ ir' = [i EXCEPT !.current_bb = current_bb] /\ Admit
  /\ scopes' = ss
  /\ open' = Parsed(Tail(open)) /\ UNCHANGED <<statements, ended>>

OpenBlock == Begin(ir, ir.current_bb, Construct("block", 0, 0, Num(0)))
CloseBlock == Ending("block") /\ Finish(ir, ir.current_bb, Join(scopes))

If(e) ==
  /\ Readable(e)
  /\ LET i == Compile(ir, scopes, e)
         then_start == Extended(i, i.current_bb)
     IN  Begin(When(then_start, scopes, Newest(then_start), e, TRUE), Newest(then_start),
               [Construct("then", i.current_bb, i.reg, e) EXCEPT !.body_start = Newest(then_start)])

(* Moves are emitted in the order of the slots of a table; a loop over       *)
(* another table has an order of its own.                                   *)
Orders == SetToSeqs(Names)
Moves(i, order, names, bb, to, from) ==
  LET moved[k \in 0 .. Len(order)] ==
        IF k = 0 THEN i
        ELSE LET n == order[k]
             IN  IF n \in names THEN MovUpper(moved[k - 1], bb, to[n], from[n]) ELSE moved[k - 1]
  IN  moved[Len(order)]
Registers(ss, names) == [n \in names |-> Lookup(ss, n)]
AnyStale(ss, names) == \E n \in names : Stale(ss, n)

(* The then branch is over: the block of the other branch.                  *)
BadElseStart ==
  LET i == Extended(ir, open[1].start)
  IN  When(Br(i, ir.current_bb, open[1].reg, open[1].body_start, Newest(i)),
           Tail(scopes), Newest(i), open[1].expr, FALSE)
ElseStart ==
  LET i == Extended(ir, open[1].start)
  IN  When(Br(i, open[1].start, open[1].reg, open[1].body_start, Newest(i)),
           Tail(scopes), Newest(i), open[1].expr, FALSE)

BadEndIf(i, then_bb, else_bb, ss) ==
  LET if_end == Extended(i, then_bb)
  IN  Finish(J(J(if_end, then_bb, Newest(if_end)), else_bb, Newest(if_end)), Newest(if_end), ss)
EndIf(i, then_bb, else_bb, ss) ==
  LET if_end == Extended(i, open[1].start)
  IN  Finish(J(J(if_end, then_bb, Newest(if_end)), else_bb, Newest(if_end)), Newest(if_end), ss)

EndThen(order) ==
  /\ Ending("then")
  /\ LET newer == Head(scopes).upper_table
         original == Registers(Tail(scopes), DOMAIN newer)
         changed == {n \in DOMAIN newer : newer[n] # original[n]}
         moved == Moves(ElseStart, order, changed, Newest(ElseStart), newer, original)
     IN  EndIf(Doubt(moved, AnyStale(Tail(scopes), DOMAIN newer)),
               ir.current_bb, Newest(ElseStart), Join(scopes))

Else ==
  /\ Ending("then")
  /\ LET newer == Head(scopes).upper_table
     IN  /\ ir' = [ElseStart EXCEPT !.current_bb = Newest(ElseStart)]
         /\ scopes' = [Push(Join(scopes)) EXCEPT
                         ![1].stale = {n \in DOMAIN newer : newer[n] # Lookup(Tail(scopes), n)}]
         /\ open' = [open EXCEPT ![1] = [Construct("else", @.start, @.reg, @.expr)
                                           EXCEPT !.newer = newer, !.then_bb = ir.current_bb]]
         /\ UNCHANGED <<statements, ended>>

(* What both branches assign ends in the then branch's register, what only  *)
(* the else branch does in its own.                                         *)
EndElse(order, later) ==
  /\ Ending("else")
  /\ LET newer == open[1].newer
         upper == Head(scopes).upper_table
         base == Tail(scopes)
         only == DOMAIN upper \ DOMAIN newer
         both == DOMAIN upper \cap DOMAIN newer
         left == DOMAIN newer \ DOMAIN upper
         old == Registers(base, only)
         then_moved == Moves(ir, order, only, open[1].then_bb, upper, old)
         else_moved == Moves(then_moved, order, both, ir.current_bb, newer, upper)
         merged == [base EXCEPT ![1].upper_table = Over([n \in only |-> upper[n]], @)]
         moved == Moves(else_moved, later, left, ir.current_bb, newer, Registers(merged, left))
         hidden == {n \in only \cap DOMAIN base[1].symbol_table : upper[n] # old[n]}
         doubtful == left \cap Head(scopes).stale # {} \/ hidden # {} \/ AnyStale(base, only)
     IN  EndIf(Doubt(moved, doubtful), open[1].then_bb, ir.current_bb, merged)

(* The condition of a loop is reached from two blocks: it has no dominator. *)
BadCondStart(i) == Extended(i, i.current_bb)
CondStart(i) == Extended(i, None)
While(e) ==
  /\ Readable(e)
  /\ LET start == CondStart(ir)
         cond_start == Newest(start)
         i == Compile([J(start, ir.current_bb, cond_start) EXCEPT !.current_bb = cond_start],
                      scopes, e)
         body == Extended(i, i.current_bb)
     IN  Begin(When(body, scopes, Newest(body), e, TRUE), Newest(body),
               [Construct("while", i.current_bb, i.reg, e)
                  EXCEPT !.cond_start = cond_start, !.body_start = Newest(body)])

(* Names that the body assigned end in the registers they had before it.    *)
EndWhile(order, later) ==
  /\ Ending("while")
  /\ LET upper == Head(scopes).upper_table
         old == Registers(Tail(scopes), DOMAIN upper)
         body_end == ir.current_bb
         end == Extended(ir, open[1].start)
         while_end == Newest(end)
         looped == Moves(end, order, DOMAIN upper, body_end, old, upper)
         joined == Join(scopes)
         claimed == When(looped, Tail(scopes), while_end, open[1].expr, FALSE)
         moved == Moves(claimed, later, DOMAIN upper, while_end,
                        Registers(joined, DOMAIN upper), old)
         branched == Br(moved, open[1].start, open[1].reg, open[1].body_start, while_end)
         overwritten == \E k \in 2 .. Len(open), n \in DOMAIN upper :
           /\ open[k].kind \in {"then", "else"}
           /\ Holder(ir, open[k].start, "numeric_value", old[n]) # None
     IN  Finish(Doubt(J(branched, body_end, open[1].cond_start),
                      overwritten \/ AnyStale(Tail(scopes), DOMAIN upper)),
                while_end, joined)

(* The end of _parse_function_literal; the claims are those of the names    *)
(* that can be read there.                                                  *)
ClaimAll(i, ss) ==
  LET readable == {n \in DOMAIN Variables(ss) : Exists(ss, n)}
      order == CHOOSE order \in Orders : TRUE
      claimed[k \in 0 .. Len(order)] ==
        IF k = 0 THEN i
        ELSE LET n == order[k]
             IN  IF n \in readable
                 THEN Is(claimed[k - 1], ss, Variables(ss)[n], Var(n), Lookup(ss, n))
                 ELSE claimed[k - 1]
  IN  claimed[Len(order)]
EndFunction ==
  /\ ~ended /\ open = <<>>
  /\ LET undefined == Fresh(ClaimAll(ir, scopes), ir.current_bb, Inst("UNDEFINED", 0, 0, 0))
     IN  ir' = Emit(undefined, ir.current_bb, Inst("RET", undefined.reg, 0, 0))
  /\ ended' = TRUE
  /\ UNCHANGED <<scopes, open, statements>>

ParseStatement ==
  \/ \E n \in Names, e \in Values : Let(n, e) \/ Assign(n, e)
  \/ \E n \in Names : Declare(n)
  \/ (\E e \in Results : Return(e)) \/ ReturnNothing
  \/ OpenBlock \/ CloseBlock
  \/ \E e \in Conds : If(e) \/ While(e)
  \/ Else
  \/ \E order \in Orders : EndThen(order)
  \/ \E order \in Orders, later \in Orders : EndElse(order, later) \/ EndWhile(order, later)
Parse == ParseStatement \/ EndFunction
===============================================================================
