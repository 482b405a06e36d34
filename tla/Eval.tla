-------------------------------- MODULE Eval --------------------------------
(***************************************************************************)
(* The expression evaluator of fd_eval.c: a scanner over the characters of *)
(* the expression, a precedence climbing parser that builds its tree in a  *)
(* heap the caller provides, and the evaluation of that tree.              *)
(*                                                                         *)
(* A character is a string of length one; a token is the range of the      *)
(* input it covers, as in the code.  A node is named by its index in the   *)
(* heap, and 0 names eval->error_node, the one node that is handed out     *)
(* again and again when there is no other.  A double is an exact signed    *)
(* ratio <<sign, numerator, denominator>>; what rounding does is left out, *)
(* the sign of zero is kept because fd_eval_as_boolean can see it.         *)
(***************************************************************************)
EXTENDS Integers, Sequences, FiniteSets

CONSTANTS Lexemes,      \* pieces of text, sequences of characters, that expressions are made of
          MaxLexemes,   \* bound: how many pieces an expression has
          HeapCounts,   \* numbers of nodes a caller gives
          Symbols       \* what the caller's get_symbol_value knows: [name -> value]

VARIABLES expression,   \* eval->input
          count,        \* eval->heap.count
          answer        \* what fd_eval_calculate and fd_eval_check returned

vars == <<expression, count, answer>>

-----------------------------------------------------------------------------
(* Values *)

Boolean(b) == [type |-> "boolean", v |-> b]
Integer(n) == [type |-> "integer", v |-> n]
Real(r)    == [type |-> "real", v |-> r]

Magnitude(n) == IF n < 0 THEN -n ELSE n
SignOf(n)    == IF n < 0 THEN -1 ELSE 1
IsZero(r)    == r[2] = 0
Ratio(n, d)  == <<SignOf(n), Magnitude(n), d>>
Signed(r)    == r[1] * r[2]

RealTimes(a, b)  == <<a[1] * b[1], a[2] * b[2], a[3] * b[3]>>
RealDivide(a, b) == IF IsZero(b) THEN <<1, 0, 1>> ELSE <<a[1] * b[1], a[2] * b[3], a[3] * b[2]>>
RealNegate(a)    == <<-a[1], a[2], a[3]>>
RealPlus(a, b) ==
    IF IsZero(a) /\ IsZero(b) /\ a[1] = -1 /\ b[1] = -1
    THEN a
    ELSE Ratio(Signed(a) * b[3] + Signed(b) * a[3], a[3] * b[3])
RealLess(a, b)  == Signed(a) * b[3] < Signed(b) * a[3]
RealEqual(a, b) == Signed(a) * b[3] = Signed(b) * a[3]

\* C division truncates towards zero.
Quotient(a, b) == SignOf(a) * SignOf(b) * (Magnitude(a) \div Magnitude(b))

AsReal(x) == CASE x.type = "boolean" -> Real(<<1, IF x.v THEN 1 ELSE 0, 1>>)
               [] x.type = "integer" -> Real(Ratio(x.v, 1))
               [] OTHER -> x

\* Only reached with a boolean or an integer: a real operand is promoted first.
AsInteger(x) == IF x.type = "boolean" THEN Integer(IF x.v THEN 1 ELSE 0) ELSE x

\* The union is read as an integer even when it holds a double, so every
\* double but +0.0 is true: -0.0 has a bit set.
AsBoolean(x) == CASE x.type = "integer" -> Boolean(x.v # 0)
                  [] x.type = "real" -> Boolean(x.v # <<1, 0, x.v[3]>>)
                  [] OTHER -> x

UnaryPlus(x) == x
UnaryMinus(x) == CASE x.type = "boolean" -> Boolean(~x.v)
                   [] x.type = "integer" -> Integer(-x.v)
                   [] OTHER -> Real(RealNegate(x.v))

\* For a real the 1.0 or 0.0 is stored in the union and its low byte is then
\* read as the boolean: zero either way.
UnaryNot(x) == CASE x.type = "boolean" -> Boolean(~x.v)
                 [] x.type = "integer" -> Boolean(x.v = 0)
                 [] OTHER -> Boolean(FALSE)

BinaryEvaluate(a, b, OfReal(_, _), OfInteger(_, _), OfBoolean(_, _)) ==
    CASE "real" \in {a.type, b.type} -> Real(OfReal(AsReal(a).v, AsReal(b).v))
      [] "integer" \in {a.type, b.type} -> Integer(OfInteger(AsInteger(a).v, AsInteger(b).v))
      [] OTHER -> Boolean(OfBoolean(a.v, b.v))

Multiply(a, b) == BinaryEvaluate(a, b, RealTimes, LAMBDA x, y: x * y, LAMBDA x, y: x /\ y)
Divide(a, b) ==
    BinaryEvaluate(a, b, RealDivide, LAMBDA x, y: IF y # 0 THEN Quotient(x, y) ELSE 0,
                   LAMBDA x, y: x \/ y)
Add(a, b) == BinaryEvaluate(a, b, RealPlus, LAMBDA x, y: x + y, LAMBDA x, y: x \/ y)
Subtract(a, b) ==
    BinaryEvaluate(a, b, LAMBDA x, y: RealPlus(x, RealNegate(y)), LAMBDA x, y: x - y,
                   LAMBDA x, y: x /\ y)

BinaryBooleanEvaluate(a, b, OfReal(_, _), OfInteger(_, _), OfBoolean(_, _)) ==
    CASE "real" \in {a.type, b.type} -> Boolean(OfReal(AsReal(a).v, AsReal(b).v))
      [] "integer" \in {a.type, b.type} -> Boolean(OfInteger(AsInteger(a).v, AsInteger(b).v))
      [] OTHER -> Boolean(OfBoolean(a.v, b.v))

AtMost(a, b) == BinaryBooleanEvaluate(a, b, LAMBDA x, y: ~RealLess(y, x),
                                      LAMBDA x, y: x <= y, LAMBDA x, y: ~x \/ y)
LessThan(a, b) == BinaryBooleanEvaluate(a, b, RealLess,
                                        LAMBDA x, y: x < y, LAMBDA x, y: ~x /\ y)
AtLeast(a, b) == BinaryBooleanEvaluate(a, b, LAMBDA x, y: ~RealLess(x, y),
                                       LAMBDA x, y: x >= y, LAMBDA x, y: x \/ ~y)
GreaterThan(a, b) == BinaryBooleanEvaluate(a, b, LAMBDA x, y: RealLess(y, x),
                                           LAMBDA x, y: x > y, LAMBDA x, y: x /\ ~y)
EqualTo(a, b) == BinaryBooleanEvaluate(a, b, RealEqual,
                                       LAMBDA x, y: x = y, LAMBDA x, y: x = y)
NotEqualTo(a, b) == BinaryBooleanEvaluate(a, b, LAMBDA x, y: ~RealEqual(x, y),
                                          LAMBDA x, y: x # y, LAMBDA x, y: x # y)

BinaryBooleanDemote(a, b, OfBoolean(_, _)) == Boolean(OfBoolean(AsBoolean(a).v, AsBoolean(b).v))
And(a, b) == BinaryBooleanDemote(a, b, LAMBDA x, y: x /\ y)
Or(a, b)  == BinaryBooleanDemote(a, b, LAMBDA x, y: x \/ y)

-----------------------------------------------------------------------------
(* Scanner *)

UnaryOperators == <<  <<"+">>, <<"-">>, <<"!">> >>
UnaryPrecedence == 7

BinaryOperators ==
    << [string |-> <<"*">>, precedence |-> 6], [string |-> <<"/">>, precedence |-> 6],
       [string |-> <<"+">>, precedence |-> 5], [string |-> <<"-">>, precedence |-> 5],
       [string |-> <<"<", "=">>, precedence |-> 4], [string |-> <<"<">>, precedence |-> 4],
       [string |-> <<">", "=">>, precedence |-> 4], [string |-> <<">">>, precedence |-> 4],
       [string |-> <<"=", "=">>, precedence |-> 3], [string |-> <<"!", "=">>, precedence |-> 3],
       [string |-> <<"&", "&">>, precedence |-> 2], [string |-> <<"|", "|">>, precedence |-> 1] >>

UnaryEvaluate(op, x) ==
    CASE op = <<"+">> -> UnaryPlus(x) [] op = <<"-">> -> UnaryMinus(x) [] OTHER -> UnaryNot(x)

OperatorEvaluate(op, a, b) ==
    CASE op = <<"*">> -> Multiply(a, b)         [] op = <<"/">> -> Divide(a, b)
      [] op = <<"+">> -> Add(a, b)              [] op = <<"-">> -> Subtract(a, b)
      [] op = <<"<", "=">> -> AtMost(a, b)      [] op = <<"<">> -> LessThan(a, b)
      [] op = <<">", "=">> -> AtLeast(a, b)     [] op = <<">">> -> GreaterThan(a, b)
      [] op = <<"=", "=">> -> EqualTo(a, b)     [] op = <<"!", "=">> -> NotEqualTo(a, b)
      [] op = <<"&", "&">> -> And(a, b)         [] OTHER -> Or(a, b)

Digits  == {"0", "1", "2", "3", "4", "5", "6", "7", "8", "9"}
IsDigit(c) == c \in Digits
IsAlphabetic(c) == c \in {"a", "e", "f", "l", "r", "s", "t", "u", "x"}
IsIdentifier(c) == IsAlphabetic(c) \/ IsDigit(c) \/ c = "_"

\* The first position at or after i whose character is not in the class.
SkipClass(input, i, Class(_)) ==
    CHOOSE j \in i..(Len(input) + 1) : /\ \A k \in i..(j - 1) : Class(input[k])
                                       /\ j <= Len(input) => ~Class(input[j])

StartsWith(input, i, s) ==
    i + Len(s) - 1 <= Len(input) /\ SubSeq(input, i, i + Len(s) - 1) = s

\* The length of the first operator of the table that the input continues with, or 0.
OperatorLength(input, i) ==
    LET binary == {k \in DOMAIN BinaryOperators : StartsWith(input, i, BinaryOperators[k].string)}
        unary  == {k \in DOMAIN UnaryOperators : StartsWith(input, i, UnaryOperators[k])}
    IN  IF binary # {}
        THEN Len(BinaryOperators[CHOOSE k \in binary : \A m \in binary : k <= m].string)
        ELSE IF unary # {} THEN 1 ELSE 0

NumberLength(input, i) ==
    LET whole == SkipClass(input, i, IsDigit)
    IN  (IF whole <= Len(input) /\ input[whole] = "."
         THEN SkipClass(input, whole + 1, IsDigit) ELSE whole) - i

\* A token [at, length]: at 0 is the end of the input, length 0 elsewhere is
\* a character that starts no token.
TokenLength(input, i, operatorLength) ==
    CASE operatorLength > 0 -> operatorLength
      [] operatorLength = 0 /\ IsDigit(input[i]) -> NumberLength(input, i)
      [] operatorLength = 0 /\ IsAlphabetic(input[i]) -> SkipClass(input, i, IsIdentifier) - i
      [] OTHER -> IF input[i] \in {"(", ")"} THEN 1 ELSE 0
TokenAt(input, i) ==
    IF i > Len(input) THEN [at |-> 0, length |-> 0]
    ELSE [at |-> i, length |-> TokenLength(input, i, OperatorLength(input, i))]
NextToken(input, index) == TokenAt(input, SkipClass(input, index, LAMBDA c: c = " "))

Text(input, token) == SubSeq(input, token.at, token.at + token.length - 1)

\* fd_eval_string_equals_string: two empty strings are equal wherever they point.
IsText(input, token, s) == token.length = Len(s) /\ (Len(s) = 0 \/ Text(input, token) = s)

IsValue(input, token) ==
    token.length > 0 /\ (IsAlphabetic(input[token.at]) \/ IsDigit(input[token.at]))

-----------------------------------------------------------------------------
(* Parser.  ev is the fd_eval_t: input, index, count, heap, error_node, error. *)

ErrorNode == 0
EmptyLeaf == [type |-> "leaf", token |-> [at |-> 0, length |-> 0]]

Allocate(ev, node) ==
    IF Len(ev.heap) >= ev.count
    THEN [ev |-> [ev EXCEPT !.error = @ \/ ev.count > 0, !.error_node = node], node |-> ErrorNode]
    ELSE [ev |-> [ev EXCEPT !.heap = Append(@, node)], node |-> Len(ev.heap) + 1]

Past(ev, token) == [ev EXCEPT !.index = token.at + token.length]

ExpectToken(ev, token, s) ==
    IF IsText(ev.input, token, s) THEN Past(ev, token) ELSE [ev EXCEPT !.error = TRUE]
Expect(ev, s) == ExpectToken(ev, NextToken(ev.input, ev.index), s)

IsUnary(input, token) == \E k \in DOMAIN UnaryOperators : IsText(input, token, UnaryOperators[k])
BinaryOf(input, token) ==
    {BinaryOperators[k] : k \in {m \in DOMAIN BinaryOperators :
                                 IsText(input, token, BinaryOperators[m].string)}}

RECURSIVE Expression(_, _), Operand(_, _), Operators(_, _, _, _)

Operand(ev, token) ==
    CASE IsUnary(ev.input, token) ->
             LET sub == Expression(Past(ev, token), UnaryPrecedence)
             IN  Allocate(sub.ev, [type |-> "unary", operator |-> Text(ev.input, token),
                                   node |-> sub.node])
      [] IsText(ev.input, token, <<"(">>) ->
             LET sub == Expression(Past(ev, token), 0) IN [sub EXCEPT !.ev = Expect(@, <<")">>)]
      [] IsValue(ev.input, token) -> Allocate(Past(ev, token), [type |-> "leaf", token |-> token])
      [] OTHER -> [ev |-> [ev EXCEPT !.error = TRUE], node |-> ErrorNode]
HighestPriority(ev) == Operand(ev, NextToken(ev.input, ev.index))

\* The loop of fd_eval_expression: every operator associates to the left.
Continue(parsed, precedence) ==
    Operators(parsed.ev, parsed.node, NextToken(parsed.ev.input, parsed.ev.index), precedence)
Operators(ev, node, token, precedence) ==
    LET binary == {b \in BinaryOf(ev.input, token) : b.precedence >= precedence}
    IN  IF binary = {} THEN [ev |-> ev, node |-> node]
        ELSE LET b     == CHOOSE x \in binary : TRUE
                 right == Expression(Past(ev, token), 1 + b.precedence)
             IN  Continue(Allocate(right.ev, [type |-> "binary", operator |-> b.string,
                                              left |-> node, right |-> right.node]),
                          precedence)

Expression(ev, precedence) == Continue(HighestPriority(ev), precedence)

Parse(input, heapCount) ==
    LET ev   == [input |-> input, index |-> 1, count |-> heapCount, heap |-> <<>>,
                 error_node |-> EmptyLeaf, error |-> FALSE]
        tree == Expression(ev, 0)
    IN  [tree EXCEPT !.ev = Expect(@, <<>>)]

Check(input) == ~Parse(input, 0).ev.error

-----------------------------------------------------------------------------
(* Evaluation *)

NodeAt(ev, n) == IF n = ErrorNode THEN ev.error_node ELSE ev.heap[n]

ErrorValue == Boolean(FALSE)

DigitValue(c) == CHOOSE d \in 0..9 : <<"0", "1", "2", "3", "4", "5", "6", "7", "8", "9">>[d + 1] = c

RECURSIVE Number(_)
Number(s) == IF s = <<>> THEN 0 ELSE 10 * Number(SubSeq(s, 1, Len(s) - 1)) + DigitValue(s[Len(s)])

ParseInteger(s) == Integer(Number(s))
ParseReal(s) ==
    LET point == CHOOSE i \in DOMAIN s : s[i] = "."
        part  == SubSeq(s, point + 1, Len(s))
        scale == 10 ^ Len(part)
    IN  Real(<<1, Number(SubSeq(s, 1, point - 1)) * scale + Number(part), scale>>)

\* An evaluation returns the value and whether it set eval->error.
GetSymbolValue(s) ==
    IF s \in DOMAIN Symbols THEN [value |-> Symbols[s], error |-> FALSE]
    ELSE [value |-> ErrorValue, error |-> TRUE]

\* Both the literal true and the literal false are true (line 830).
EvaluateLeaf(ev, leaf) ==
    LET s == Text(ev.input, leaf.token)
        Found(x) == [value |-> x, error |-> FALSE]
    IN  CASE leaf.token.length = 0 -> Found(ErrorValue)
          [] s = <<"t", "r", "u", "e">> -> Found(Boolean(TRUE))
          [] s = <<"f", "a", "l", "s", "e">> -> Found(Boolean(TRUE))
          [] leaf.token.length > 0 /\ IsDigit(s[1]) ->
                 Found(IF \E i \in DOMAIN s : s[i] = "." THEN ParseReal(s) ELSE ParseInteger(s))
          [] OTHER -> GetSymbolValue(s)

RECURSIVE Evaluate(_, _)
Evaluate(ev, n) ==
    LET node == NodeAt(ev, n)
    IN  CASE node.type = "leaf" -> EvaluateLeaf(ev, node)
          [] node.type = "unary" ->
                 LET x == Evaluate(ev, node.node)
                 IN  [x EXCEPT !.value = UnaryEvaluate(node.operator, @)]
          [] OTHER ->
                 LET a == Evaluate(ev, node.left)
                     b == Evaluate(ev, node.right)
                 IN  [value |-> OperatorEvaluate(node.operator, a.value, b.value),
                      error |-> a.error \/ b.error]

Operands(ev, n) ==
    LET node == NodeAt(ev, n)
    IN  CASE node.type = "leaf" -> {} [] node.type = "unary" -> {node.node}
          [] OTHER -> {node.left, node.right}

RECURSIVE Reached(_, _)
Reached(ev, S) ==
    LET T == S \cup UNION {Operands(ev, n) : n \in S} IN IF T = S THEN S ELSE Reached(ev, T)

\* fd_eval_evaluate does not return: some node is its own descendant.
Diverges(ev, tree) == \E n \in Reached(ev, {tree}) : n \in Reached(ev, Operands(ev, n))

\* fd_eval_calculate evaluates the tree whether or not the parse succeeded.
Answer(ev, x) == [returns |-> TRUE, success |-> ~ev.error /\ ~x.error, value |-> x.value]
Evaluated(ev, node) ==
    IF Diverges(ev, node) THEN [returns |-> FALSE, success |-> FALSE, value |-> ErrorValue]
    ELSE Answer(ev, Evaluate(ev, node))
CalculateTree(tree) == Evaluated(tree.ev, tree.node)
Calculate(input, heapCount) == CalculateTree(Parse(input, heapCount))

-----------------------------------------------------------------------------
(* One expression, checked and calculated *)

RECURSIVE Joined(_)
Joined(pieces) == IF pieces = <<>> THEN <<>> ELSE Head(pieces) \o Joined(Tail(pieces))

NoAnswer == [returns |-> FALSE]

Init ==
    /\ \E n \in 0..MaxLexemes : \E pieces \in [1..n -> Lexemes] : expression = Joined(pieces)
    /\ count \in HeapCounts
    /\ answer = NoAnswer

Run ==
    /\ answer = NoAnswer
    /\ answer' = [check |-> Check(expression), result |-> Calculate(expression, count)]
    /\ UNCHANGED <<expression, count>>

Next == Run

Spec == Init /\ [][Next]_vars

-----------------------------------------------------------------------------
(* Reference: what an expression means, by splitting it at its last and    *)
(* weakest operator, over exact ratios.                                    *)

RECURSIVE TokensFrom(_, _)
TokensFrom(input, i) ==
    LET t == NextToken(input, i)
    IN  IF t.length = 0 THEN <<>> ELSE <<Text(input, t)>> \o TokensFrom(input, t.at + t.length)

Depth(ts, i) == Cardinality({k \in 1..i : ts[k] = <<"(">>}) - Cardinality({k \in 1..i : ts[k] = <<")">>})
EndsOperand(t) == t = <<")">> \/ IsAlphabetic(t[1]) \/ IsDigit(t[1])
Precedence(t) == {BinaryOperators[k].precedence : k \in {m \in DOMAIN BinaryOperators :
                                                         BinaryOperators[m].string = t}}
Splits(ts) == {i \in 2..Len(ts) : Depth(ts, i) = 0 /\ Precedence(ts[i]) # {} /\ EndsOperand(ts[i - 1])}
Weakest(ts) ==
    CHOOSE i \in Splits(ts) : \A j \in Splits(ts) \ {i} :
        LET pi == CHOOSE p \in Precedence(ts[i]) : TRUE
            pj == CHOOSE p \in Precedence(ts[j]) : TRUE
        IN  pi < pj \/ (pi = pj /\ i > j)

Meaning(x) == CASE x.type = "boolean" -> <<IF x.v THEN 1 ELSE 0, 1>>
                [] x.type = "integer" -> <<x.v, 1>>
                [] OTHER -> <<Signed(x.v), x.v[3]>>

\* Comparisons order the numbers that the operands stand for; sums and
\* products are those of the numbers, unless both operands are boolean.
Compares(op, a, b, r) ==
    LET l == Meaning(a)[1] * Meaning(b)[2]
        s == Meaning(b)[1] * Meaning(a)[2]
    IN  CASE op = <<"<">> -> r.v = (l < s)  [] op = <<"<", "=">> -> r.v = (l <= s)
          [] op = <<">">> -> r.v = (l > s)  [] op = <<">", "=">> -> r.v = (l >= s)
          [] op = <<"=", "=">> -> r.v = (l = s) [] op = <<"!", "=">> -> r.v = (l # s)
          [] OTHER -> TRUE
Computes(op, a, b, r) ==
    LET x == Meaning(a)
        y == Meaning(b)
        z == Meaning(r)
    IN  CASE op = <<"+">> -> z[1] * x[2] * y[2] = (x[1] * y[2] + y[1] * x[2]) * z[2]
          [] op = <<"-">> -> z[1] * x[2] * y[2] = (x[1] * y[2] - y[1] * x[2]) * z[2]
          [] op = <<"*">> -> z[1] * x[2] * y[2] = x[1] * y[1] * z[2]
          [] OTHER -> TRUE

\* The set of values of a sequence of tokens: empty when it is no expression.
RECURSIVE Denotes(_)
Denotes(ts) ==
    CASE ts = <<>> -> {}
      [] Splits(ts) # {} ->
             LET i == Weakest(ts)
                 op == ts[i]
             IN  {OperatorEvaluate(op, a, b) : a \in Denotes(SubSeq(ts, 1, i - 1)),
                                               b \in Denotes(SubSeq(ts, i + 1, Len(ts)))}
      [] Splits(ts) = {} /\ ts[1] \in {UnaryOperators[k] : k \in DOMAIN UnaryOperators} ->
             {UnaryEvaluate(ts[1], x) : x \in Denotes(Tail(ts))}
      [] Splits(ts) = {} /\ ts[1] = <<"(">> /\ ts[Len(ts)] = <<")">> /\ Len(ts) > 2 ->
             Denotes(SubSeq(ts, 2, Len(ts) - 1))
      [] Len(ts) = 1 /\ EndsOperand(ts[1]) /\ ts[1] # <<")">> ->
             {EvaluateLeaf([input |-> ts[1]],
                           [token |-> [at |-> 1, length |-> Len(ts[1])]]).value}
      [] OTHER -> {}

Samples == {Boolean(TRUE), Boolean(FALSE), Integer(0), Integer(-2), Real(<<1, 3, 2>>), Real(<<-1, 0, 1>>)}

\* Every operator on every pair of types computes what the numbers say.
OperatorsAgree ==
    \A a, b \in Samples, k \in DOMAIN BinaryOperators :
        LET op == BinaryOperators[k].string
            r  == OperatorEvaluate(op, a, b)
        IN  /\ Compares(op, a, b, r)
            /\ "boolean" \notin {a.type, b.type} => Computes(op, a, b, r)

(***************************************************************************)
(* The parser against the reference: fd_eval_check accepts exactly the     *)
(* texts whose tokens, up to the first character that starts no token,     *)
(* form an expression; with enough nodes fd_eval_calculate succeeds on     *)
(* just those whose symbols are known and returns what the reference says  *)
(* (precedence, left association, unary operators); and the evaluation of  *)
(* a tree only ever fails to return when the heap ran out of nodes         *)
(* (fd_eval.c 308-346, 359, 133-143).                                      *)
(***************************************************************************)
EvalAgrees ==
    answer # NoAnswer =>
        LET ts    == TokensFrom(expression, 1)
            means == Denotes(ts)
            known == \A i \in DOMAIN ts :
                        IsAlphabetic(ts[i][1]) => ts[i] \in DOMAIN Symbols \cup
                            {<<"t", "r", "u", "e">>, <<"f", "a", "l", "s", "e">>}
            enough == count >= Len(expression)
        IN  /\ answer.check <=> means # {}
            /\ enough => /\ answer.result.returns
                         /\ answer.result.success <=> means # {} /\ known
                         /\ answer.result.success => means = {answer.result.value}
            /\ answer.result.success => answer.check /\ known
            /\ expression = <<>> => OperatorsAgree
=============================================================================
