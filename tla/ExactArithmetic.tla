-------------------------- MODULE ExactArithmetic --------------------------
(***************************************************************************)
(* The exact core of src/runtime/providers/deterministic.ts: the rewriting *)
(* of signs, the shunting-yard pass and the stack evaluation, over tokens, *)
(* beside the grammar they are meant to implement.                         *)
(*                                                                         *)
(* Numbers are integers: a quotient or power that is not one is declined   *)
(* by both sides, and so is a result past Largest, which stands for the    *)
(* end of the finite doubles.  An answer is [ok, v]; null is None.         *)
(***************************************************************************)
EXTENDS Integers, Sequences, FiniteSets, SequencesExt

Num(v) == [t |-> "num", v |-> v]
Op(o) == [t |-> "op", o |-> o]
LParen == [t |-> "lparen", v |-> 0]
RParen == [t |-> "rparen", v |-> 0]

None == [ok |-> FALSE, v |-> 0]
Some(v) == [ok |-> TRUE, v |-> v]

PRECEDENCE(o) == CASE o \in {"+", "-"} -> 1 [] o \in {"*", "/", "%"} -> 2 [] o = "^" -> 3

RIGHT_ASSOC == {"^"}

magnitude(n) == IF n < 0 THEN -n ELSE n

Largest == 10000

finite(v) == IF magnitude(v) > Largest THEN None ELSE Some(v)

power(a, b) ==
    FoldLeft(LAMBDA p, i : IF magnitude(p) > Largest THEN p ELSE p * a, 1, [i \in 1 .. b |-> i])

(* Truncated division and remainder, as in the code.                        *)
applyOp(o, a, b) ==
    CASE o = "+" -> finite(a + b)
      [] o = "-" -> finite(a - b)
      [] o = "*" -> finite(a * b)
      [] o = "/" -> IF b = 0 \/ magnitude(a) % magnitude(b) # 0 THEN None
                    ELSE LET q == magnitude(a) \div magnitude(b)
                         IN  Some(IF (a < 0) = (b < 0) THEN q ELSE -q)
      [] o = "%" -> IF b = 0 THEN None
                    ELSE LET r == magnitude(a) % magnitude(b)
                         IN  Some(IF a < 0 THEN -r ELSE r)
      [] o = "^" -> IF b < 0 THEN None ELSE finite(power(a, b))

----------------------------------------------------------------------------
(* extractExpression() on a run of arithmetic characters: what may trail an *)
(* expression in prose is cut off, and closers without an opener dropped    *)
(* from the right.                                                          *)
cutOperators(tokens) ==
    LET keep == {i \in 0 .. Len(tokens) : i = 0 \/ tokens[i].t # "op"}
    IN  SubSeq(tokens, 1, CHOOSE i \in keep : \A o \in keep : o <= i)

trimDanglingOperators(tokens) ==
    FoldLeft(LAMBDA s, n :
                LET closers == {i \in DOMAIN s : s[i].t = "rparen"}
                    openers == {i \in DOMAIN s : s[i].t = "lparen"}
                    last == CHOOSE i \in closers : \A o \in closers : o <= i
                IN  IF Cardinality(closers) <= Cardinality(openers) THEN s
                    ELSE cutOperators(RemoveAt(s, last)),
             cutOperators(tokens), tokens)

(* A sign is one at the start, after an operator and after an opening       *)
(* parenthesis; it takes the number or the whole group that follows.  The   *)
(* tokens of a signed group are copied as they are.                         *)
isSign(out, tk) ==
    /\ tk.t = "op" /\ tk.o \in {"+", "-"}
    /\ out = <<>> \/ Last(out).t \in {"op", "lparen"}

depthAt(tokens, from, to) ==
    FoldLeft(LAMBDA d, i : CASE tokens[i].t = "lparen" -> d + 1
                             [] tokens[i].t = "rparen" -> d - 1 [] OTHER -> d,
             0, [i \in 1 .. to - from + 1 |-> from + i - 1])

groupEnds(tokens, from) == {j \in from .. Len(tokens) : depthAt(tokens, from, j) = 0}

groupEnd(tokens, from) ==
    CHOOSE j \in groupEnds(tokens, from) : \A o \in groupEnds(tokens, from) : j <= o

(* Mutant: the zero a sign stands on is not put in parentheses. *)
normalise_Unwrapped(tokens) ==
    FoldLeft(LAMBDA s, k :
                IF ~s.ok \/ k <= s.done THEN s
                ELSE IF ~isSign(s.out, tokens[k]) THEN [s EXCEPT !.out = Append(@, tokens[k])]
                ELSE [s EXCEPT !.out = @ \o <<Num(0), tokens[k]>>],
             [out |-> <<>>, done |-> 0, ok |-> TRUE], [k \in DOMAIN tokens |-> k])

normalise(tokens) ==
    FoldLeft(LAMBDA s, k :
                IF ~s.ok \/ k <= s.done THEN s
                ELSE IF ~isSign(s.out, tokens[k]) THEN [s EXCEPT !.out = Append(@, tokens[k])]
                ELSE IF k = Len(tokens) \/ tokens[k + 1].t \notin {"num", "lparen"}
                THEN [s EXCEPT !.ok = FALSE]
                ELSE IF tokens[k + 1].t = "num"
                THEN [s EXCEPT !.done = k + 1,
                               !.out = Append(@, Num(IF tokens[k].o = "-" THEN -tokens[k + 1].v
                                                     ELSE tokens[k + 1].v))]
                ELSE IF groupEnds(tokens, k + 1) = {} THEN [s EXCEPT !.ok = FALSE]
                ELSE LET end == groupEnd(tokens, k + 1)
                     IN  [s EXCEPT !.done = end,
                                   !.out = @ \o <<LParen, Num(0), tokens[k]>>
                                             \o SubSeq(tokens, k + 1, end) \o <<RParen>>],
             [out |-> <<>>, done |-> 0, ok |-> TRUE], [k \in DOMAIN tokens |-> k])

----------------------------------------------------------------------------
(* The operators an incoming one pushes out: those on top of the stack that *)
(* bind more tightly, or equally and to the left.                           *)
yields(top, o) ==
    /\ top.t = "op"
    /\ \/ PRECEDENCE(top.o) > PRECEDENCE(o)
       \/ PRECEDENCE(top.o) = PRECEDENCE(o) /\ o \notin RIGHT_ASSOC

(* The stack is popped down to the last of the positions that stay.         *)
keptBelow(staying) == Max(staying \cup {0})

shunt(tokens) ==
    LET move(s, n) == [s EXCEPT !.output = @ \o Reverse(SubSeq(s.ops, n + 1, Len(s.ops))),
                                !.ops = SubSeq(@, 1, n)]
        step(s, tk) ==
            IF ~s.ok THEN s
            ELSE CASE tk.t = "num" -> [s EXCEPT !.output = Append(@, tk)]
                   [] tk.t = "op" ->
                        LET m == move(s, keptBelow({i \in DOMAIN s.ops : ~yields(s.ops[i], tk.o)}))
                        IN  [m EXCEPT !.ops = Append(@, tk)]
                   [] tk.t = "lparen" -> [s EXCEPT !.ops = Append(@, tk)]
                   [] tk.t = "rparen" ->
                        LET n == keptBelow({i \in DOMAIN s.ops : s.ops[i].t = "lparen"})
                        IN  IF n = 0 THEN [s EXCEPT !.ok = FALSE]
                            ELSE [move(s, n) EXCEPT !.ops = Front(@)]
        end == FoldLeft(step, [output |-> <<>>, ops |-> <<>>, ok |-> TRUE], tokens)
    IN  IF ~end.ok \/ \E i \in DOMAIN end.ops : end.ops[i].t = "lparen"
        THEN [ok |-> FALSE, output |-> <<>>]
        ELSE [ok |-> TRUE, output |-> move(end, 0).output]

evaluateOutput(output) ==
    LET step(s, tk) ==
            IF ~s.ok THEN s
            ELSE IF tk.t = "num" THEN [s EXCEPT !.stack = Append(@, tk.v)]
            ELSE IF Len(s.stack) < 2 THEN [s EXCEPT !.ok = FALSE]
            ELSE LET n == Len(s.stack)
                     r == applyOp(tk.o, s.stack[n - 1], s.stack[n])
                 IN  [ok |-> r.ok, stack |-> Append(SubSeq(s.stack, 1, n - 2), r.v)]
        end == FoldLeft(step, [ok |-> TRUE, stack |-> <<>>], output)
    IN  IF end.ok /\ Len(end.stack) = 1 THEN Some(end.stack[1]) ELSE None

evaluateTokens(tokens) ==
    LET n == normalise(tokens)
        s == shunt(n.out)
    IN  IF ~n.ok \/ ~s.ok THEN None ELSE evaluateOutput(s.output)

computeExactly(tokens) ==
    LET expr == trimDanglingOperators(tokens)
    IN  IF {"num", "op"} \subseteq {expr[i].t : i \in DOMAIN expr} THEN evaluateTokens(expr) ELSE None

----------------------------------------------------------------------------
(* The grammar: sums of products of powers of primaries, a primary being a  *)
(* number or a group with an optional sign.  The values of tokens[i .. j]   *)
(* read at level l; none where they are not a phrase of that level.         *)
Values(tokens) ==
    LET binary(ops, left, right, i, j, v) ==
            UNION {{IF a.ok /\ b.ok THEN applyOp(tokens[k].o, a.v, b.v) ELSE None :
                        a \in v[left, i, k - 1], b \in v[right, k + 1, j]} :
                   k \in {k \in i + 1 .. j - 1 : tokens[k].t = "op" /\ tokens[k].o \in ops}}
        f[l \in 1 .. 5, i \in 1 .. Len(tokens) + 1, j \in 0 .. Len(tokens)] ==
            IF i > j THEN {}
            ELSE CASE l = 1 -> f[2, i, j] \cup binary({"+", "-"}, 1, 2, i, j, f)
                   [] l = 2 -> f[3, i, j] \cup binary({"*", "/", "%"}, 2, 3, i, j, f)
                   [] l = 3 -> f[4, i, j] \cup binary({"^"}, 4, 3, i, j, f)
                   [] l = 4 -> f[5, i, j] \cup
                        (IF tokens[i].t = "op" /\ tokens[i].o \in {"+", "-"}
                         THEN {IF a.ok THEN applyOp(tokens[i].o, 0, a.v) ELSE None : a \in f[5, i + 1, j]}
                         ELSE {})
                   [] l = 5 -> IF i = j THEN (IF tokens[i].t = "num" THEN {Some(tokens[i].v)} ELSE {})
                               ELSE IF tokens[i].t = "lparen" /\ tokens[j].t = "rparen"
                               THEN f[1, i + 1, j - 1] ELSE {}
    IN  IF tokens = <<>> THEN {} ELSE f[1, 1, Len(tokens)]
=============================================================================
