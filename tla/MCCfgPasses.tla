----------------------------- MODULE MCCfgPasses -----------------------------
(***************************************************************************)
(* Small functions for CfgPasses.                                          *)
(***************************************************************************)
EXTENDS CfgPasses

\* A function from its blocks, numbered 1, 2, ...: the edges are stored as
\* addInstruction stores them while the function is built.
Build(blocks) ==
    FoldLeft(LinkAll, [list |-> [i \in DOMAIN blocks |-> i], at |-> blocks],
             [i \in DOMAIN blocks |-> i])

Br(t) == Term("br", <<t>>, Undef)
If(t, e, i) == Term("condbr", <<t, e>>, Opaque(i))
Return(v) == Term("ret", <<>>, v)
Use(at, v) == <<Inst("use", at, v)>>
NoCallee == Build(<<Block(<<>>, <<>>, Return(Obj))>>)

\* Graphs of four blocks, the last of which returns.
Shapes ==
    LET Targets == {<<t>> : t \in 2..4} \cup {x \in (2..4) \X (2..4) : x[1] # x[2]}
    IN {s \in [1..3 -> Targets] :
          \A b \in 2..4 : \E a \in 1..3 : a # b /\ Holds(s[a], b)}

PredsIn(s, b) == {a \in 1..3 : Holds(s[a], b)}

\* Shape s, the blocks in work observed, and, unless at is 0, a phi node in
\* block at that is null on the edges from nulls: the block tests it if it
\* branches and else uses it.
Graph(s, work, at, nulls) ==
    LET phi(b) == IF b # at THEN <<>>
                  ELSE <<[id |-> b, in |-> LET p == SetToSortSeq(PredsIn(s, b), LAMBDA x, y : x < y)
                                           IN [k \in DOMAIN p |->
                                 [val |-> IF p[k] \in nulls THEN Null ELSE Obj, from |-> p[k]]]]>>
        tests(b) == b = at /\ b # 4 /\ Len(s[b]) = 2
        v(b) == IF b = at THEN PhiVal(b) ELSE Obj
        term(b) == IF b = 4 THEN Return(v(4))
                   ELSE IF Len(s[b]) = 1 THEN Br(s[b][1])
                   ELSE Term("condbr", s[b], IF tests(b) THEN PhiVal(b) ELSE Opaque(b))
        blk(b) == Block(phi(b), IF b \in work THEN Use(b, v(b)) ELSE <<>>, term(b))
    IN Build(<<blk(1), blk(2), blk(3), blk(4)>>)

Graphs4 ==
    {<<s, work, at, nulls>> \in Shapes \X {{1, 4}, {1, 2, 4}, {1, 3, 4}, 1..4} \X {0, 2, 3, 4}
                                \X SUBSET (1..3) :
        /\ at = 0 => nulls = {}
        /\ at # 0 => Cardinality(PredsIn(s, at)) > 1 /\ nulls \subseteq PredsIn(s, at)}

-----------------------------------------------------------------------------
(* Functions that call another one *)

Pad(at) == <<Inst("pad", at, Undef), Inst("use", at, Exc)>>

\* What may be inlined: one return, two, a throw, a throw or a return, an
\* invoke whose cleanup resumes the exception, an exception caught inside, a
\* plain call that may throw.
Callees ==
    << Build(<<Block(<<>>, Use(20, Arg), Return(Arg))>>),
       Build(<<Block(<<>>, <<>>, If(2, 3, 20)), Block(<<>>, Use(22, Arg), Return(Null)),
               Block(<<>>, <<>>, Return(Arg))>>),
       Build(<<Block(<<>>, Use(20, Arg), Term("throw", <<>>, Arg))>>),
       Build(<<Block(<<>>, <<>>, If(2, 3, 20)), Block(<<>>, <<>>, Term("throw", <<>>, Arg)),
               Block(<<>>, Use(23, Arg), Return(Arg))>>),
       Build(<<Block(<<>>, <<>>, Term("invoke", <<2, 3>>, Opaque(20))),
               Block(<<>>, <<>>, Return(Null)),
               Block(<<>>, Pad(23), Term("resume", <<>>, Exc))>>),
       Build(<<Block(<<>>, <<>>, Term("throw", <<2>>, Arg)), Block(<<>>, Pad(22), Return(Null))>>),
       Build(<<Block(<<>>, Use(20, Arg) \o <<Inst("plain", 21, Opaque(20))>>, Return(Arg))>>) >>

\* A graph of four blocks in which block c calls the callee: it uses the
\* result, or tests it at once if it branches.
Call(s, c, test) ==
    LET f == Graph(s, 1..4, 0, {})
        call == Inst("call", c, Obj)
    IN IF test THEN [f EXCEPT !.at[c].body = Use(c, Obj) \o <<call>>, !.at[c].term.on = Ret]
       ELSE [f EXCEPT !.at[c].body = Use(c, Obj) \o <<call>> \o Use(c + 10, Ret)]

\* An invoke in block 2, perhaps in a loop; what follows it may be an invoke
\* with the same landing pad, which may have a phi node; the paths meet in
\* block 5.
Invoke(first, then, caught, joins, meets) ==
    LET ends(i) == CASE then = "br" -> Br(5) [] then = "loop" -> If(2, 5, 3)
                     [] then = "invoke" -> Term("invoke", <<5, 4>>, Opaque(3))
        lands == CASE caught = "br" -> Br(5) [] caught = "retry" -> If(2, 5, 4)
                   [] caught = "resume" -> Term("resume", <<>>, Exc)
        \* the landing pad tells its edges apart
        met == [id |-> 4, in |-> <<[val |-> Null, from |-> 2], [val |-> Obj, from |-> 3]>>]
        \* an edge into block 5 brings its own value
        edges == (IF first = "if" THEN <<[val |-> Null, from |-> 1]>> ELSE <<>>)
                 \o <<[val |-> Ret, from |-> 3]>>
                 \o (IF caught = "resume" THEN <<>> ELSE <<[val |-> Exc, from |-> 4]>>)
    IN Build(<<Block(<<>>, Use(1, Obj), IF first = "if" THEN If(2, 5, 1) ELSE Br(2)),
               Block(<<>>, Use(2, Obj), Term("invoke", <<3, 4>>, Obj)),
               Block(<<>>, Use(3, Ret), ends(3)),
               IF meets THEN Block(<<met>>, Pad(4) \o Use(14, PhiVal(4)), lands)
               ELSE Block(<<>>, Pad(4), lands),
               Block(IF joins THEN <<[id |-> 5, in |-> edges]>> ELSE <<>>,
                     Use(5, IF joins THEN PhiVal(5) ELSE Obj), Return(Obj))>>)

GraphInputs == {[graph |-> g] : g \in Graphs4}

CallInputs ==
    {[call |-> <<s, c, test>>, callee |-> i] : <<s, c, test, i>> \in
        {<<s, c, test, i>> \in Shapes \X {2, 3} \X BOOLEAN \X (1..7) :
            /\ test => Len(s[c]) = 2
            /\ Len(s[1]) + Len(s[2]) + Len(s[3]) <= 4}}

InvokeInputs ==
  {i \in
    [first : {"br", "if"}, then : {"br", "loop", "invoke"}, caught : {"br", "retry", "resume"},
     joins : BOOLEAN, meets : BOOLEAN, callee : 1..7] :
   i.meets => i.then = "invoke"}

AllInputs == GraphInputs \cup CallInputs \cup InvokeInputs

MCMain(g) ==
    CASE "graph" \in DOMAIN g -> Graph(g.graph[1], g.graph[2], g.graph[3], g.graph[4])
      [] "call" \in DOMAIN g  -> Call(g.call[1], g.call[2], g.call[3])
      [] OTHER                -> Invoke(g.first, g.then, g.caught, g.joins, g.meets)

MCCallee(g) == IF "callee" \in DOMAIN g THEN Callees[g.callee] ELSE NoCallee
=============================================================================
