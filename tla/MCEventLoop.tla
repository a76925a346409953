---------------------------- MODULE MCEventLoop ----------------------------
(* EventLoop with three coroutines: one that works, one that works or      *)
(* waits for it, and one that waits for either or both.                    *)
EXTENDS EventLoop

Do(op, ms, of) == [op |-> op, ms |-> ms, of |-> of]
Yielding   == Do("yield", 0, <<>>)
Sleeping(n) == Do("sleep", n, <<>>)
On(op, n, of) == Do(op, n, of)

Returning(s) == [steps |-> s, throws |-> FALSE]
Throwing(s)  == [steps |-> s, throws |-> TRUE]

Workers == {Returning(<<Sleeping(1)>>), Throwing(<<Sleeping(2)>>)}
Seconds == {Returning(<<Sleeping(2)>>), Returning(<<On("await", 0, <<1>>)>>),
            Returning(<<Yielding, On("join", 0, <<1, 3>>)>>)}
Thirds  == {Returning(<<On("timeout", 1, <<2>>), On("select", 0, <<1, 2>>)>>),
            Returning(<<On("timeout", 1, <<1>>)>>), Returning(<<On("timeout", 2, <<2>>)>>),
            Returning(<<On("select", 0, <<1, 2>>)>>), Returning(<<On("select", 0, <<2, 1>>)>>),
            Returning(<<Yielding, On("join", 0, <<2, 1>>)>>)}

AllPrograms == {<<w, s, t>> : w \in Workers, s \in Seconds, t \in Thirds}
FirstTwo == {1, 2}
=============================================================================
