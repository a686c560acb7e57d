---------------------------- MODULE MCJavaScript ----------------------------
EXTENDS JavaScript

MCScripts ==
    {[sets |-> s, reads |-> r, compiles |-> c] :
        s \in {{}, {"x"}, {"y"}}, r \in {"_node", "x"}, c \in BOOLEAN}
MCArgs == {<<>>, <<"x">>, <<"x", 1>>, <<"x", 1, "x", 2>>}
MCNames == {"a", "b"}
=============================================================================
