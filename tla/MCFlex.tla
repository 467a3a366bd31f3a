-------------------------------- MODULE MCFlex --------------------------------
EXTENDS FlexSession

\* With its size before it and a zero after it, it fills 256 bytes: offsets
\* beyond it need two.
Long == [i \in 1..254 |-> 97]

Scalars(ns, w, fixed) == <<"scalars", [ns |-> ns, w |-> w, fixed |-> fixed]>>

Numbers ==
    [puts |-> {<<"null", 0>>, <<"int", -1>>, <<"int", 300>>, <<"uint", 200>>,
               <<"float", 100>>, <<"bool", TRUE>>, <<"iint", -129>>,
               <<"iuint", 1>>, <<"ifloat", 1>>, <<"idouble", 1>>,
               <<"idouble", 100>>},
     may |-> {"vector", "typed"}, again |-> 1, force |-> 0, calls |-> 5]

Changed(force) ==
    [puts |-> {<<"int", 1>>, <<"uint", 1>>, <<"float", 1>>, <<"iuint", 1>>},
     may |-> {"vector", "typed", "mutate", "reuse"},
     again |-> 1, force |-> force, calls |-> 6]

Texts ==
    [puts |-> {<<"string", Long>>, <<"string", <<97>>>>,
               <<"blob", <<1, 2>>>>, <<"key", <<97>>>>,
               Scalars(<<1, -2>>, 1, FALSE), Scalars(<<1, 2, 3>>, 0, TRUE)},
     may |-> {"vector", "typed"}, again |-> 1, force |-> 0, calls |-> 6]

Shared ==
    [puts |-> {<<"string", Long>>, <<"string", <<97>>>>, <<"string", <<>>>>},
     may |-> {"vector", "undo", "reuse", "clear", "mutate"},
     again |-> 1, force |-> 0, calls |-> 6]

Maps ==
    [puts |-> {<<"key", <<97>>>>, <<"key", <<200>>>>, <<"int", 1>>,
               <<"string", Long>>},
     may |-> {"map", "clear"}, again |-> 1, force |-> 0, calls |-> 9]

Keys3 ==
    [puts |-> {<<"key", <<97>>>>, <<"key", <<97, 98>>>>, <<"key", <<98>>>>,
               <<"int", 1>>},
     may |-> {"map"}, again |-> 1, force |-> 0, calls |-> 9]

Nested ==
    [puts |-> {<<"key", <<97>>>>, <<"int", 1>>},
     may |-> {"map", "vector", "undo"}, again |-> 1, force |-> 0, calls |-> 7]

\* A vector in which everything is shared: five times one that has five times
\* the same empty one.
Bushy ==
    [puts |-> {}, may |-> {"vector", "reuse"}, again |-> 4, force |-> 0,
     calls |-> 11]

MCMenus ==
    {Numbers, Changed(0), Changed(1), Texts, Shared, Maps, Keys3, Nested,
     Bushy}
MCFlags == {{}, {"keys"}, {"keys", "strings"}}
===============================================================================
