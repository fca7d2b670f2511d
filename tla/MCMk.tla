--------------------------------- MODULE MCMk ---------------------------------
(* Five mkfiles:                                                              *)
(*   objs:  prog: a b    a: s u    b: s    (s and u are sources)              *)
(*   chain: all(V): x y  x: m      y: m    m: s                               *)
(*   twins: prog: a b    a m: s    b: m    (one recipe makes a and m)         *)
(*   deep:  prog: a u   a: b   b: m   m: s                                    *)
(*   none:  all(V): x y  x: s      y:      (y's recipe needs nothing)         *)
EXTENDS Mk

CONSTANTS prog, a, b, m, s, u

Arcs(A, B, M, P) == [n \in Node |-> CASE n = prog -> P [] n = a -> A [] n = b -> B
                                      [] n = m -> M [] OTHER -> <<>>]
Own(R) == [n \in Node |-> IF n \in R THEN <<n>> ELSE <<>>]

objs == [root |-> prog, virtual |-> {}, rule |-> Own({prog, a, b}),
         arcs |-> Arcs(<<s, u>>, <<s>>, <<>>, <<a, b>>)]
chain == [root |-> prog, virtual |-> {prog}, rule |-> Own({a, b, m}),
          arcs |-> Arcs(<<m>>, <<m>>, <<s>>, <<a, b>>)]
twins == [root |-> prog, virtual |-> {},
          rule |-> [Own({prog, b}) EXCEPT ![a] = <<a, m>>, ![m] = <<a, m>>],
          arcs |-> Arcs(<<s>>, <<m>>, <<s>>, <<a, b>>)]
none == [root |-> prog, virtual |-> {prog}, rule |-> Own({a, b}),
         arcs |-> Arcs(<<s>>, <<Nil>>, <<>>, <<a, b>>)]
deep == [root |-> prog, virtual |-> {}, rule |-> Own({prog, a, b, m}),
         arcs |-> Arcs(<<b>>, <<m>>, <<s>>, <<a, u>>)]
MCGraphs == {objs, chain, twins, deep, none}
=============================================================================
