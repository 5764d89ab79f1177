--------------------------- MODULE MC_PktTransport ---------------------------
(* The traffic PktTransport is checked on.                                  *)
EXTENDS PktTransport

MCIntf == 1..2
MCRxIntf == [w \in Workers |-> 1]
MCHash(k) == IF Cardinality(k[1]) = 2 THEN k[2]
             ELSE k[2] + (CHOOSE x \in k[1] \cup {0} : \A y \in k[1] : y <= x)

P(id, segs, flow, out) == [id |-> id, segs |-> segs, tag |-> FALSE, ttl |-> 64,
                           flow |-> flow, proto |-> 1, out |-> out, grow |-> 0]
Big == <<20, 20, 7>>
Long == <<20, 20, 20>>
There == <<1, 2>>
Back == <<2, 1>>
A(i) == [P(i, <<9>>, IF i % 2 = 0 THEN There ELSE Back, 2) EXCEPT !.proto = i % 2]
H(i) == [P(i, Big, There, 2) EXCEPT !.grow = 5]

\* nine packets: the loops over four and over two are taken, and leave some
Mixed == <<A(1), H(2), A(3), H(4), P(5, Long, Back, 2), A(6), [H(7) EXCEPT !.grow = 14], A(8), A(9)>>
Few(i) == <<[A(i) EXCEPT !.out = 0], H(i + 1), [A(i + 2) EXCEPT !.tag = TRUE]>>
\* a frame all of one kind, for every node
Same(n, i, p) == [j \in 1..n |-> [p EXCEPT !.id = i + j]]
Kinds == <<Same(8, 30, A(1)), Same(5, 40, H(1)), Same(4, 50, [A(1) EXCEPT !.out = 0])>>
MCArrivals == {<< <<Mixed>>, << <<A(10)>> >> >>,
               << <<Few(11)>>, <<Few(21)>> >>,
               << <<Kinds[1]>>, << <<A(10)>> >> >>,
               << <<Kinds[2]>>, << <<A(10)>> >> >>,
               << <<Kinds[3]>>, <<>> >>}
=============================================================================
