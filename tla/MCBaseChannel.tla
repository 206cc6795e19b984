--------------------------- MODULE MCBaseChannel ---------------------------
(* Model checking of BaseChannel: endpoints and items. *)
EXTENDS BaseChannel

Shape(n, ports, fault) == [n |-> n, ports |-> ports, fault |-> fault]
Fine == {Shape(n, p, "none") : n \in 1..3, p \in 0..1}
Bad == {Shape(n, 1, f) : n \in 1..3, f \in {"ser", "odd"}}

\* Items of all kinds; messages of up to two chunks are buffered.
Normal == [bin |-> FALSE, threads |-> {"tx", "rx"}, send |-> 3, recv |-> 3, items |-> 2, shapes |-> Fine \cup Bad]

\* Items that are too large for the sender, and for the receiver only.
Limited == [Normal EXCEPT !.send = 2, !.shapes = Fine]
RecvLimited == [Normal EXCEPT !.recv = 1, !.shapes = Fine]

\* An endpoint cannot stream.
NoTxThreads == [Normal EXCEPT !.threads = {"rx"}, !.shapes = Fine]
NoRxThreads == [Normal EXCEPT !.threads = {"tx"}, !.shapes = Fine]

\* Three items in a row.
Three == [Normal EXCEPT !.items = 3,
                        !.shapes = {Shape(1, 1, "none"), Shape(3, 1, "none"), Shape(3, 0, "odd")}]

\* A binary channel with three messages.
Binary == [Normal EXCEPT !.bin = TRUE, !.items = 3, !.shapes = {}]

AllSetups == {Binary, Normal, Limited, RecvLimited, NoTxThreads, NoRxThreads, Three}
=============================================================================
