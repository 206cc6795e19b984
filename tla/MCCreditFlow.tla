---------------------------- MODULE MCCreditFlow ----------------------------
(* Model checking of CreditFlow: what the applications do. *)
EXTENDS CreditFlow

\* One port with buffers and chunks of four bytes, as few as Cfg::check allows.
One(sends, connects, ops) ==
    [limit |-> 4, chunk |-> 4, ports |-> {"p"}, sizes |-> {1},
     sends |-> sends, connects |-> connects, throttle |-> 9, sets |-> 0, ops |-> ops]

\* Ports with a single port credit each; a credit stands for several bytes here.
Short(ports, size, sizes, ops) ==
    [limit |-> 1, chunk |-> size, ports |-> ports, sizes |-> sizes,
     sends |-> {size}, connects |-> {}, throttle |-> 9, sets |-> 0, ops |-> ops]

\* A message of two chunks is sent, also with try_send, or given up.
TrySent    == [One({3}, {}, {"try_send", "cancel"}) EXCEPT !.chunk = 2, !.limit = 3]
\* Port requests, alone and mixed with data.
Connects   == [One({}, {1, 2}, {"cancel", "drop"}) EXCEPT !.throttle = 2]
Mixed      == One({3}, {1, 2}, {})
\* Two ports contend for the global credit.
Contending == Short(Ports, 1, {1}, {})
\* A message exceeds the buffer of the port, so it needs global credits or a second round,
\* and the shared buffer grows and shrinks.
Resized    == Short({"p"}, 2, {1, 2}, {})

\* One port that is throttled from the second credit on, which is a global one.  Its receiver
\* may be dropped, or may forbid global credits and allow them again, also when the port is
\* throttled, while other ports fill the event channel.
Throttled == [Short({"p"}, 1, {1}, {"drop"}) EXCEPT !.throttle = 2]
Reallowed == [Short({"p"}, 1, {1}, {"full"}) EXCEPT !.throttle = 2, !.sets = 2]

AllSetups == {TrySent, Connects, Mixed, Contending, Resized, Throttled, Reallowed}
=============================================================================
