------------------------------ MODULE MCWatch ------------------------------
(* Model checking of Watch: the set-ups of the channel. *)
EXTENDS Watch

\* A Receiver is sent away while values are sent.
Plain ==
    [links |-> 1, up |-> 0, at |-> [r \in {1} |-> 0], sends |-> 2, kinds |-> {"good", "bad", "odd"},
     limits |-> {}, changes |-> 0, single |-> FALSE, forward |-> FALSE,
     ops |-> {"transport", "drop"}, faults |-> {"disconnect"}]

\* The same over two links, which may fail.
Chain ==
    [Plain EXCEPT !.links = 2, !.sends = 1, !.kinds = {"good", "bad"}, !.faults = {"connect"}]
ChainLost ==
    [Chain EXCEPT !.up = 1, !.at = [r \in {1} |-> 1], !.faults = {"disconnect"},
                  !.ops = {"transport"}]

\* Another Receiver stays where one was sent on.
ChainShared ==
    [Chain EXCEPT !.up = 1, !.at = [r \in {1, 2} |-> 1], !.kinds = {"good"}, !.ops = {"transport"}]

\* Both ends set rate limits.
Limited ==
    [Plain EXCEPT !.kinds = {"good"}, !.faults = {}, !.ops = {"transport"},
                  !.limits = {1}, !.changes = 2]
LimitedClones == [Limited EXCEPT !.sends = 1, !.ops = {"transport", "clone"}]
LimitedChain == [Limited EXCEPT !.links = 2, !.sends = 1]

\* The Sender was sent away with an error, one value is in transfer at a time.
SenderAway ==
    [Plain EXCEPT !.up = 1, !.at = [r \in {1} |-> 1], !.single = TRUE, !.kinds = {"good"},
                  !.faults = {"connect", "carried"}, !.ops = {"drop", "clear"}]
Resubscribed ==
    [SenderAway EXCEPT !.faults = {}, !.sends = 1, !.ops = {"drop", "modify", "subscribe"}]

\* The values come from a local channel.
Forwarded ==
    [Plain EXCEPT !.forward = TRUE, !.kinds = {"good"}, !.ops = {"transport", "drop", "mark"},
                  !.faults = {}]

AllSetups ==
    {Plain, Chain, ChainLost, ChainShared, Limited, LimitedClones, LimitedChain, SenderAway,
     Resubscribed, Forwarded}
=============================================================================
