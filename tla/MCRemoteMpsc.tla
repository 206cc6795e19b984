---------------------------- MODULE MCRemoteMpsc ----------------------------
(* Model checking of RemoteMpsc: the set-ups of the channel. *)
EXTENDS RemoteMpsc

\* Only the Receiver was sent away: values that cannot be transferred, a lost connection.
OneLink ==
    [links |-> 1, lanes |-> 1, home |-> [s \in {1} |-> 0], sends |-> 2,
     kinds |-> {"good", "bad", "odd"}, faults |-> {"disconnect"}, ops |-> {"send", "drop"}]

\* Values are transferred over two parallel chmux channels.
TwoLanes ==
    [OneLink EXCEPT !.lanes = 2, !.sends = 3, !.kinds = {"good", "bad"}, !.faults = {},
                    !.ops = {"send"}]

\* The Receiver was passed on by the endpoint it had been sent to.
TwoLinks ==
    [OneLink EXCEPT !.links = 2, !.sends = 1, !.kinds = {"good"}, !.faults = {},
                    !.ops = {"send", "close", "drop"}]
TwoLinksFail ==
    [TwoLinks EXCEPT !.kinds = {"bad"}, !.faults = {"disconnect"}, !.ops = {"send"}]

\* One Sender is remote, one beside the Receiver.
TwoSenders ==
    [OneLink EXCEPT !.home = [s \in {1, 2} |-> s - 1], !.sends = 1, !.kinds = {"good"},
                    !.faults = {},
                    !.ops = {"send", "try_send", "reserve", "cancel", "close", "drop"}]

OneShot ==
    [OneLink EXCEPT !.sends = 1, !.faults = {"connect", "disconnect"},
                    !.ops = {"oneshot", "close", "drop"}]

AllSetups == {OneLink, TwoLanes, TwoLinks, TwoLinksFail, TwoSenders, OneShot}
=============================================================================
