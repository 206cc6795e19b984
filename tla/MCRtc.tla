------------------------------- MODULE MCRtc -------------------------------
(* Model checking of Rtc: the servers and the calls that are made. *)
EXTENDS Rtc

Set(server, par, kind, by) ==
    [server |-> server, par |-> par, limit |-> 0, rate |-> 0, tolerate |-> 1, pipelined |-> FALSE, awaiting |-> {},
     kind |-> kind, by |-> by,
     sequential |-> {}, stop |-> {}, noCancel |-> {}, fails |-> {},
     garbled |-> {}, large |-> {}, faults |-> {}]

One == <<"A", "A", "A">>
Two == <<"A", "A", "B">>

\* Reads around a write.
Mixed == Set("ServerSharedMut", 2, <<"Ref", "RefMut", "Ref", "Ref">>, <<"A", "A", "A", "A">>)
\* Cancelled calls and methods that are run to their end nevertheless.
Cancelled == [Set("ServerSharedMut", 2, <<"Ref", "RefMut", "Ref">>, Two) EXCEPT
               !.noCancel = {1, 2}, !.faults = {"cancel"}]
\* Calls that stop the server when they fail, inline and on tasks.
Stopping == [Set("ServerSharedMut", 2, <<"Ref", "RefMut", "Ref">>, Two) EXCEPT
              !.stop = {1, 2}, !.fails = {1, 2}]
\* A series of sequential calls and a call of somebody else.
Series == [Set("ServerShared", 2, <<"Ref", "Ref", "Ref">>, Two) EXCEPT
            !.sequential = {1, 2}, !.stop = {1, 2}, !.fails = {1, 2}]
\* Permits are short and a response is too large.
Limited == [Set("ServerShared", 2, <<"Ref", "Ref", "Ref">>, One) EXCEPT
             !.limit = 2, !.large = {2}, !.fails = {1}]
\* Calls are delayed, also one whose request cannot be decoded and the end.
Delayed == [Set("ServerSharedMut", 2, <<"Ref", "RefMut", "Ref">>, Two) EXCEPT
             !.rate = 1, !.garbled = {3}, !.stop = {1}, !.fails = {1}, !.faults = {"cancel"}]
\* The target is consumed.
Consumed == [Set("Server", 0, <<"RefMut", "Ref", "Value">>, One) EXCEPT
              !.stop = {1}, !.fails = {1, 3}, !.large = {3}]
\* The object is reached through a request receiver that was handed over.
Pipelined == [Set("ServerRefMut", 0, <<"RefMut", "Ref", "RefMut">>, Two) EXCEPT
               !.pipelined = TRUE, !.awaiting = {"A"}, !.stop = {2}, !.fails = {2}]
PipelinedValue == [Set("Server", 0, <<"RefMut", "Ref", "Value">>, One) EXCEPT
                    !.pipelined = TRUE]
\* The request receiver cannot decode some of the requests.
PipelinedIncompatible == [Set("ServerRef", 0, <<"Ref", "Ref", "Ref">>, One) EXCEPT
                           !.pipelined = TRUE, !.garbled = {1, 3}]
\* Remote functions whose provider may be dropped.
Function == [Set("RFn", 1, <<"Ref", "Ref", "Ref">>, Two) EXCEPT
              !.large = {1}, !.garbled = {3}, !.faults = {"provider"}]
FunctionMut == [Set("RFnMut", 1, <<"RefMut", "RefMut", "RefMut">>, One) EXCEPT
                 !.awaiting = {"A"}, !.faults = {"provider", "lose"}]
FunctionOnce == [Set("RFnOnce", 1, <<"Value">>, <<"A">>) EXCEPT
                  !.faults = {"provider", "lose", "cancel"}]
\* Requests that the server does not know or cannot decode.
Incompatible == [Set("ServerRef", 0, <<"Ref", "RefMut", "Ref">>, Two) EXCEPT
                  !.garbled = {1, 3}]
\* The connection is lost.
Lossy == [Set("ServerSharedMut", 1, <<"Ref", "RefMut", "Ref">>, One) EXCEPT
           !.noCancel = {1}, !.large = {3}, !.faults = {"lose"}]

AllSetups == {Mixed, Cancelled, Stopping, Series, Limited, Delayed, Consumed, Pipelined, PipelinedValue,
              PipelinedIncompatible, Function, FunctionMut, FunctionOnce, Incompatible, Lossy}

\* Reads that fail while a write waits for them.
FailingReads ==
    {[Set("ServerSharedMut", 2, <<"Ref", "Ref", "RefMut">>, One) EXCEPT
       !.stop = {1, 2}, !.fails = {1, 2}]}
============================================================================
