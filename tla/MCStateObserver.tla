-------------------------- MODULE MCStateObserver ---------------------------
(* AGVs, states and topics for model checking StateObserver. *)
EXTENDS StateObserver

MCInterface == <<"uagv">>
MCVersion   == <<"v2">>
MCEverybody == [mfr |-> Unset, sn |-> Unset]

\* Two AGVs of one manufacturer, and one whose name has a slash.
MCAGVs == {[mfr |-> <<"m">>, sn |-> <<"s">>],
           [mfr |-> <<"m">>, sn |-> <<"t">>],
           [mfr |-> <<"v2", "m">>, sn |-> <<"s">>]}

\* Too short, too long, another interface, an unknown channel.
MCStray == {<<"uagv", "m", "s", "state">>,
            <<"uagv", "v2", "m", "s", "t", "state">>,
            <<"other", "v2", "m", "s", "state">>,
            <<"uagv", "v2", "m", "s", "junk">>}

Act(x, st) == [id |-> x, status |-> st]
St(n, o, u, as) == [node |-> n, order |-> o, update |-> u, actions |-> as]

MCStates == {St("", "", 0, << >>),
             St("n", "o", 0, <<Act("x", "WAITING")>>),
             St("n", "o", 1, <<Act("x", "RUNNING"), Act("y", "WAITING")>>),
             St("p", "q", 0, <<Act("y", "WAITING"), Act("x", "FINISHED")>>),
             St("p", "q", 1, <<Act("y", "RUNNING")>>),
             St("n", "q", 1, << >>)}
=============================================================================
