-------------------------- MODULE MCServerSelection --------------------------
(* ServerSelection on a small instance.                                    *)
EXTENDS ServerSelection

Server(type, rtt, tags, written, updated) ==
    [type |-> type, rtt |-> rtt, tags |-> tags, written |-> written, updated |-> updated,
     modern |-> TRUE, hasIsMaster |-> TRUE]

ny == {<<"dc", "ny">>}
la == {<<"dc", "la">>, <<"disk", "ssd">>}

\* A member that lags, one that is up to date, and one that was up to date when it was
\* asked, a heartbeat before the others.
Secondaries == {Server("RSSecondary", r, t, w[1], w[2]) :
                r \in {1, 4}, t \in {ny, la}, w \in {<<2, 9>>, <<9, 9>>, <<3, 7>>}}
Primary == Server("RSPrimary", 3, ny, 9, 9)
OldSecondary == [Server("RSSecondary", 1, ny, -1, 9) EXCEPT !.modern = FALSE]
Mongos(rtt) == Server("Mongos", rtt, {}, -1, 9)
Other(type) == Server(type, 2, {}, -1, 9)

RS(type, servers) == [type |-> type, servers |-> servers]

MCScanned ==
    {RS("RSWithPrimary", <<Primary, s, OldSecondary>>) : s \in {Server("RSSecondary", 1, la, 9, 9)}}
    \cup {RS("RSNoPrimary", <<Reset, s>>) : s \in {Server("RSSecondary", 4, ny, 2, 9)}}
    \cup {RS("RSNoPrimary", <<OldSecondary, Reset>>), RS("RSNoPrimary", <<Reset, Reset>>),
          RS("Sharded", <<Mongos(1), Reset, Mongos(4)>>),
          RS("Single", <<Reset>>), RS("Unknown", <<Other("RSGhost"), Reset>>)}

MCKnown ==
    {RS("RSWithPrimary", <<Primary, s, t>>) : s, t \in Secondaries}
    \cup {RS("RSWithPrimary", <<Reset, s, t>>) : s \in Secondaries,
                            t \in {Server("RSSecondary", 1, la, 9, 9), Other("RSArbiter")}}
    \cup {RS("Sharded", <<Mongos(1), Mongos(2)>>),
          RS("Single", <<Other("RSSecondary")>>), RS("Single", <<Mongos(1)>>)}

MCSeed == RS("Unknown", <<Reset, Reset>>)

Pref(mode, tags, staleness) == [mode |-> mode, tags |-> tags, staleness |-> staleness]

MCPrefs ==
    {None, Pref("primaryPreferred", <<ny>>, None), Pref("secondary", <<>>, 6),
     Pref("secondaryPreferred", <<{<<"dc", "sf">>}, la>>, 6), Pref("secondaryPreferred", <<>>, None),
     Pref("nearest", <<ny, {}>>, 7), Pref("nearest", <<>>, 5), Pref("secondary", <<>>, 2)}

=============================================================================
