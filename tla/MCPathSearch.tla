----------------------------- MODULE MCPathSearch ------------------------------
(* Small instances of PathSearch: factors 0, 1/2 and 1; 2-bit balances. The   *)
(* unit tests are replayed with the factors that they use.                    *)
EXTENDS PathSearch

Streams == INSTANCE EdgeStreams
Tests == INSTANCE EdgeFixtures WITH One <- 200, Floor <- 1, Word <- 32768

Links == {{}, Streams!Immediate("no", 2, 0), Streams!Immediate("no", 2, 2),
          Streams!Immediate("unknown", None, None)}
            \cup {Streams!Immediate("yes", 0, a) : a \in {None, 0, 1, 2}}
ChannelInfos == {{}, Streams!Intermediate(3, 0), Streams!Intermediate(3, 2)}
            \cup {Streams!Intermediate(b, None) : b \in {None, 0, 1, 2, 3}}

MCEdges == {Streams!Observed(l, c, h) : l \in Links, c \in ChannelInfos, h \in {None, 0, 1, 3}}
MCFaceValues == {None, 0, 2}
MCParameters == {-1, 1, 3}

\* The value functions give what the unit tests of function.rs record and assert.
AgreesWithTests == hops = 0 => Tests!TestsPass
================================================================================
