------------------------------ MODULE MCPorts ------------------------------
(* Small instances of Ports for TLC. *)
EXTENDS Ports, TLC

CONSTANTS s1, s2

OneSite      == {s1}
TwoSites     == {s1, s2}
SiteSymmetry == Permutations({s1, s2})

AutoBlock   == [fixed |-> None, env |-> None]
FixedAt(p)  == [fixed |-> p, env |-> None]
EnvAt(p)    == [fixed |-> None, env |-> p]

AutoOnly    == {AutoBlock}
TwoFixed    == {FixedAt(1), FixedAt(2)}
EveryKind   == {AutoBlock, FixedAt(1), FixedAt(0), EnvAt(1)}
=============================================================================
