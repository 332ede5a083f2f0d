---------------------------- MODULE MCHotReload ----------------------------
(* Small instances of HotReload for TLC. *)
EXTENDS HotReload, TLC

CONSTANTS s1, s2, v1, v2

OneSite      == {s1}
TwoSites     == {s1, s2}
TwoVersions  == {v1, v2}
SharedLabel  == {{s1}, {s1, s2}}   \* s1 and s2 share their first label
SiteSymmetry == Permutations({s1, s2})
OwnNames     == {{s1}, {s2}}
OneName      == {{s1}}
=============================================================================
