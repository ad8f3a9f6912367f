---------------------------- MODULE MCUpdateInstall ----------------------------
(* Constants of the runs of UpdateInstall. *)
EXTENDS UpdateInstall, TLC

V1 == [number |-> 1, rc |-> 0]
V2c == [number |-> 2, rc |-> 1]
V2 == [number |-> 2, rc |-> 0]
MCVersions == {V1, V2c, V2}
Listed(v, draft, prerelease) == [version |-> v, draft |-> draft, prerelease |-> prerelease]
\* The running release, a candidate, the same one listed as a release, the next
\* release as a draft and published.
MCListings == {Listed(V2c, FALSE, TRUE), Listed(V2c, FALSE, FALSE),
               Listed(V2, FALSE, FALSE)}
Symmetry == Permutations(Requests) \cup Permutations(Tasks) \cup Permutations(Workers)
================================================================================
