--------------------------- MODULE MCProdRouting ---------------------------
(***************************************************************************)
(* ProdRouting for TLC.  Apart: two projects with a host each, one with    *)
(* two deployments to switch between and one with a single deployment that *)
(* other promotes must leave alone.  Shared: two more, with one host.      *)
(***************************************************************************)
EXTENDS ProdRouting, TLC

CONSTANTS p1, p2, p3, d1, d2, d3, d4, k1, k2

TwoProjects == {p1, p2}
ThreeDeployments == {d1, d2, d3}
TwoAndOne == (d1 :> p1) @@ (d2 :> p1) @@ (d3 :> p2)
TwoHosts == {k1, k2}
HostEach == (p1 :> k1) @@ (p2 :> k2)
FirstIsOlder == (p1 :> 1) @@ (p2 :> 2)

ThreeProjects == {p1, p2, p3}
FourDeployments == {d1, d2, d3, d4}
TwoOneOne == (d4 :> p3) @@ TwoAndOne
HostShared == (p3 :> k2) @@ HostEach
ThirdIsOldest == (p3 :> 0) @@ FirstIsOlder
=============================================================================
