--------------------------- MODULE MCGpuAttribution ---------------------------
(***************************************************************************)
(* Two pipelines; two jobs with a GPU each on this host.  One of them has     *)
(* another index on another host, and is the first task of an array whose     *)
(* other task is on another host altogether.                                *)
(***************************************************************************)
EXTENDS GpuAttribution, TLC

CONSTANTS p1, p2, j1, j2, far

MCJob       == {j1, j2, far}
MCOwnGpus   == j1 :> {0} @@ j2 :> {1} @@ far :> {}
MCOtherGpus == j1 :> {1} @@ j2 :> {1} @@ far :> {0}
MCUses      == j1 :> {0, 1} @@ j2 :> {1} @@ far :> {}
MCBlocks    == j1 :> <<j1, far>> @@ j2 :> <<j2>> @@ far :> <<far>>
=============================================================================
