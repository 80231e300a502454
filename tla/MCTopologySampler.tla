--------------------------- MODULE MCTopologySampler ---------------------------
(* A small instance of TopologySampler: the bridge and two sensor nodes of *)
(* different types, one of which each topology request misses, and a CRC   *)
(* list of one entry.                                                      *)
EXTENDS TopologySampler, TLC

CONSTANTS bridge, n1, n2, unknown, soft, rbr

MCNodes == {bridge, n1, n2}
MCTypeOf == (bridge :> unknown) @@ (n1 :> soft) @@ (n2 :> rbr)
MCNetworks == {<<bridge, n1>>, <<bridge, n2>>}
=============================================================================
