------------------------------ MODULE MCCostExporter ------------------------------
(* The exporter with footprints that differ on every basis and resource. *)
EXTENDS CostExporter

\* A small and a large deployment, the large one without a memory request.
MCFootprints ==
    {[requested |-> [cpu |-> 1, memory |-> 2], actual |-> [cpu |-> 3, memory |-> 1]],
     [requested |-> [cpu |-> 4, memory |-> Absent], actual |-> [cpu |-> 2, memory |-> 5]]}

MCRates == [cpu |-> 2, mem |-> 1, sto |-> 1, hours |-> 730]
================================================================================
