---------------------------- MODULE MCReportBuilder ----------------------------
(* A small instance of ReportBuilder: a node with a sensor, one that has    *)
(* another sensor or none, and networks that grow and move a node.         *)
EXTENDS ReportBuilder

CONSTANTS bridge, s1, u, soft, rbr, unknown, nan, nocrc

MCNodes == {s1, u}
MCFirstApps == {[n \in MCNodes |-> IF n = s1 THEN soft ELSE a] : a \in {unknown, rbr}}
MCNetworks == {<<bridge, s1>>, <<bridge, u, s1>>}
(* A node gains its sensor in an update; a sensor becomes another one. *)
MCGains == {<<u, unknown, soft>>}
MCSwaps == {<<s1, soft, rbr>>}
MCSettings == {<<2, TRUE>>, <<0, FALSE>>}

Done ==
  /\ interval = MaxIntervals \/ subbed = <<>>
  /\ agg = "idle" /\ queue = <<>> /\ pc = "idle"
  /\ sampler = "idle" /\ ~semaphore
  /\ UNCHANGED vars

(* Reports that are switched off are explored for one set of applications. *)
MCInit == Init /\ (samplesPerReport = 0 => app[u] = rbr)

MCSpec == MCInit /\ [][Next \/ Done]_vars /\ Fairness
=============================================================================
