------------------------------ MODULE MCRecovery ------------------------------
(***************************************************************************)
(* Small instances of Recovery. The journals cover: every kind of record;  *)
(* a resolver record or none; two kill-switch tables; a route recorded     *)
(* with and without a metric; and journals that Validate refuses.          *)
(***************************************************************************)
EXTENDS Recovery

CONSTANT Variant   \* which group of journals the run starts from

\* red0's default route in the tunnel table, and a host route in table 254.
TunDefault == [dst |-> "default", table |-> 51, metric |-> 0]
ToServer   == [dst |-> "server",  table |-> 254, metric |-> 5]
NoMetric   == [dst |-> "server",  table |-> 254, metric |-> 0]

\* The operator's own route to the server differs from ToServer by its metric.
MCOperatorRoutes == {[dst |-> "server", table |-> 254, metric |-> 9]}
\* Their rule sends packets with another fwmark to the tunnel table.
MCOperatorRules  == {[sel |-> "p110", table |-> 51, mark |-> 9]}
MCStrayRoutes    == {[dst |-> "lan", table |-> 51, metric |-> 0]}

Full == [schema |-> 1, role |-> "client", instance |-> "inst",
         routes |-> <<ToServer, TunDefault>>,
         rules |-> <<[sel |-> "p110", table |-> 51, mark |-> 5]>>,
         tables |-> <<51>>,
         nftables |-> <<"ks4", "ks6">>,
         sysctls |-> <<[name |-> "fwd", prior |-> "0", installed |-> "1"]>>,
         resolver |-> FALSE]

Small == [Full EXCEPT !.routes = <<TunDefault>>, !.nftables = <<"ks4">>]

MCJournals ==
    CASE Variant = "full"     -> {[Full EXCEPT !.resolver = TRUE],
                                  [Full EXCEPT !.schema = 2],
                                  [Full EXCEPT !.tables = <<0>>]}
      [] Variant = "overlap"  -> {[Small EXCEPT !.routes = <<ToServer>>]}
      [] Variant = "resolver" -> {[Small EXCEPT !.resolver = TRUE]}
      [] Variant = "nometric" -> {[Small EXCEPT !.routes = <<NoMetric>>]}
===============================================================================
