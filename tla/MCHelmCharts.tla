---------------------------- MODULE MCHelmCharts ----------------------------
(* An instance of HelmCharts: two versions of one chart, beside which a third *)
(* task asks for one of them through another helm_path.                    *)
EXTENDS HelmCharts

CONSTANTS old, new, again, chart, v1, v2

TaskChart == [s \in Tasks |-> chart]
TaskVersion == [s \in Tasks |-> IF s = old THEN v1 ELSE v2]
=============================================================================
