----------------------------- MODULE HelmCharts -----------------------------
(***************************************************************************)
(* The helm tasks of the fetch pool, which module Fetch takes as a whole:  *)
(* fetch_helm_chart and fetch_helm_archive in                              *)
(* kapitan/dependency_manager/base.py, for the charts of one repository.   *)
(* The tasks share a directory of the run's temporary directory, in which  *)
(* helm unpacks a chart under the chart's name and the task then renames   *)
(* it to the chart's name and version.                                     *)
(***************************************************************************)
EXTENDS Naturals

CONSTANTS
  Tasks,      \* the HelmSources: chart, version and helm_path
  Charts,
  Versions,
  Chart,      \* Chart[s]
  Version,    \* Version[s]
  HelmForced, \* the run's `force`
  NoChart

ASSUME HelmAssumption ==
  /\ Chart \in [Tasks -> Charts]
  /\ Version \in [Tasks -> Versions]
  /\ HelmForced \in BOOLEAN
  /\ NoChart \notin Versions

VARIABLES
  pc,
  unpacked,   \* unpacked[c]: the version in directory <chart>, or NoChart
  cached,     \* cached[<<c, v>>]: the version in directory <chart>-<version>
  saved       \* saved[s]: what is at the output path of s's dependency

helmVars == <<pc, unpacked, cached, saved>>

HelmTypeOK ==
  /\ pc \in [Tasks -> {"start", "lookup", "pull", "rename", "copy", "ok", "error"}]
  /\ unpacked \in [Charts -> Versions \cup {NoChart}]
  /\ cached \in [Charts \X Versions -> Versions \cup {NoChart}]
  /\ \A k \in Charts \X Versions : cached[k] \in {NoChart, k[2]}
  /\ saved \in [Tasks -> Versions \cup {NoChart}]

\* An earlier run may have left any version of a chart at an output path.
HelmInit ==
  /\ pc = [s \in Tasks |-> "start"]
  /\ unpacked = [c \in Charts |-> NoChart]
  /\ cached = [k \in Charts \X Versions |-> NoChart]
  /\ saved \in [Tasks -> Versions \cup {NoChart}]

-----------------------------------------------------------------------------
\* Mutant of CachedPath: the version is left out of the directory's name.
CachedPathOfChart(s) == <<Chart[s], CHOOSE v \in Versions : TRUE>>

\* cached_repo_path
CachedPath(s) == <<Chart[s], Version[s]>>

Goto(s, where) == pc' = [pc EXCEPT ![s] = where]

\* `if not os.path.exists(output_path) or force`
Start(s) ==
  /\ pc[s] = "start"
  /\ Goto(s, IF saved[s] = NoChart \/ HelmForced THEN "lookup" ELSE "ok")
  /\ UNCHANGED <<unpacked, cached, saved>>

\* `if not exists_in_cache(cached_repo_path)`
Lookup(s) ==
  /\ pc[s] = "lookup"
  /\ Goto(s, IF cached[CachedPath(s)] = NoChart THEN "pull" ELSE "copy")
  /\ UNCHANGED <<unpacked, cached, saved>>

\* helm pull --untar: unpacks the chart under its name, and refuses to when
\* there is such a directory; the repository may not give the chart.
Pull(s) ==
  /\ pc[s] = "pull"
  /\ \/ /\ unpacked[Chart[s]] = NoChart
        /\ unpacked' = [unpacked EXCEPT ![Chart[s]] = Version[s]]
        /\ Goto(s, "rename")
     \/ Goto(s, "error") /\ UNCHANGED unpacked
  /\ UNCHANGED <<cached, saved>>

\* os.rename: a directory does not replace one that is not empty.
Rename(s) ==
  /\ pc[s] = "rename"
  /\ \/ /\ unpacked[Chart[s]] # NoChart
        /\ cached[CachedPath(s)] = NoChart
        /\ cached' = [cached EXCEPT ![CachedPath(s)] = unpacked[Chart[s]]]
        /\ unpacked' = [unpacked EXCEPT ![Chart[s]] = NoChart]
        /\ Goto(s, "copy")
     \/ /\ unpacked[Chart[s]] = NoChart \/ cached[CachedPath(s)] # NoChart
        /\ Goto(s, "error")
        /\ UNCHANGED <<cached, unpacked>>
  /\ UNCHANGED saved

\* copy_tree or safe_copy_tree into the output path.
Copy(s) ==
  /\ pc[s] = "copy"
  /\ saved' = [saved EXCEPT ![s] = IF saved[s] = NoChart \/ HelmForced THEN cached[CachedPath(s)] ELSE @]
  /\ Goto(s, "ok")
  /\ UNCHANGED <<unpacked, cached>>

\* The parent has met an error and terminates the pool, or all tasks are done.
PoolOver ==
  /\ \/ \E s \in Tasks : pc[s] = "error"
     \/ \A s \in Tasks : pc[s] = "ok"
  /\ UNCHANGED helmVars

HelmNext ==
  \/ \E s \in Tasks : Start(s) \/ Lookup(s) \/ Pull(s) \/ Rename(s) \/ Copy(s)
  \/ PoolOver

HelmSpec == HelmInit /\ [][HelmNext]_helmVars

-----------------------------------------------------------------------------
(* Properties *)

\* A chart that a run saves is the version its dependency asks for, whichever
\* tasks fetch other versions of it at the same time.
SavedAsAsked == [][\A s \in Tasks : saved'[s] # saved[s] => saved'[s] = Version[s]]_helmVars
=============================================================================
