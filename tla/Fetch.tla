-------------------------------- MODULE Fetch --------------------------------
(***************************************************************************)
(* The fetch phase of `kapitan compile`: what the flags select for         *)
(* fetching (compile_targets in kapitan/targets.py), how dependencies are  *)
(* grouped by source, and the tasks that download a source and save it to  *)
(* the output paths of its dependencies (kapitan/dependency_manager/       *)
(* base.py).                                                               *)
(*                                                                         *)
(* A path stands for one file, of a name without a leading dot: both ways  *)
(* of copying a tree treat each of those alike.  It is the user's own      *)
(* (Local), or comes from a source at a revision; or the output_path is    *)
(* there and the file is not (Empty).  A dependency's output_path is       *)
(* rewritten, each time its target is visited, to be under the directory   *)
(* given by --output-path; only the number of rewritings matters.          *)
(***************************************************************************)
EXTENDS Naturals, FiniteSets

CONSTANTS
  Targets,
  Items,      \* the dependencies of all targets
  Owner,      \* Owner[i]: the target i is a dependency of
  Forced,     \* dependencies with force_fetch set
  Sources,    \* the keys dependencies are grouped by
  Source,     \* Source[i]: the one of i
  Uri,        \* Uri[s]: the source_uri; charts of one helm repository share it
  Kind,       \* Kind[s]: http, git, helm or oci
  Paths,
  Path,       \* Path[i]: output_path as written in the inventory
  Ignored,    \* downloads to unpack, of a type that cannot be unpacked
  Refs,
  Ref,        \* Ref[i]: the git ref asked for, or None
  Head,       \* Head[s]: what a clone of s has checked out
  Detached,   \* sources of which that is no branch, so that none is the default
  None,
  Absent,     \* nothing at the path
  Empty,      \* a directory without the file
  Local       \* a file of the user's own

Kinds == {"http", "git", "helm", "oci"}

ASSUME FetchAssumption ==
  /\ IsFiniteSet(Items)
  /\ Owner \in [Items -> Targets]
  /\ Forced \subseteq Items
  /\ Source \in [Items -> Sources]
  /\ Kind \in [Sources -> Kinds]
  /\ Path \in [Items -> Paths]
  /\ Ref \in [Items -> Refs \cup {None}]
  /\ None \notin Refs
  /\ Head \in [Sources -> Refs] /\ Detached \subseteq Sources
  /\ Ignored \subseteq {i \in Items : Kind[Source[i]] = "http"}
  /\ Absent # Local /\ Absent # Empty /\ Empty # Local
  /\ {Absent, Empty, Local} \cap (Sources \X Refs) = {}

VARIABLES
  stage,    \* plan, group, one of Kinds, or how fetching ended
  flags,    \* which of the flags are given
  chosen,   \* target_objs
  force,    \* the `force` handed to fetch_dependencies
  visits,   \* visits[t]: occurrences of t still to be visited by its loop
  rest,     \* dependencies of the visited target still to be looked at
  joins,    \* joins[i]: how often i's output_path has been rewritten
  seen,     \* deps_output_paths
  deps,     \* deps[s]: what is to be saved from s
  task,     \* task[s]: the state of s's task in the fetch pool
  left,     \* left[s]: dependencies its loop has not saved yet
  head,     \* head[s]: what is checked out in the clone of s
  files     \* files[p]: what is at place p

planning == <<flags, chosen, force>>
grouping == <<visits, rest, joins, seen, deps>>
tasks == <<task, left, head>>
vars == <<stage, flags, chosen, force, visits, rest, joins, seen, deps,
          task, left, head, files>>

\* "output_path" stands for an --output-path that is neither "." nor absolute, so
\* that joining it again leads elsewhere.
Flags == {"fetch", "force_fetch", "force", "output_path"}
Over == {"skipped", "done", "failed"}
Places == Paths \X Nat

\* Where i is saved when its output_path has been rewritten n times.
PlaceAfter(i, n) == <<Path[i], IF "output_path" \in flags THEN n ELSE 1>>
Place(i) == PlaceAfter(i, joins[i])

ItemsOf(t) == {i \in Items : Owner[i] = t}
Contents == {Absent, Empty, Local} \cup (Sources \X Refs)

\* The places that saving can reach: those of Depths rewritings at most.
Depths == 0..(Cardinality(Forced) + 1)

TypeOK ==
  /\ stage \in {"plan", "group"} \cup Kinds \cup Over
  /\ flags \subseteq Flags
  /\ chosen \subseteq Targets
  /\ force \in BOOLEAN
  /\ visits \in [Targets -> Nat]
  /\ rest \subseteq Items
  /\ joins \in [Items -> Nat]
  /\ seen \subseteq {Uri[s] : s \in Sources} \X Places
  /\ deps \in [Sources -> SUBSET Items]
  /\ task \in [Sources -> {"none", "queued", "fetched", "ok", "error"}]
  /\ left \in [Sources -> SUBSET Items]
  /\ head \in [Sources -> Refs \cup {None}]
  /\ files \in [Paths \X Depths -> Contents]

\* The user has files of their own at some of the output paths; a run that was cut
\* short may have left directories at others.
Init ==
  /\ stage = "plan"
  /\ flags = {}
  /\ chosen = {}
  /\ force = FALSE
  /\ visits = [t \in Targets |-> 0]
  /\ rest = {}
  /\ joins = [i \in Items |-> 0]
  /\ seen = {}
  /\ deps = [s \in Sources |-> {}]
  /\ task = [s \in Sources |-> "none"]
  /\ left = [s \in Sources |-> {}]
  /\ head = [s \in Sources |-> None]
  /\ \E old \in [Paths -> {Absent, Empty, Local}] :
       files = [p \in Paths \X Depths |-> IF p[2] = 1 THEN old[p[1]] ELSE Absent]

-----------------------------------------------------------------------------
(* compile_targets: what to fetch *)

Fetching(given) == "fetch" \in given \/ "force_fetch" \in given
Forcing(given) == "force_fetch" \in given \/ "force" \in given

\* Mutant of Visits: targets are visited whether they are selected or not.
VisitsAll(given, objs, t) ==
  IF Fetching(given) THEN 1
  ELSE IF Forcing(given) THEN 0 ELSE Cardinality(ItemsOf(t) \cap Forced)

\* How often fetch_dependencies meets t.  Without --fetch, a target is listed
\* once for each of its dependencies with force_fetch, but not with --force.
Visits(given, objs, t) ==
  IF t \notin objs THEN 0
  ELSE IF Fetching(given) THEN 1
  ELSE IF Forcing(given) THEN 0 ELSE Cardinality(ItemsOf(t) \cap Forced)

Plan(given, objs) ==
  /\ stage = "plan"
  /\ flags' = given
  /\ chosen' = objs
  /\ force' = (Fetching(given) => Forcing(given))
  /\ visits' = [t \in Targets |-> Visits(given, objs, t)]
  /\ stage' = IF Fetching(given) \/ \E t \in Targets : visits'[t] > 0
              THEN "group" ELSE "skipped"
  /\ UNCHANGED <<rest, joins, seen, deps, tasks, files>>

-----------------------------------------------------------------------------
(* fetch_dependencies: grouping by source *)

\* The next target object.  The order of targets and of their dependencies, which
\* decides between duplicates, is left open.
Visit(t) ==
  /\ stage = "group"
  /\ rest = {}
  /\ visits[t] > 0
  /\ visits' = [visits EXCEPT ![t] = @ - 1]
  /\ rest' = ItemsOf(t)
  /\ UNCHANGED <<stage, planning, joins, seen, deps, tasks, files>>

\* One dependency: its output_path is rewritten in place, and it is listed under
\* its source unless the source already goes to that path.
Collect(i) ==
  LET place == PlaceAfter(i, joins[i] + 1)
      s == Source[i]
  IN
  /\ stage = "group"
  /\ i \in rest
  /\ rest' = rest \ {i}
  /\ joins' = [joins EXCEPT ![i] = @ + 1]
  /\ IF <<Uri[s], place>> \in seen
     THEN UNCHANGED <<seen, deps>>
     ELSE /\ seen' = seen \cup {<<Uri[s], place>>}
          /\ deps' = [deps EXCEPT ![s] = @ \cup {i}]
  /\ UNCHANGED <<stage, planning, visits, tasks, files>>

StartPool ==
  /\ stage = "group"
  /\ rest = {}
  /\ \A t \in Targets : visits[t] = 0
  /\ stage' = "http"
  /\ task' = [s \in Sources |-> IF deps[s] # {} THEN "queued" ELSE "none"]
  /\ left' = deps
  /\ UNCHANGED <<planning, grouping, head, files>>

-----------------------------------------------------------------------------
(* The tasks of the fetch pool *)

\* A chart is only pulled for a path that is missing, or with force.
Needed(s) ==
  Kind[s] = "helm" => force \/ \E i \in deps[s] : files[Place(i)] = Absent

\* Download, clone or pull a source, once: into the temporary directory of the
\* run, which cannot hold it yet.
Download(s) ==
  /\ stage = Kind[s]
  /\ task[s] = "queued"
  /\ \/ task' = [task EXCEPT ![s] = "fetched"]
     \/ Needed(s) /\ task' = [task EXCEPT ![s] = "error"]
  /\ head' = [head EXCEPT ![s] = Head[s]]
  /\ UNCHANGED <<stage, planning, grouping, left, files>>

\* Mutant of Wanted: without a ref, what was last checked out is copied.
WantedLast(i) == IF Ref[i] # None THEN Ref[i] ELSE head[Source[i]]

\* The default branch is resolved once, before any checkout; with a detached HEAD
\* there is none, and what is checked out is copied.
Wanted(i) ==
  IF Ref[i] # None THEN Ref[i]
  ELSE IF Source[i] \notin Detached THEN Head[Source[i]] ELSE head[Source[i]]

Written(i) == [files EXCEPT ![Place(i)] = <<Source[i], Wanted(i)>>]

\* The output directory is made first.
DirMade(i) == [files EXCEPT ![Place(i)] = IF @ = Absent THEN Empty ELSE @]

\* A chart is saved where there is nothing, whatever is missing in what there is.
Kept(i) == files[Place(i)] = Local \/ files[Place(i)] \in Sources \X Refs
             \/ (files[Place(i)] = Empty /\ Kind[Source[i]] = "helm")

\* Mutant of Saved: existing files are overwritten without force too.
SavedOver(i) == Written(i)

\* copy_tree and copyfile overwrite, safe_copy_tree and safe_copy_file do not.
\* "Content-Type ... is not supported for unpack. Ignoring save".
Saved(i) ==
  IF i \in Ignored THEN DirMade(i)
  ELSE IF force \/ ~ Kept(i) THEN Written(i) ELSE files

Save(s, i) ==
  /\ stage = Kind[s]
  /\ task[s] = "fetched"
  /\ i \in left[s]
  /\ left' = [left EXCEPT ![s] = @ \ {i}]
  /\ head' = [head EXCEPT ![s] = Wanted(i)]
  /\ files' = Saved(i)
  /\ UNCHANGED <<stage, planning, grouping, task>>

\* A ref, a subdir or a subpath that is not there; settings that conflict; a
\* file that cannot be written, when the directory or some files may be there.
SaveFails(s) ==
  /\ stage = Kind[s]
  /\ task[s] = "fetched"
  /\ \E i \in left[s] : files' \in {files, DirMade(i), Saved(i)}
  /\ task' = [task EXCEPT ![s] = "error"]
  /\ UNCHANGED <<stage, planning, grouping, left, head>>

\* Mutant of TaskEnds: the task ends with one dependency unsaved.
TaskEndsEarly(s) ==
  /\ stage = Kind[s]
  /\ task[s] = "fetched"
  /\ Cardinality(left[s]) <= 1
  /\ task' = [task EXCEPT ![s] = "ok"]
  /\ UNCHANGED <<stage, planning, grouping, left, head, files>>

TaskEnds(s) ==
  /\ stage = Kind[s]
  /\ task[s] = "fetched"
  /\ left[s] = {}
  /\ task' = [task EXCEPT ![s] = "ok"]
  /\ UNCHANGED <<stage, planning, grouping, left, head, files>>

After == [http |-> "git", git |-> "helm", helm |-> "oci", oci |-> "done"]

\* The sources of one kind are through; the next kind's turn.
NextStage ==
  /\ stage \in Kinds
  /\ \A s \in Sources : Kind[s] = stage => task[s] \in {"none", "ok"}
  /\ stage' = After[stage]
  /\ UNCHANGED <<planning, grouping, tasks, files>>

\* imap_unordered raises an error of a task and the pool is terminated; or the
\* run is killed.  Files stay as they are then.
Abort ==
  /\ stage \notin Over
  /\ stage' = "failed"
  /\ UNCHANGED <<planning, grouping, tasks, files>>

Raises ==
  /\ stage \in Kinds
  /\ \E s \in Sources : Kind[s] = stage /\ task[s] = "error"
  /\ Abort

Ended == stage \in Over /\ UNCHANGED vars

Group == StartPool \/ (\E t \in Targets : Visit(t)) \/ (\E i \in Items : Collect(i))

Task(s) ==
  Download(s) \/ (\E i \in Items : Save(s, i)) \/ SaveFails(s) \/ TaskEnds(s)

Parent ==
  \/ \E given \in SUBSET Flags, objs \in SUBSET Targets : Plan(given, objs)
  \/ Group \/ NextStage \/ Raises

Next == Parent \/ (\E s \in Sources : Task(s)) \/ Abort \/ Ended

Spec == Init /\ [][Next]_vars

-----------------------------------------------------------------------------
(* Properties *)

\* What the user asked for lets a file at place p be overwritten: a forced run, or a
\* run that fetches just what has force_fetch, for a target with such a dependency.
AskedFor(p) ==
  \/ Fetching(flags) /\ Forcing(flags)
  \/ /\ ~ Fetching(flags)
     /\ \E i \in Items, j \in Forced :
          Path[i] = p[1] /\ Owner[i] \in chosen /\ Owner[j] = Owner[i]

\* A file of the user's own is overwritten only where that was asked for.
OverwritesAreForced ==
  [][\A p \in DOMAIN files : files[p] = Local /\ files'[p] # Local => AskedFor(p)]_vars

\* The revisions that a clone of s passes through.
Checkouts(s) ==
  {Head[s]} \cup {Ref[j] : j \in {k \in Items : /\ Source[k] = s /\ Owner[k] \in chosen
                                               /\ Ref[k] # None}}

\* What is saved at a path is the revision that a dependency of a selected target
\* asks for there, the default branch if it asks for none, in whichever order the
\* dependencies of a source are checked out.  Only of a source without a default
\* branch is it what another dependency of it asks for.
RightRevision ==
  \A p \in DOMAIN files :
    files[p] \notin {Absent, Empty, Local} =>
      \E i \in Items, r \in Refs :
        /\ Owner[i] \in chosen /\ Path[i] = p[1]
        /\ files[p] = <<Source[i], r>>
        /\ IF Ref[i] # None THEN r = Ref[i]
           ELSE IF Source[i] \in Detached THEN r \in Checkouts(Source[i])
           ELSE r = Head[Source[i]]

\* Is dependency i to be fetched?
ToFetch(i) ==
  /\ Owner[i] \in chosen
  /\ Fetching(flags) \/ (~ Forcing(flags) /\ ItemsOf(Owner[i]) \cap Forced # {})

\* The dependencies of which one is saved for all.
Twins(i) ==
  {j \in Items : ToFetch(j) /\ Path[j] = Path[i] /\ Uri[Source[j]] = Uri[Source[i]]}

\* The place of i: its output_path, unless a relative --output-path is joined once
\* for each of the target's dependencies with force_fetch.
Goes(i) == PlaceAfter(i, Visits(flags, chosen, Owner[i]))

\* "This will download the dependencies and store them at their respective
\* output_path" (docs, external_dependencies): after fetching, every dependency that
\* was to be fetched, or one it shares source and path with, is at its place, and
\* there is nothing outside the output paths but at such a place.  Two kinds of
\* dependency are left with an empty directory: a chart whose directory was there
\* already, without force, and a download that cannot be unpacked.
StoredAtPath ==
  /\ stage = "done" => \A i \in Items : ToFetch(i) =>
       \E j \in Twins(i) :
         /\ files[Goes(j)] # Absent
         /\ files[Goes(j)] = Empty => j \in Ignored \/ (Kind[Source[j]] = "helm" /\ ~ force)
  /\ \A p \in DOMAIN files : p[2] # 1 /\ files[p] # Absent =>
       \E i \in Items : ToFetch(i) /\ p = Goes(i)
=============================================================================
