----------------------------- MODULE CompileRun -----------------------------
(***************************************************************************)
(* One `kapitan compile`: compile_targets in kapitan/targets.py.  The      *)
(* parent selects targets, has a pool of worker processes compile them     *)
(* into a temporary directory, and only then replaces what is in           *)
(* <output-path>/compiled.                                                 *)
(*                                                                         *)
(* The output directory is seen one target directory at a time: a target's *)
(* directory holds the output of an earlier run ("old", or "cut" once a    *)
(* remove config of this run took something out of it), of this run        *)
(* ("whole", or "part" when a compile config failed and was continued      *)
(* over), or there is none.  The dots of a target's name are directory     *)
(* separators, so the directory of one target can lie inside another's.    *)
(* Whatever an earlier run left, finished, failed or killed, is an initial *)
(* state.                                                                  *)
(***************************************************************************)
EXTENDS Naturals, FiniteSets

CONSTANTS
  Targets,    \* the targets of the inventory
  Dirs,       \* target directories: of Targets, and of targets that are gone
  Inside,     \* Inside[d]: the directories that lie inside d
  Configs,    \* Configs[t]: the length of t's compile list
  Tolerant,   \* <<t, i>>: the i-th of them has continue_on_compile_error
  Removing,   \* <<t, i, d>>: the i-th is a remove config that names something in d
  Bare,       \* targets whose parameters may turn out to be empty
  Workers,    \* the processes of the compile pool
  None,
  MaxDeaths   \* bound: tasks lost because their worker was killed

ASSUME RunAssumption ==
  /\ IsFiniteSet(Targets)
  /\ Targets \subseteq Dirs
  /\ Inside \in [Dirs -> SUBSET Dirs]
  /\ Configs \in [Targets -> Nat]
  /\ Tolerant \subseteq Targets \X Nat
  /\ Removing \subseteq Targets \X Nat \X Dirs
  /\ Bare \subseteq Targets
  /\ None \notin Dirs
  /\ MaxDeaths \in Nat

VARIABLES
  phase,        \* where compile_targets is
  target_objs,  \* the targets it compiles
  job,          \* job[t]: the state of t's task in the pool
  at,           \* at[w]: the target worker w compiles, or None
  step,         \* step[t]: compile configs of t that are behind it
  made,         \* made[t]: t's directory exists in the temporary directory
  missed,       \* missed[t]: a config of t failed and was continued over
  out,          \* out[d]: what d holds in the output directory
  before,       \* out as this run found it
  todo,         \* target directories still to be replaced
  cur,          \* the target whose directory is being replaced
  temp_path     \* does the temporary directory exist?

pool == <<job, at, step, made, missed>>
publishing == <<out, todo, cur>>
vars == <<phase, target_objs, job, at, step, made, missed, out, before, todo,
          cur, temp_path>>

Phases == {"select", "fetch", "compile", "override", "replace", "copy",
           "done", "failed", "rejected", "killed"}
Ended == {"done", "failed", "rejected", "killed"}
Jobs == {"none", "queued", "running", "ok", "error", "lost"}
Contents == {"none", "old", "cut", "part", "whole"}

TypeOK ==
  /\ phase \in Phases
  /\ target_objs \subseteq Targets
  /\ job \in [Targets -> Jobs]
  /\ at \in [Workers -> Targets \cup {None}]
  /\ step \in [Targets -> Nat]
  /\ made \in [Targets -> BOOLEAN]
  /\ missed \in [Targets -> BOOLEAN]
  /\ out \in [Dirs -> Contents]
  /\ before \in [Dirs -> {"none", "old"}]
  /\ todo \subseteq Targets
  /\ cur \in Targets \cup {None}
  /\ temp_path \in BOOLEAN

Init ==
  /\ phase = "select"
  /\ target_objs = {}
  /\ job = [t \in Targets |-> "none"]
  /\ at = [w \in Workers |-> None]
  /\ step = [t \in Targets |-> 0]
  /\ made = [t \in Targets |-> FALSE]
  /\ missed = [t \in Targets |-> FALSE]
  /\ out \in [Dirs -> {"none", "old"}]
  /\ before = out
  /\ todo = {}
  /\ cur = None
  /\ temp_path = TRUE

-----------------------------------------------------------------------------
(* Selection: -t, -l and load_target_inventory *)

\* Nothing asked for means every target; names not in the inventory are ignored.
Requested(asked) == IF asked = {} THEN Targets ELSE asked \cap Targets

\* load_target_inventory: with --fetch, targets without parameters are skipped;
\* without it they are an error, as is an empty result.
Selected(asked, bare, fetch) ==
  IF ~ fetch /\ Requested(asked) \cap bare # {} THEN {} ELSE Requested(asked) \ bare

\* The errors raised here come before the `try`: its `finally` does not run and
\* the temporary directory stays behind.
Select(asked, bare, fetch) ==
  /\ phase = "select"
  /\ \/ /\ Selected(asked, bare, fetch) # {}
        /\ target_objs' = Selected(asked, bare, fetch)
        /\ phase' = "fetch"
     \/ /\ Selected(asked, bare, fetch) = {}
        /\ phase' = "rejected"
        /\ UNCHANGED target_objs
  /\ UNCHANGED <<pool, publishing, before, temp_path>>

\* What `except` and `finally` do with an error: the pool is terminated on the
\* way out of its `with` block, then the temporary directory is removed.
Fail ==
  /\ phase' = "failed"
  /\ temp_path' = FALSE
  /\ at' = [w \in Workers |-> None]

\* Fetching works on its own pool and leaves the output directory alone (module
\* Fetch has the details); it may also raise.
FetchDependencies ==
  /\ phase = "fetch"
  /\ phase' = "compile"
  /\ job' = [t \in Targets |-> IF t \in target_objs THEN "queued" ELSE "none"]
  /\ UNCHANGED <<target_objs, at, step, made, missed, publishing, before, temp_path>>

FetchFails ==
  /\ phase = "fetch"
  /\ Fail
  /\ UNCHANGED <<target_objs, job, step, made, missed, publishing, before>>

-----------------------------------------------------------------------------
(* The compile pool *)

\* A worker takes the next task.  Which one that is depends on the order of the
\* inventory; the model leaves it open.
Take(w, t) ==
  /\ phase = "compile"
  /\ at[w] = None
  /\ job[t] = "queued"
  /\ at' = [at EXCEPT ![w] = t]
  /\ job' = [job EXCEPT ![t] = "running"]
  /\ UNCHANGED <<phase, target_objs, step, made, missed, publishing, before, temp_path>>

Compiling(w) ==
  /\ phase = "compile"
  /\ at[w] # None
  /\ step[at[w]] < Configs[at[w]]

\* The directories in which the i-th compile config of t removes something.
Named(t, i) == {d \in Dirs : <<t, i, d>> \in Removing}

\* Those that this run's remove configs name.
Removable == {d \in Dirs : \E t \in target_objs : \E i \in 1..Configs[t] : d \in Named(t, i)}

\* What the next compile config of t leaves of the directories.  The search
\* paths in which a remove config looks for its input paths are those of the run,
\* the current directory among them and the temporary one: what it names there
\* is removed, in part or altogether, from what is published and from what has
\* been compiled, whichever target's it is.  A path that cannot be removed is
\* only logged.  Other configs make t's own directory, if "has" says so.
Leaves(t, has) ==
  \E hit \in SUBSET Named(t, step[t] + 1) : \E whole \in SUBSET hit, unmade \in SUBSET hit :
    /\ out' = [d \in Dirs |-> IF d \notin hit \/ out[d] = "none" THEN out[d]
                              ELSE IF d \in whole THEN "none" ELSE "cut"]
    /\ made' = [e \in Targets |-> IF e \in unmade THEN FALSE
                                  ELSE IF e = t THEN has ELSE made[e]]

\* A compile config succeeds: its output is in the temporary directory.  A
\* directory that was removed again may not be made anew (module TargetInputs).
CompileConfig(w) ==
  /\ Compiling(w)
  /\ step' = [step EXCEPT ![at[w]] = @ + 1]
  /\ \E has \in {made[at[w]] \/ at[w] \notin Removable, TRUE} : Leaves(at[w], has)
  /\ UNCHANGED <<phase, target_objs, job, at, missed, before, todo, cur, temp_path>>

\* A compile config with continue_on_compile_error raises, before or after its
\* directory is made; a remove config when one of its input paths is not found.
SkipConfig(w) ==
  /\ Compiling(w)
  /\ <<at[w], step[at[w]] + 1>> \in Tolerant
  /\ step' = [step EXCEPT ![at[w]] = @ + 1]
  /\ missed' = [missed EXCEPT ![at[w]] = TRUE]
  /\ \E has \in {made[at[w]], TRUE} : Leaves(at[w], has)
  /\ UNCHANGED <<phase, target_objs, job, at, before, todo, cur, temp_path>>

\* A compile config raises and compile_target with it: any error of a config
\* without continue_on_compile_error, and an AttributeError of any config.
ConfigFails(w) ==
  /\ Compiling(w)
  /\ job' = [job EXCEPT ![at[w]] = "error"]
  /\ \E has \in {made[at[w]], TRUE} : Leaves(at[w], has)
  /\ at' = [at EXCEPT ![w] = None]
  /\ UNCHANGED <<phase, target_objs, step, missed, before, todo, cur, temp_path>>

\* Mutant of Return: off by one, the loop waits for one config too many.
ReturnLate(w) ==
  /\ phase = "compile"
  /\ at[w] # None
  /\ step[at[w]] > Configs[at[w]]
  /\ job' = [job EXCEPT ![at[w]] = "ok"]
  /\ at' = [at EXCEPT ![w] = None]
  /\ UNCHANGED <<phase, target_objs, step, made, missed, publishing, before, temp_path>>

\* compile_target returns None after the last compile config.
Return(w) ==
  /\ phase = "compile"
  /\ at[w] # None
  /\ step[at[w]] = Configs[at[w]]
  /\ job' = [job EXCEPT ![at[w]] = "ok"]
  /\ at' = [at EXCEPT ![w] = None]
  /\ UNCHANGED <<phase, target_objs, step, made, missed, publishing, before, temp_path>>

Lost == {t \in Targets : job[t] = "lost"}

\* A worker is killed (out of memory, say).  The pool starts another in its
\* place, but its task is not given to anyone again.
WorkerDies(w) ==
  /\ at[w] # None
  /\ Cardinality(Lost) < MaxDeaths
  /\ job' = [job EXCEPT ![at[w]] = "lost"]
  /\ at' = [at EXCEPT ![w] = None]
  /\ UNCHANGED <<phase, target_objs, step, made, missed, publishing, before, temp_path>>

\* The loop over imap_unordered raises the first error it comes to.
PoolFails ==
  /\ phase = "compile"
  /\ \E t \in target_objs : job[t] = "error"
  /\ Fail
  /\ UNCHANGED <<target_objs, job, step, made, missed, publishing, before>>

-----------------------------------------------------------------------------
(* Publishing *)

\* Mutant of PoolReturns: publishing starts when no task is left in the queue.
PoolReturnsEarly ==
  /\ phase = "compile"
  /\ \A t \in target_objs : job[t] \notin {"queued", "error"}
  /\ todo' = target_objs
  /\ phase' = IF Cardinality(target_objs) < Cardinality(Targets)
              THEN "override" ELSE "replace"
  /\ UNCHANGED <<target_objs, pool, out, cur, before, temp_path>>

\* Mutant of PoolReturns: the output directory is always replaced as a whole.
PoolReturnsWhole ==
  /\ phase = "compile"
  /\ \A t \in target_objs : job[t] = "ok"
  /\ todo' = target_objs
  /\ phase' = "replace"
  /\ UNCHANGED <<target_objs, pool, out, cur, before, temp_path>>

\* imap_unordered has a result for every task.  Fewer target objects than
\* targets: override those one by one, otherwise replace everything.
PoolReturns ==
  /\ phase = "compile"
  /\ \A t \in target_objs : job[t] = "ok"
  /\ todo' = target_objs
  /\ phase' = IF Cardinality(target_objs) < Cardinality(Targets)
              THEN "override" ELSE "replace"
  /\ UNCHANGED <<target_objs, pool, out, cur, before, temp_path>>

\* What a run has of directory d in its temporary directory.
Compiled(d) ==
  IF d \notin Targets THEN "none"
  ELSE IF ~ made[d] THEN "none"
  ELSE IF missed[d] THEN "part" ELSE "whole"

Family(d) == {d} \cup Inside[d]
InTemp(d) == \E e \in Family(d) : Compiled(e) # "none"

\* Mutant of Clear: all directories are cleared before any is copied.
ClearWhole(t) ==
  /\ phase = "override"
  /\ cur = None
  /\ t \in todo
  /\ cur' = t
  /\ out' = [d \in Dirs |-> IF d \in todo THEN "none" ELSE out[d]]
  /\ UNCHANGED <<phase, target_objs, pool, todo, before, temp_path>>

\* rmtree(compile_path_target)
Clear(t) ==
  /\ phase = "override"
  /\ cur = None
  /\ t \in todo
  /\ cur' = t
  /\ out' = [d \in Dirs |-> IF d \in Family(t) THEN "none" ELSE out[d]]
  /\ UNCHANGED <<phase, target_objs, pool, todo, before, temp_path>>

\* copytree(temp_path_target, compile_path_target)
CopyInto ==
  /\ phase = "override"
  /\ cur # None
  /\ InTemp(cur)
  /\ out' = [d \in Dirs |->
               IF d \in Family(cur) /\ Compiled(d) # "none" THEN Compiled(d) ELSE out[d]]
  /\ todo' = todo \ {cur}
  /\ cur' = None
  /\ UNCHANGED <<phase, target_objs, pool, before, temp_path>>

\* rmtree(compile_path), one directory after the other ...
RemoveOne(d) ==
  /\ phase = "replace"
  /\ out[d] # "none"
  /\ out' = [out EXCEPT ![d] = "none"]
  /\ UNCHANGED <<phase, target_objs, pool, todo, cur, before, temp_path>>

\* The output directory is gone, whatever was in it.
RemovedAll ==
  /\ phase = "replace"
  /\ \A d \in Dirs : out[d] = "none"
  /\ todo' = {t \in Targets : made[t]}
  /\ phase' = "copy"
  /\ UNCHANGED <<target_objs, pool, out, cur, before, temp_path>>

\* ... and copytree(temp_compile_path, compile_path), in the order of the
\* directory entries.
CopyOne(t) ==
  /\ phase = "copy"
  /\ t \in todo
  /\ out' = [out EXCEPT ![t] = Compiled(t)]
  /\ todo' = todo \ {t}
  /\ UNCHANGED <<phase, target_objs, pool, cur, before, temp_path>>

\* Mutant of Finish: the loop is left before its last target.
FinishEarly ==
  /\ \/ phase = "override" /\ Cardinality(todo) <= 1
     \/ phase = "copy" /\ todo = {} /\ \E t \in Targets : made[t]
  /\ cur = None
  /\ phase' = "done"
  /\ temp_path' = FALSE
  /\ UNCHANGED <<target_objs, pool, publishing, before>>

\* compile_targets returns; `finally` removes the temporary directory.
Finish ==
  /\ \/ phase = "override" /\ todo = {}
     \/ phase = "copy" /\ todo = {} /\ \E t \in Targets : made[t]
  /\ cur = None
  /\ phase' = "done"
  /\ temp_path' = FALSE
  /\ UNCHANGED <<target_objs, pool, publishing, before>>

\* rmtree or copytree raises: there is nothing to copy, or the disk is full.
PublishFails ==
  /\ phase \in {"override", "replace", "copy"}
  /\ Fail
  /\ UNCHANGED <<target_objs, job, step, made, missed, publishing, before>>

\* The parent is killed, wherever it is; its workers go with it.
Kill ==
  /\ phase \notin Ended
  /\ phase' = "killed"
  /\ at' = [w \in Workers |-> None]
  /\ UNCHANGED <<target_objs, job, step, made, missed, publishing, before, temp_path>>

Terminated == phase \in Ended /\ UNCHANGED vars

Work(w) ==
  \/ \E t \in Targets : Take(w, t)
  \/ CompileConfig(w) \/ SkipConfig(w) \/ ConfigFails(w) \/ Return(w)

Publish ==
  \/ \E t \in Targets : Clear(t) \/ CopyOne(t)
  \/ \E d \in Dirs : RemoveOne(d)
  \/ CopyInto \/ RemovedAll \/ Finish \/ PublishFails

Parent ==
  \/ \E asked \in SUBSET Dirs, bare \in SUBSET Bare, fetch \in BOOLEAN :
       Select(asked, bare, fetch)
  \/ FetchDependencies \/ FetchFails
  \/ PoolReturns \/ PoolFails
  \/ Publish

Next ==
  \/ Parent
  \/ \E w \in Workers : Work(w) \/ WorkerDies(w)
  \/ Kill
  \/ Terminated

Spec == Init /\ [][Next]_vars

\* The operating system schedules the parent and the workers.
FairSpec == Spec /\ WF_vars(Parent) /\ \A w \in Workers : WF_vars(Work(w))

-----------------------------------------------------------------------------
(* Properties *)

\* Nothing is published before every selected target has been compiled: a
\* failing target, a terminated pool, a worker that was killed or a failed fetch
\* leave the output directory as it was, but for what a remove config names: that
\* is gone as soon as it has run, whatever becomes of the run.
AllOrNothing ==
  [][\A d \in Dirs : out'[d] # out[d] =>
       \/ \A t \in target_objs : job[t] = "ok"
       \/ /\ out'[d] \in {"cut", "none"}
          /\ \E w \in Workers : Compiling(w) /\ d \in Named(at[w], step[at[w]] + 1)]_vars

\* "if '-t' is set on compile or only a few changed, only override selected
\* targets" (targets.py): a run over a selection leaves every other target's
\* directory alone, unless a remove config of a selected target names it.
OnlySelected ==
  [][\A d \in Dirs : out'[d] # out[d] =>
       d \in target_objs \/ d \in Removable \/ target_objs = Targets]_vars

\* A run over a selection takes targets' directories away one at a time: one
\* that is cut short wherever it may be costs at most the target it was at, and
\* what its remove configs name.
LossIsConfined ==
  target_objs # Targets =>
    \A d \in Dirs : before[d] # "none" /\ out[d] \in {"cut", "none"} =>
      \/ cur # None /\ d \in Family(cur)
      \/ d \in Removable

\* A full run removes everything before it copies anything: cut short wherever
\* it may be, it never leaves output of this run beside output of an earlier one.
NeverMixed ==
  target_objs = Targets /\ (\E d \in Dirs : out[d] \in {"part", "whole"}) =>
    \A d \in Dirs : out[d] \notin {"old", "cut"}

\* Output that misses a failed config is published only of targets with a
\* compile config that has continue_on_compile_error.
PartOnlyIfTolerated ==
  \A t \in Targets : out[t] = "part" => \E i \in 1..Configs[t] : <<t, i>> \in Tolerant

\* A run that ends well has published what it compiled of every selected
\* target; a full run has also removed the directories of targets that are gone,
\* and a run over a selection has not published any target without output.
DoneIsPublished ==
  phase = "done" =>
    /\ \A t \in target_objs : out[t] = Compiled(t) /\ step[t] = Configs[t]
    /\ target_objs = Targets => \A d \in Dirs \ Targets : out[d] = "none"
    /\ target_objs # Targets => \A t \in target_objs : out[t] # "none"

\* The run ends, and takes its temporary directory with it once it got as far as
\* fetching, unless it is killed or a worker is: the task of a killed worker is
\* waited for without end.
RunEnds ==
  <>(\/ phase = "rejected" \/ phase = "killed" \/ Lost # {}
     \/ phase \in {"done", "failed"} /\ ~ temp_path)
=============================================================================
