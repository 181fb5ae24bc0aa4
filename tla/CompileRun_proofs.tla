-------------------------- MODULE CompileRun_proofs --------------------------
(***************************************************************************)
(* Proofs about CompileRun for every inventory, every pool and every bound *)
(* on deaths.  What is said of single target directories is proved of flat *)
(* target names: with nested names it is not true.                         *)
(* Then, about Inventory, for every tree, every edit, every run and kill:  *)
(* what a migration may lose, what a class wildcard comes to mean, and     *)
(* that the inventory which the run then compiles is handed out whole.     *)
(* Those last two are about folds and a recursion; what these return is    *)
(* proved by induction over numbers, from the fact that every set of       *)
(* numbers has a least one.                                                *)
(***************************************************************************)
EXTENDS CompileRun, Inventory, FiniteSetTheorems, WellFoundedInduction, TLAPS

Flatness == \A d \in Dirs : Inside[d] = {}

\* What the parent has decided, and what each state of the pool means.
WorkerInv(w) ==
  at[w] # None =>
    /\ phase = "compile"
    /\ job[at[w]] = "running"
    /\ \A v \in Workers : at[v] = at[w] => v = w

PoolInv ==
  /\ \A w \in Workers : WorkerInv(w)
  /\ \A t \in Targets : job[t] # "none" => t \in target_objs /\ phase \notin {"select", "fetch"}
  /\ \A t \in Targets : job[t] = "ok" => step[t] = Configs[t]
  /\ \A t \in Targets : missed[t] => \E i \in 1..Configs[t] : <<t, i>> \in Tolerant

\* Publishing starts only after the pool, and from an output directory that is as
\* it was but for what remove configs took away.
BarrierInv ==
  /\ phase \in {"select", "fetch", "rejected"} => out = before
  /\ phase = "compile" =>
       \A d \in Dirs : out[d] = before[d] \/ (d \in Removable /\ out[d] \in {"cut", "none"})
  /\ phase \in {"select", "fetch", "compile", "rejected"} => cur = None
  /\ phase \in {"override", "replace", "copy", "done"} =>
       \A t \in target_objs : job[t] = "ok"

ModeInv ==
  /\ phase = "override" => /\ target_objs # Targets
                           /\ todo \subseteq target_objs
                           /\ cur \in todo \cup {None}
  /\ phase \in {"replace", "copy"} => target_objs = Targets /\ cur = None

IndInv == TypeOK /\ PoolInv /\ BarrierInv /\ ModeInv

\* What has been published so far.
PartInv == \A d \in Dirs : out[d] = "part" => d \in Targets /\ missed[d]

\* How far publishing has come, for flat names.
ProgressInv ==
  /\ phase = "override" =>
       \A t \in target_objs \ todo : out[t] = Compiled(t) /\ out[t] # "none"
  /\ phase = "copy" =>
       /\ \A t \in Targets \ todo : out[t] = Compiled(t)
       /\ \A d \in Dirs \ Targets : out[d] = "none"

-----------------------------------------------------------------------------
LEMMA SelectedIsKnown ==
  ASSUME NEW asked, NEW bare, NEW fetch
  PROVE  Selected(asked, bare, fetch) \subseteq Targets
BY DEF Selected, Requested

\* Fewer target objects than targets: some target is not selected.
LEMMA FewerIsSome ==
  ASSUME RunAssumption, target_objs \subseteq Targets
  PROVE  Cardinality(target_objs) < Cardinality(Targets) <=> target_objs # Targets
<1>1. /\ IsFiniteSet(target_objs)
      /\ Cardinality(target_objs) \in Nat /\ Cardinality(Targets) \in Nat
      /\ Cardinality(target_objs) <= Cardinality(Targets)
      /\ Cardinality(target_objs) = Cardinality(Targets) => target_objs = Targets
  BY FS_Subset, FS_CardinalityType DEF RunAssumption
<1> QED BY <1>1

\* What a directory may get from the temporary directory.
LEMMA CompiledType ==
  ASSUME NEW d
  PROVE  /\ Compiled(d) \in Contents
         /\ Compiled(d) = "part" => d \in Targets /\ missed[d]
BY DEF Compiled, Contents

\* The steps of a worker that run a compile config.
ConfigStep(w) == CompileConfig(w) \/ SkipConfig(w) \/ ConfigFails(w)

LEMMA ConfigGuard ==
  ASSUME RunAssumption, TypeOK, NEW w \in Workers, ConfigStep(w)
  PROVE  /\ Compiling(w) /\ phase' = phase
         /\ UNCHANGED <<target_objs, before, todo, cur, temp_path>>
         /\ at[w] \in Targets /\ step[at[w]] + 1 \in 1..Configs[at[w]]
         /\ \E has \in BOOLEAN : Leaves(at[w], has)
<1>1. /\ Compiling(w) /\ phase' = phase
      /\ UNCHANGED <<target_objs, before, todo, cur, temp_path>>
  BY DEF ConfigStep, CompileConfig, SkipConfig, ConfigFails
<1>2. at[w] \in Targets /\ made[at[w]] \in BOOLEAN
  BY <1>1 DEF Compiling, TypeOK
<1>3. step[at[w]] + 1 \in 1..Configs[at[w]]
  BY <1>1, <1>2 DEF Compiling, TypeOK, RunAssumption
<1>4. ASSUME CompileConfig(w)
      PROVE  \E has \in BOOLEAN : Leaves(at[w], has)
  <2>1. PICK has \in {made[at[w]] \/ at[w] \notin Removable, TRUE} : Leaves(at[w], has)
    BY <1>4 DEF CompileConfig
  <2>2. has \in BOOLEAN
    BY <2>1
  <2> QED BY <2>1, <2>2
<1>5. ASSUME SkipConfig(w) \/ ConfigFails(w)
      PROVE  \E has \in BOOLEAN : Leaves(at[w], has)
  <2>1. PICK has \in {made[at[w]], TRUE} : Leaves(at[w], has)
    BY <1>5 DEF SkipConfig, ConfigFails
  <2>2. has \in BOOLEAN
    BY <2>1, <1>2
  <2> QED BY <2>1, <2>2
<1> QED BY <1>1, <1>2, <1>3, <1>4, <1>5 DEF ConfigStep

\* Such a step takes away what the config names, and puts nothing there.
LEMMA ConfigLeaves ==
  ASSUME RunAssumption, TypeOK, NEW w \in Workers, ConfigStep(w)
  PROVE  /\ out' \in [Dirs -> Contents]
         /\ made' \in [Targets -> BOOLEAN]
         /\ \A d \in Dirs : out'[d] # out[d] =>
              out'[d] \in {"cut", "none"} /\ d \in Named(at[w], step[at[w]] + 1)
<1> DEFINE t == at[w]
<1>1. PICK has \in BOOLEAN : Leaves(t, has)
  BY ConfigGuard
<1> HIDE DEF t
<1>2. PICK hit \in SUBSET Named(t, step[t] + 1) : \E whole \in SUBSET hit, unmade \in SUBSET hit :
        /\ out' = [d \in Dirs |-> IF d \notin hit \/ out[d] = "none" THEN out[d]
                                  ELSE IF d \in whole THEN "none" ELSE "cut"]
        /\ made' = [e \in Targets |-> IF e \in unmade THEN FALSE
                                      ELSE IF e = t THEN has ELSE made[e]]
  BY <1>1 DEF Leaves
<1>3. /\ out' \in [Dirs -> Contents]
      /\ made' \in [Targets -> BOOLEAN]
      /\ \A d \in Dirs : out'[d] # out[d] =>
           out'[d] \in {"cut", "none"} /\ d \in Named(t, step[t] + 1)
  BY <1>2 DEF TypeOK, Contents
<1> QED BY <1>3 DEF t

\* What is removable changes with the selection only.
LEMMA RemovableKept ==
  ASSUME target_objs' = target_objs PROVE Removable' = Removable
BY DEF Removable, Named

LEMMA TypeStep ==
  ASSUME RunAssumption, TypeOK, [Next]_vars
  PROVE  TypeOK'
<1> USE DEF TypeOK, pool, publishing, Phases, Jobs
<1>1. ASSUME NEW asked \in SUBSET Dirs, NEW bare \in SUBSET Bare, NEW fetch \in BOOLEAN,
             Select(asked, bare, fetch)
      PROVE  TypeOK'
  BY <1>1, SelectedIsKnown DEF Select
<1>2. CASE FetchDependencies
  BY <1>2 DEF FetchDependencies
<1>3. CASE FetchFails
  BY <1>3 DEF FetchFails, Fail
<1>4. ASSUME NEW w \in Workers, NEW t \in Targets, Take(w, t)
      PROVE  TypeOK'
  BY <1>4 DEF Take
<1>5. ASSUME NEW w \in Workers, CompileConfig(w)
      PROVE  TypeOK'
  <2>1. ConfigStep(w)
    BY <1>5 DEF ConfigStep
  <2>2. out' \in [Dirs -> Contents] /\ made' \in [Targets -> BOOLEAN]
    BY <2>1, ConfigLeaves
  <2>3. at[w] \in Targets
    BY <2>1, ConfigGuard
  <2>4. /\ step' = [step EXCEPT ![at[w]] = @ + 1]
        /\ UNCHANGED <<phase, target_objs, job, at, missed, before, todo, cur, temp_path>>
    BY <1>5 DEF CompileConfig
  <2> QED BY <2>2, <2>3, <2>4
<1>6. ASSUME NEW w \in Workers, SkipConfig(w)
      PROVE  TypeOK'
  <2>1. ConfigStep(w)
    BY <1>6 DEF ConfigStep
  <2>2. out' \in [Dirs -> Contents] /\ made' \in [Targets -> BOOLEAN]
    BY <2>1, ConfigLeaves
  <2>3. at[w] \in Targets
    BY <2>1, ConfigGuard
  <2> QED BY <1>6, <2>2, <2>3 DEF SkipConfig
<1>7. ASSUME NEW w \in Workers, ConfigFails(w)
      PROVE  TypeOK'
  <2>1. ConfigStep(w)
    BY <1>7 DEF ConfigStep
  <2>2. out' \in [Dirs -> Contents] /\ made' \in [Targets -> BOOLEAN]
    BY <2>1, ConfigLeaves
  <2>3. at[w] \in Targets
    BY <2>1, ConfigGuard
  <2> QED BY <1>7, <2>2, <2>3 DEF ConfigFails
<1>8. ASSUME NEW w \in Workers, Return(w)
      PROVE  TypeOK'
  BY <1>8 DEF Return
<1>9. ASSUME NEW w \in Workers, WorkerDies(w)
      PROVE  TypeOK'
  BY <1>9 DEF WorkerDies
<1>10. CASE PoolReturns
  BY <1>10 DEF PoolReturns
<1>11. CASE PoolFails
  BY <1>11 DEF PoolFails, Fail
<1>12. ASSUME NEW t \in Targets, Clear(t)
       PROVE  TypeOK'
  BY <1>12 DEF Clear, Contents
<1>13. CASE CopyInto
  BY <1>13, CompiledType DEF CopyInto
<1>14. ASSUME NEW d \in Dirs, RemoveOne(d)
       PROVE  TypeOK'
  BY <1>14 DEF RemoveOne, Contents
<1>15. CASE RemovedAll
  BY <1>15 DEF RemovedAll
<1>16. ASSUME NEW t \in Targets, CopyOne(t)
       PROVE  TypeOK'
  BY <1>16, CompiledType DEF CopyOne
<1>17. CASE Finish
  BY <1>17 DEF Finish
<1>18. CASE PublishFails
  BY <1>18 DEF PublishFails, Fail
<1>19. CASE Kill
  BY <1>19 DEF Kill
<1>20. CASE UNCHANGED vars
  BY <1>20 DEF vars
<1> HIDE DEF TypeOK, pool, publishing, Phases, Jobs
<1> QED
  BY <1>1, <1>2, <1>3, <1>4, <1>5, <1>6, <1>7, <1>8, <1>9, <1>10, <1>11, <1>12, <1>13,
     <1>14, <1>15, <1>16, <1>17, <1>18, <1>19, <1>20
  DEF Next, Parent, Publish, Work, Terminated

\* The type invariant holds in every state.
THEOREM TypeCorrect == ASSUME RunAssumption PROVE Spec => []TypeOK
<1>1. Init => TypeOK
  BY DEF Init, TypeOK, Phases, Jobs, Contents, RunAssumption
<1>2. TypeOK /\ [Next]_vars => TypeOK'
  BY TypeStep
<1> QED BY <1>1, <1>2, PTL DEF Spec

-----------------------------------------------------------------------------
(* The pool: a target is compiled by one worker, and only while the parent *)
(* waits for the pool.                                                     *)

LEMMA PoolStep ==
  ASSUME RunAssumption, IndInv, [Next]_vars
  PROVE  PoolInv'
<1> USE DEF IndInv, TypeOK, PoolInv, WorkerInv, pool, publishing, RunAssumption
<1>1. ASSUME NEW asked \in SUBSET Dirs, NEW bare \in SUBSET Bare, NEW fetch \in BOOLEAN,
             Select(asked, bare, fetch)
      PROVE  PoolInv'
  BY <1>1 DEF Select
<1>2. CASE FetchDependencies
  BY <1>2 DEF FetchDependencies
<1>3. CASE FetchFails
  BY <1>3 DEF FetchFails, Fail
<1>4. ASSUME NEW w \in Workers, NEW t \in Targets, Take(w, t)
      PROVE  PoolInv'
  BY <1>4 DEF Take
<1>5. ASSUME NEW w \in Workers, CompileConfig(w)
      PROVE  PoolInv'
  BY <1>5 DEF CompileConfig, Compiling
<1>6. ASSUME NEW w \in Workers, SkipConfig(w)
      PROVE  PoolInv'
  <2>1. /\ at[w] \in Targets /\ step[at[w]] + 1 \in 1..Configs[at[w]]
        /\ <<at[w], step[at[w]] + 1>> \in Tolerant
        /\ missed' = [missed EXCEPT ![at[w]] = TRUE]
        /\ step' = [step EXCEPT ![at[w]] = @ + 1]
        /\ job[at[w]] # "ok"
        /\ UNCHANGED <<phase, target_objs, job, at>>
    BY <1>6 DEF SkipConfig, Compiling
  <2>2. \A t \in Targets : missed'[t] => \E i \in 1..Configs[t] : <<t, i>> \in Tolerant
    BY <2>1
  <2>3. \A t \in Targets : job'[t] = "ok" => step'[t] = Configs[t]
    BY <2>1
  <2> QED BY <2>1, <2>2, <2>3
<1>7. ASSUME NEW w \in Workers, ConfigFails(w)
      PROVE  PoolInv'
  BY <1>7 DEF ConfigFails, Compiling
<1>8. ASSUME NEW w \in Workers, Return(w)
      PROVE  PoolInv'
  BY <1>8 DEF Return
<1>9. ASSUME NEW w \in Workers, WorkerDies(w)
      PROVE  PoolInv'
  BY <1>9 DEF WorkerDies
<1>10. CASE PoolReturns
  <2>1. /\ phase = "compile" /\ phase' \in {"override", "replace"}
        /\ \A t \in target_objs : job[t] = "ok"
        /\ UNCHANGED <<target_objs, job, at, step, missed>>
    BY <1>10 DEF PoolReturns
  <2>2. \A w \in Workers : at[w] = None
    BY <2>1
  <2> QED BY <2>1, <2>2
<1>11. CASE PoolFails
  BY <1>11 DEF PoolFails, Fail
<1>12. ASSUME NEW t \in Targets, Clear(t)
      PROVE  PoolInv'
  BY <1>12 DEF Clear
<1>13. CASE CopyInto
  BY <1>13 DEF CopyInto
<1>14. ASSUME NEW d \in Dirs, RemoveOne(d)
      PROVE  PoolInv'
  BY <1>14 DEF RemoveOne
<1>15. CASE RemovedAll
  BY <1>15 DEF RemovedAll
<1>16. ASSUME NEW t \in Targets, CopyOne(t)
      PROVE  PoolInv'
  BY <1>16 DEF CopyOne
<1>17. CASE Finish
  BY <1>17 DEF Finish
<1>18. CASE PublishFails
  BY <1>18 DEF PublishFails, Fail
<1>19. CASE Kill
  BY <1>19 DEF Kill
<1>20. CASE UNCHANGED vars
  BY <1>20 DEF vars
<1> HIDE DEF IndInv, TypeOK, PoolInv, WorkerInv, pool, publishing, RunAssumption
<1> QED
  BY <1>1, <1>2, <1>3, <1>4, <1>5, <1>6, <1>7, <1>8, <1>9, <1>10, <1>11, <1>12, <1>13,
     <1>14, <1>15, <1>16, <1>17, <1>18, <1>19, <1>20
  DEF Next, Parent, Publish, Work, Terminated

-----------------------------------------------------------------------------
(* Publishing *)

\* A worker runs a config of a selected target.
LEMMA ConfigRemovable ==
  ASSUME RunAssumption, IndInv, NEW w \in Workers, ConfigStep(w),
         NEW d \in Dirs, out'[d] # out[d]
  PROVE  d \in Removable
<1>1. at[w] \in target_objs /\ step[at[w]] + 1 \in 1..Configs[at[w]]
  BY ConfigGuard DEF IndInv, PoolInv, WorkerInv, Compiling
<1>2. d \in Named(at[w], step[at[w]] + 1)
  BY ConfigLeaves DEF IndInv
<1> QED BY <1>1, <1>2 DEF Removable

LEMMA BarrierKept ==
  ASSUME RunAssumption, IndInv, NEW w \in Workers, ConfigStep(w)
  PROVE  BarrierInv'
<1>1. /\ phase = "compile" /\ phase' = phase /\ cur' = cur
      /\ UNCHANGED <<target_objs, before>>
      /\ \A d \in Dirs : out'[d] # out[d] => d \in Removable /\ out'[d] \in {"cut", "none"}
  BY ConfigGuard, ConfigLeaves, ConfigRemovable DEF IndInv, Compiling
<1>2. Removable' = Removable
  BY <1>1, RemovableKept
<1>3. \A d \in Dirs : out'[d] = before'[d] \/ (d \in Removable' /\ out'[d] \in {"cut", "none"})
  BY <1>1, <1>2 DEF IndInv, BarrierInv
<1> QED BY <1>1, <1>3 DEF IndInv, BarrierInv

LEMMA BarrierStep ==
  ASSUME RunAssumption, IndInv, [Next]_vars
  PROVE  BarrierInv'
<1> USE DEF IndInv, TypeOK, PoolInv, WorkerInv, BarrierInv, ModeInv, pool, publishing
<1>1. ASSUME NEW asked \in SUBSET Dirs, NEW bare \in SUBSET Bare, NEW fetch \in BOOLEAN,
             Select(asked, bare, fetch)
      PROVE  BarrierInv'
  <2>1. /\ phase = "select" /\ phase' \in {"fetch", "rejected"}
        /\ UNCHANGED <<out, before, cur>>
    BY <1>1 DEF Select
  <2> QED BY <2>1
<1>2. CASE FetchDependencies
  BY <1>2, RemovableKept DEF FetchDependencies
<1>3. CASE FetchFails
  BY <1>3 DEF FetchFails, Fail
<1>4. ASSUME NEW w \in Workers, NEW t \in Targets, Take(w, t)
      PROVE  BarrierInv'
  BY <1>4, RemovableKept DEF Take
<1>5. ASSUME NEW w \in Workers, CompileConfig(w)
      PROVE  BarrierInv'
  BY <1>5, BarrierKept DEF ConfigStep
<1>6. ASSUME NEW w \in Workers, SkipConfig(w)
      PROVE  BarrierInv'
  BY <1>6, BarrierKept DEF ConfigStep
<1>7. ASSUME NEW w \in Workers, ConfigFails(w)
      PROVE  BarrierInv'
  BY <1>7, BarrierKept DEF ConfigStep
<1>8. ASSUME NEW w \in Workers, Return(w)
      PROVE  BarrierInv'
  BY <1>8, RemovableKept DEF Return
<1>9. ASSUME NEW w \in Workers, WorkerDies(w)
      PROVE  BarrierInv'
  BY <1>9, RemovableKept DEF WorkerDies
<1>10. CASE PoolReturns
  BY <1>10 DEF PoolReturns
<1>11. CASE PoolFails
  BY <1>11 DEF PoolFails, Fail
<1>12. ASSUME NEW t \in Targets, Clear(t)
      PROVE  BarrierInv'
  BY <1>12 DEF Clear
<1>13. CASE CopyInto
  BY <1>13 DEF CopyInto
<1>14. ASSUME NEW d \in Dirs, RemoveOne(d)
      PROVE  BarrierInv'
  BY <1>14 DEF RemoveOne
<1>15. CASE RemovedAll
  BY <1>15 DEF RemovedAll
<1>16. ASSUME NEW t \in Targets, CopyOne(t)
      PROVE  BarrierInv'
  BY <1>16 DEF CopyOne
<1>17. CASE Finish
  BY <1>17 DEF Finish
<1>18. CASE PublishFails
  BY <1>18 DEF PublishFails, Fail
<1>19. CASE Kill
  BY <1>19 DEF Kill
<1>20. CASE UNCHANGED vars
  BY <1>20, RemovableKept DEF vars
<1> HIDE DEF IndInv, TypeOK, PoolInv, WorkerInv, BarrierInv, ModeInv, pool, publishing
<1> QED
  BY <1>1, <1>2, <1>3, <1>4, <1>5, <1>6, <1>7, <1>8, <1>9, <1>10, <1>11, <1>12, <1>13,
     <1>14, <1>15, <1>16, <1>17, <1>18, <1>19, <1>20
  DEF Next, Parent, Publish, Work, Terminated

LEMMA ModeStep ==
  ASSUME RunAssumption, IndInv, [Next]_vars
  PROVE  ModeInv'
<1> USE DEF IndInv, TypeOK, PoolInv, WorkerInv, BarrierInv, ModeInv, pool, publishing
<1>1. ASSUME NEW asked \in SUBSET Dirs, NEW bare \in SUBSET Bare, NEW fetch \in BOOLEAN,
             Select(asked, bare, fetch)
      PROVE  ModeInv'
  BY <1>1 DEF Select
<1>2. CASE FetchDependencies
  BY <1>2 DEF FetchDependencies
<1>3. CASE FetchFails
  BY <1>3 DEF FetchFails, Fail
<1>4. ASSUME NEW w \in Workers, NEW t \in Targets, Take(w, t)
      PROVE  ModeInv'
  BY <1>4 DEF Take
<1>5. ASSUME NEW w \in Workers, CompileConfig(w)
      PROVE  ModeInv'
  BY <1>5 DEF CompileConfig, Compiling
<1>6. ASSUME NEW w \in Workers, SkipConfig(w)
      PROVE  ModeInv'
  BY <1>6 DEF SkipConfig, Compiling
<1>7. ASSUME NEW w \in Workers, ConfigFails(w)
      PROVE  ModeInv'
  BY <1>7 DEF ConfigFails, Compiling
<1>8. ASSUME NEW w \in Workers, Return(w)
      PROVE  ModeInv'
  BY <1>8 DEF Return
<1>9. ASSUME NEW w \in Workers, WorkerDies(w)
      PROVE  ModeInv'
  BY <1>9 DEF WorkerDies
<1>10. CASE PoolReturns
  BY <1>10, FewerIsSome DEF PoolReturns
<1>11. CASE PoolFails
  BY <1>11 DEF PoolFails, Fail
<1>12. ASSUME NEW t \in Targets, Clear(t)
      PROVE  ModeInv'
  BY <1>12 DEF Clear
<1>13. CASE CopyInto
  BY <1>13 DEF CopyInto
<1>14. ASSUME NEW d \in Dirs, RemoveOne(d)
      PROVE  ModeInv'
  BY <1>14 DEF RemoveOne
<1>15. CASE RemovedAll
  BY <1>15 DEF RemovedAll
<1>16. ASSUME NEW t \in Targets, CopyOne(t)
      PROVE  ModeInv'
  BY <1>16 DEF CopyOne
<1>17. CASE Finish
  BY <1>17 DEF Finish
<1>18. CASE PublishFails
  BY <1>18 DEF PublishFails, Fail
<1>19. CASE Kill
  BY <1>19 DEF Kill
<1>20. CASE UNCHANGED vars
  BY <1>20 DEF vars
<1> HIDE DEF IndInv, TypeOK, PoolInv, WorkerInv, BarrierInv, ModeInv, pool, publishing
<1> QED
  BY <1>1, <1>2, <1>3, <1>4, <1>5, <1>6, <1>7, <1>8, <1>9, <1>10, <1>11, <1>12, <1>13,
     <1>14, <1>15, <1>16, <1>17, <1>18, <1>19, <1>20
  DEF Next, Parent, Publish, Work, Terminated

LEMMA IndStep ==
  ASSUME RunAssumption
  PROVE  /\ Init => IndInv
         /\ IndInv /\ [Next]_vars => IndInv'
<1>1. Init => IndInv
  BY DEF Init, IndInv, TypeOK, Phases, Jobs, Contents, PoolInv, WorkerInv, BarrierInv,
         ModeInv, RunAssumption
<1>2. IndInv /\ [Next]_vars => IndInv'
  BY TypeStep, PoolStep, BarrierStep, ModeStep DEF IndInv
<1> QED BY <1>1, <1>2

LEMMA Invariance == ASSUME RunAssumption PROVE Spec => []IndInv
BY IndStep, PTL DEF Spec

\* The steps that touch the output directory.
LEMMA OutSteps ==
  ASSUME [Next]_vars
  PROVE  \/ out' = out
         \/ \E t \in Targets : Clear(t) \/ CopyOne(t)
         \/ CopyInto
         \/ \E d \in Dirs : RemoveOne(d)
         \/ \E w \in Workers : ConfigStep(w)
<1>1. ASSUME NEW w \in Workers, Work(w) \/ WorkerDies(w)
      PROVE  out' = out \/ ConfigStep(w)
  BY <1>1 DEF Work, WorkerDies, Take, ConfigStep, Return, publishing
<1>2. CASE \/ \E asked \in SUBSET Dirs, bare \in SUBSET Bare, fetch \in BOOLEAN :
                Select(asked, bare, fetch)
           \/ FetchDependencies \/ FetchFails \/ PoolReturns \/ PoolFails
  BY <1>2 DEF Select, FetchDependencies, FetchFails, PoolReturns, PoolFails, publishing
<1>3. CASE RemovedAll \/ Finish \/ PublishFails \/ Kill \/ UNCHANGED vars
  BY <1>3 DEF RemovedAll, Finish, PublishFails, Kill, publishing, vars
<1> QED
  BY <1>1, <1>2, <1>3 DEF Next, Parent, Publish, Terminated

\* The output directory changes when every target is compiled, or where the
\* config that a worker runs names something.
LEMMA BarrierHolds ==
  ASSUME RunAssumption, IndInv, [Next]_vars, NEW d \in Dirs, out'[d] # out[d]
  PROVE  \/ \A t \in target_objs : job[t] = "ok"
         \/ /\ out'[d] \in {"cut", "none"}
            /\ \E w \in Workers : Compiling(w) /\ d \in Named(at[w], step[at[w]] + 1)
<1>1. ASSUME NEW w \in Workers, ConfigStep(w)
      PROVE  /\ out'[d] \in {"cut", "none"}
             /\ Compiling(w) /\ d \in Named(at[w], step[at[w]] + 1)
  BY <1>1, ConfigGuard, ConfigLeaves DEF IndInv
<1>2. ASSUME \/ \E t \in Targets : Clear(t) \/ CopyOne(t)
             \/ CopyInto
             \/ \E e \in Dirs : RemoveOne(e)
      PROVE  \A t \in target_objs : job[t] = "ok"
  BY <1>2 DEF IndInv, BarrierInv, Clear, CopyOne, CopyInto, RemoveOne
<1> QED BY <1>1, <1>2, OutSteps

\* Before every selected target has compiled, the output directory only loses
\* what the remove configs that are run name.
THEOREM AllOrNothingHolds == ASSUME RunAssumption PROVE Spec => AllOrNothing
<1>1. IndInv /\ [Next]_vars =>
        [\A d \in Dirs : out'[d] # out[d] =>
           \/ \A t \in target_objs : job[t] = "ok"
           \/ /\ out'[d] \in {"cut", "none"}
              /\ \E w \in Workers : Compiling(w) /\ d \in Named(at[w], step[at[w]] + 1)]_vars
  BY BarrierHolds
<1> QED BY <1>1, Invariance, PTL DEF Spec, AllOrNothing

-----------------------------------------------------------------------------
(* Incomplete output *)

LEMMA MissedStays ==
  ASSUME TypeOK, [Next]_vars, NEW t \in Targets, missed[t]
  PROVE  missed'[t]
<1>1. ASSUME NEW w \in Workers, SkipConfig(w)
      PROVE  missed'[t]
  BY <1>1 DEF SkipConfig, TypeOK
<1>2. ASSUME missed' = missed PROVE missed'[t]
  BY <1>2
<1>3. \/ missed' = missed
      \/ \E w \in Workers : SkipConfig(w)
  BY DEF Next, Parent, Publish, Work, Select, FetchDependencies, FetchFails, Take, CompileConfig,
         ConfigFails, Return, WorkerDies, PoolReturns, PoolFails, Clear, CopyInto,
         RemoveOne, RemovedAll, CopyOne, Finish, PublishFails, Kill, Terminated, pool, vars
<1> QED BY <1>1, <1>2, <1>3

LEMMA PartStep ==
  ASSUME RunAssumption, TypeOK, PartInv, [Next]_vars
  PROVE  PartInv'
<1> SUFFICES ASSUME NEW d \in Dirs, out'[d] = "part"
             PROVE  d \in Targets /\ missed[d]
  BY MissedStays DEF PartInv
<1>1. ASSUME NEW t \in Targets, Clear(t) \/ CopyOne(t)
      PROVE  d \in Targets /\ missed[d]
  BY <1>1, CompiledType DEF Clear, CopyOne, PartInv, TypeOK
<1>2. CASE CopyInto
  BY <1>2, CompiledType DEF CopyInto, PartInv, TypeOK
<1>3. ASSUME NEW e \in Dirs, RemoveOne(e)
      PROVE  d \in Targets /\ missed[d]
  BY <1>3 DEF RemoveOne, PartInv, TypeOK
<1>4. ASSUME NEW w \in Workers, ConfigStep(w)
      PROVE  d \in Targets /\ missed[d]
  BY <1>4, ConfigLeaves DEF PartInv
<1>5. CASE out' = out
  BY <1>5 DEF PartInv
<1> QED BY <1>1, <1>2, <1>3, <1>4, <1>5, OutSteps

\* Output that misses a failed config is published only of targets that allow it.
THEOREM PartOnlyIfToleratedHolds ==
  ASSUME RunAssumption PROVE Spec => []PartOnlyIfTolerated
<1>1. Init => PartInv
  BY DEF Init, PartInv
<1>2. IndInv /\ PartInv /\ [Next]_vars => PartInv'
  BY PartStep DEF IndInv
<1>3. IndInv /\ PartInv => PartOnlyIfTolerated
  BY DEF IndInv, PoolInv, PartInv, PartOnlyIfTolerated
<1> QED BY <1>1, <1>2, <1>3, Invariance, PTL DEF Spec

-----------------------------------------------------------------------------
(* Old and new output in a full run *)

\* How a full run gets from old output to new: through an empty directory.
TurnoverInv ==
  target_objs = Targets =>
    /\ phase = "replace" => \A d \in Dirs : out[d] \in {"none", "old", "cut"}
    /\ phase = "copy" => \A d \in Dirs : out[d] \notin {"old", "cut"}
    /\ NeverMixed

LEMMA TurnoverStep ==
  ASSUME RunAssumption, IndInv, TurnoverInv, [Next]_vars
  PROVE  TurnoverInv'
<1> USE DEF TurnoverInv, NeverMixed, IndInv, TypeOK
<1>1. ASSUME NEW t \in Targets, Clear(t)
      PROVE  TurnoverInv'
  BY <1>1 DEF Clear, ModeInv
<1>2. CASE CopyInto
  BY <1>2 DEF CopyInto, ModeInv
<1>3. ASSUME NEW d \in Dirs, RemoveOne(d)
      PROVE  TurnoverInv'
  BY <1>3 DEF RemoveOne
<1>4. ASSUME NEW t \in Targets, CopyOne(t)
      PROVE  TurnoverInv'
  BY <1>4, CompiledType DEF CopyOne, Compiled
<1>5. CASE RemovedAll
  BY <1>5 DEF RemovedAll
<1>6. CASE PoolReturns
  BY <1>6 DEF PoolReturns, BarrierInv
<1>7. ASSUME NEW asked \in SUBSET Dirs, NEW bare \in SUBSET Bare, NEW fetch \in BOOLEAN,
             Select(asked, bare, fetch)
      PROVE  TurnoverInv'
  BY <1>7 DEF Select, BarrierInv, publishing
<1>8. ASSUME out' = out, target_objs' = target_objs,
             phase' \in {"replace", "copy"} => phase' = phase
      PROVE  TurnoverInv'
  BY <1>8
<1>9. CASE FetchDependencies \/ FetchFails \/ PoolFails \/ Finish \/ PublishFails \/ Kill
           \/ UNCHANGED vars
  BY <1>8, <1>9 DEF FetchDependencies, FetchFails, PoolFails, Finish, PublishFails, Kill, Fail,
                    publishing, vars
<1>10. ASSUME NEW w \in Workers, ConfigStep(w)
       PROVE  TurnoverInv'
  <2>1. /\ phase = "compile" /\ phase' = phase
        /\ \A d \in Dirs : out[d] \in {"none", "old", "cut"}
    BY <1>10, ConfigGuard DEF Compiling, BarrierInv
  <2>2. \A d \in Dirs : out'[d] \in {"none", "old", "cut"}
    BY <1>10, <2>1, ConfigLeaves
  <2> QED BY <2>1, <2>2
<1>11. ASSUME NEW w \in Workers, Work(w) \/ WorkerDies(w)
       PROVE  TurnoverInv'
  BY <1>8, <1>10, <1>11 DEF Work, WorkerDies, Take, ConfigStep, Return, publishing
<1> HIDE DEF TurnoverInv, NeverMixed, IndInv, TypeOK
<1> QED
  BY <1>1, <1>2, <1>3, <1>4, <1>5, <1>6, <1>7, <1>9, <1>11
  DEF Next, Parent, Publish, Terminated

\* A full run, cut short wherever it may be, never leaves its own output beside
\* an earlier run's, also when one target's directory lies inside another's.
THEOREM NeverMixedHolds == ASSUME RunAssumption PROVE Spec => []NeverMixed
<1>1. Init => TurnoverInv
  BY DEF Init, TurnoverInv, NeverMixed
<1>2. IndInv /\ TurnoverInv /\ [Next]_vars => TurnoverInv'
  BY TurnoverStep
<1>3. TurnoverInv => NeverMixed
  BY DEF TurnoverInv, NeverMixed
<1> QED BY <1>1, <1>2, <1>3, Invariance, PTL DEF Spec

-----------------------------------------------------------------------------
(* Flat target names *)

LEMMA FlatFamily ==
  ASSUME RunAssumption, Flatness, NEW t \in Targets
  PROVE  t \in Dirs /\ Family(t) = {t}
BY DEF RunAssumption, Flatness, Family

\* With flat names a step is about a selected target or one that a remove config
\* names, or the whole output directory is being replaced.
LEMMA SelectedOnly ==
  ASSUME RunAssumption, Flatness, IndInv, [Next]_vars, NEW d \in Dirs, out'[d] # out[d]
  PROVE  d \in target_objs \/ d \in Removable \/ target_objs = Targets
<1>1. ASSUME NEW t \in Targets, Clear(t)
      PROVE  d \in target_objs
  BY <1>1, FlatFamily DEF Clear, IndInv, ModeInv, TypeOK
<1>2. CASE CopyInto
  BY <1>2, FlatFamily DEF CopyInto, IndInv, ModeInv, TypeOK
<1>3. ASSUME NEW e \in Dirs, RemoveOne(e) \/ CopyOne(e)
      PROVE  target_objs = Targets
  BY <1>3 DEF RemoveOne, CopyOne, IndInv, ModeInv
<1>4. ASSUME NEW w \in Workers, ConfigStep(w)
      PROVE  d \in Removable
  BY <1>4, ConfigRemovable
<1> QED BY <1>1, <1>2, <1>3, <1>4, OutSteps DEF RemoveOne, CopyOne, IndInv, ModeInv

\* With flat names, a run over a selection leaves the other targets alone, but
\* for what its remove configs name.
THEOREM OnlySelectedHolds == ASSUME RunAssumption, Flatness PROVE Spec => OnlySelected
<1>1. IndInv /\ [Next]_vars =>
        [\A d \in Dirs : out'[d] # out[d] =>
           d \in target_objs \/ d \in Removable \/ target_objs = Targets]_vars
  BY SelectedOnly
<1> QED BY <1>1, Invariance, PTL DEF Spec, OnlySelected

FlatInv == ProgressInv /\ LossIsConfined /\ DoneIsPublished

\* Before publishing nothing is lost but to remove configs.
LEMMA FlatBefore ==
  ASSUME IndInv, IndInv', FlatInv,
         phase \in {"select", "fetch", "compile"}, before' = before, cur' = cur,
         \/ phase' \in {"fetch", "compile", "rejected"}
         \/ UNCHANGED <<out, target_objs>>,
         phase' \notin {"copy", "done"}, phase' = "override" => todo' = target_objs'
  PROVE  FlatInv'
<1>1. CASE phase' \in {"fetch", "compile", "rejected"}
  <2>1. \A d \in Dirs : \/ out'[d] = before'[d]
                        \/ phase' = "compile" /\ d \in Removable'
    BY <1>1 DEF IndInv, BarrierInv
  <2>2. \A d \in Dirs : before'[d] \in {"none", "old"}
    BY DEF IndInv, TypeOK
  <2> QED BY <1>1, <2>1, <2>2 DEF FlatInv, ProgressInv, DoneIsPublished, LossIsConfined
<1>2. CASE UNCHANGED <<out, target_objs>>
  <2>1. LossIsConfined'
    BY <1>2 DEF FlatInv, LossIsConfined, Removable, Named
  <2>2. ProgressInv' /\ DoneIsPublished'
    BY DEF ProgressInv, DoneIsPublished
  <2> QED BY <2>1, <2>2 DEF FlatInv
<1> QED BY <1>1, <1>2

LEMMA FlatStep ==
  ASSUME RunAssumption, Flatness, IndInv, IndInv', FlatInv, [Next]_vars
  PROVE  FlatInv'
<1>1. ASSUME NEW w \in Workers, Work(w) \/ WorkerDies(w)
      PROVE  FlatInv'
  <2>1. ASSUME ConfigStep(w)
        PROVE  phase = "compile" /\ phase' = phase /\ UNCHANGED <<before, cur>>
    BY <2>1, ConfigGuard DEF IndInv, Compiling
  <2>2. phase = "compile" /\ phase' = phase /\ UNCHANGED <<before, cur>>
    BY <1>1, <2>1 DEF Work, WorkerDies, Take, ConfigStep, Return, publishing, IndInv, PoolInv,
                      WorkerInv
  <2> QED BY <2>2, FlatBefore
<1>2. CASE \/ \E asked \in SUBSET Dirs, bare \in SUBSET Bare, fetch \in BOOLEAN :
                Select(asked, bare, fetch)
           \/ FetchDependencies \/ FetchFails \/ PoolReturns \/ PoolFails
  <2>1. /\ phase \in {"select", "fetch", "compile"}
        /\ \/ phase' \in {"rejected", "fetch", "compile"}
           \/ phase' \in {"failed", "override", "replace"} /\ UNCHANGED <<out, target_objs>>
        /\ phase' = "override" => todo' = target_objs'
        /\ UNCHANGED <<before, cur>>
    BY <1>2 DEF Select, FetchDependencies, FetchFails, PoolReturns, PoolFails, Fail, publishing
  <2> QED BY <2>1, FlatBefore
<1>3. ASSUME NEW t \in Targets, Clear(t)
      PROVE  FlatInv'
  <2>1. /\ phase = "override" /\ phase' = phase /\ t \in todo /\ cur' = t
        /\ out' = [d \in Dirs |-> IF d = t THEN "none" ELSE out[d]]
        /\ UNCHANGED <<target_objs, todo, before, made, missed, step>>
    BY <1>3, FlatFamily DEF Clear, pool
  <2>2. ProgressInv'
    BY <2>1 DEF FlatInv, ProgressInv, Compiled, RunAssumption, IndInv, TypeOK
  <2>3. LossIsConfined'
    BY <2>1, <1>3, FlatFamily, RemovableKept DEF FlatInv, LossIsConfined, Clear, Family, IndInv, TypeOK,
       RunAssumption
  <2> QED BY <2>1, <2>2, <2>3 DEF FlatInv, DoneIsPublished
<1>4. CASE CopyInto
  <2>1. /\ phase = "override" /\ phase' = phase /\ cur \in Targets /\ cur' = None
        /\ Compiled(cur) # "none"
        /\ out' = [d \in Dirs |-> IF d = cur THEN Compiled(cur) ELSE out[d]]
        /\ todo' = todo \ {cur}
        /\ UNCHANGED <<target_objs, before, made, missed, step>>
    BY <1>4, FlatFamily DEF CopyInto, InTemp, pool, IndInv, TypeOK
  <2>2. ProgressInv'
    BY <2>1 DEF FlatInv, ProgressInv, Compiled, RunAssumption, IndInv, TypeOK
  <2>3. LossIsConfined'
    BY <2>1, FlatFamily, RemovableKept
    DEF FlatInv, LossIsConfined, Compiled, IndInv, TypeOK, RunAssumption
  <2> QED BY <2>1, <2>2, <2>3 DEF FlatInv, DoneIsPublished
<1>5. CASE RemovedAll \/ (\E d \in Dirs : RemoveOne(d))
  <2>1. /\ phase = "replace" /\ phase' \in {"replace", "copy"} /\ target_objs' = Targets
        /\ phase' = "copy" => /\ \A d \in Dirs : out'[d] = "none"
                              /\ todo' = {t \in Targets : made'[t]}
    BY <1>5 DEF RemovedAll, RemoveOne, pool, IndInv, ModeInv
  <2> QED
    BY <2>1 DEF FlatInv, ProgressInv, LossIsConfined, DoneIsPublished, Compiled, RunAssumption
<1>6. ASSUME NEW t \in Targets, CopyOne(t)
      PROVE  FlatInv'
  <2>1. /\ phase = "copy" /\ phase' = phase /\ target_objs' = Targets
        /\ out' = [out EXCEPT ![t] = Compiled(t)] /\ todo' = todo \ {t}
        /\ UNCHANGED <<made, missed>>
    BY <1>6 DEF CopyOne, pool, IndInv, ModeInv
  <2> QED
    BY <2>1 DEF FlatInv, ProgressInv, LossIsConfined, DoneIsPublished, Compiled, RunAssumption,
       IndInv, TypeOK
<1>7. CASE Finish
  <2>1. /\ phase \in {"override", "copy"} /\ phase' = "done" /\ todo = {}
        /\ UNCHANGED <<target_objs, job, out, before, cur, made, missed, step>>
    BY <1>7 DEF Finish, pool, publishing
  <2>2. \A t \in target_objs : step[t] = Configs[t]
    BY <2>1 DEF IndInv, PoolInv, BarrierInv, TypeOK
  <2>3. DoneIsPublished'
    BY <2>1, <2>2 DEF FlatInv, ProgressInv, DoneIsPublished, Compiled, IndInv, ModeInv, TypeOK
  <2> QED BY <2>1, <2>3, RemovableKept DEF FlatInv, ProgressInv, LossIsConfined
<1>8. CASE PublishFails \/ Kill
  <2>1. /\ phase' \in {"failed", "killed"}
        /\ UNCHANGED <<target_objs, out, before, cur>>
    BY <1>8 DEF PublishFails, Kill, Fail, publishing
  <2> QED BY <2>1, RemovableKept DEF FlatInv, ProgressInv, LossIsConfined, DoneIsPublished
<1>9. CASE UNCHANGED vars
  BY <1>9, RemovableKept DEF vars, FlatInv, ProgressInv, LossIsConfined, DoneIsPublished, Compiled
<1> QED
  BY <1>1, <1>2, <1>3, <1>4, <1>5, <1>6, <1>7, <1>8, <1>9 DEF Next, Parent, Publish, Terminated

LEMMA FlatInvariance == ASSUME RunAssumption, Flatness PROVE Spec => []FlatInv
<1>1. Init => FlatInv
  BY DEF Init, FlatInv, ProgressInv, LossIsConfined, DoneIsPublished
<1>2. IndInv /\ IndInv' /\ FlatInv /\ [Next]_vars => FlatInv'
  BY FlatStep
<1> QED BY <1>1, <1>2, Invariance, PTL DEF Spec

\* With flat names, an interrupted run over a selection costs one target at most,
\* beside what its remove configs name.
THEOREM LossIsConfinedHolds == ASSUME RunAssumption, Flatness PROVE Spec => []LossIsConfined
<1>1. FlatInv => LossIsConfined
  BY DEF FlatInv
<1> QED BY <1>1, FlatInvariance, PTL

\* With flat names, a run that ends well has published all it compiled.
THEOREM DoneIsPublishedHolds == ASSUME RunAssumption, Flatness PROVE Spec => []DoneIsPublished
<1>1. FlatInv => DoneIsPublished
  BY DEF FlatInv
<1> QED BY <1>1, FlatInvariance, PTL

-----------------------------------------------------------------------------
(* The inventory that the run compiles: theorems of Inventory *)

-----------------------------------------------------------------------------
(* Induction: over numbers, and over the lists that folds go through *)

\* Every set of numbers has a least one.
LEMMA LeastNumber ==
  ASSUME NEW T, T \subseteq Nat, T # {}
  PROVE  \E x \in T : \A y \in T : x <= y
<1> DEFINE R == {p \in Nat \X Nat : p[1] < p[2]}
<1>1. IsWellFoundedOn(R, Nat)
  BY NatLessThanWellFounded DEF OpToRel
<1> HIDE DEF R
<1>2. PICK x \in T : \A y \in T : ~ (<<y, x>> \in R)
  BY <1>1, WFMin
<1>3. \A y \in T : ~ (y < x)
  BY <1>2 DEF R
<1> QED BY <1>3

\* Induction up to n, over a set G of numbers.
LEMMA UpTo ==
  ASSUME NEW n \in Nat, NEW G, 0 \in G, \A k \in 1 .. n : k - 1 \in G => k \in G
  PROVE  0 .. n \subseteq G
<1> DEFINE T == (0 .. n) \ G
<1>1. ASSUME T # {}  PROVE FALSE
  <2>0. T \subseteq Nat
    OBVIOUS
  <2> HIDE DEF T
  <2>1. PICK x \in T : \A y \in T : x <= y
    BY <2>0, <1>1, LeastNumber
  <2>2. x \in 1 .. n /\ x - 1 \in G
    BY <2>1 DEF T
  <2> QED BY <2>1, <2>2 DEF T
<1> QED BY <1>1

\* The largest element of an initial segment.
LEMMA Largest ==
  ASSUME NEW n \in Nat, NEW t \in SUBSET (1 .. n), t # {}
  PROVE  Max(t) \in t /\ \A x \in t : x <= Max(t)
<1> DEFINE T == {n - x : x \in t}
<1>0. T \subseteq Nat /\ T # {}
  <2>1. \A x \in t : n - x \in Nat
    OBVIOUS
  <2> QED BY <2>1
<1> HIDE DEF T
<1>1. PICK y \in T : \A z \in T : y <= z
  BY <1>0, LeastNumber
<1>2. PICK m \in t : y = n - m
  BY DEF T
<1>3. \A x \in t : m >= x
  BY <1>1, <1>2 DEF T
<1> QED BY <1>2, <1>3 DEF Max

\* g is the recursion over the numbers up to n that starts with base.
Iterates(g, n, S, base, rule) ==
  g \in [0 .. n -> S] /\ g[0] = base /\ \A k \in 1 .. n : g[k] = rule[<<g[k - 1], k>>]

\* There is one.
LEMMA Iteration ==
  ASSUME NEW n \in Nat, NEW S, NEW base \in S, NEW rule \in [S \X (1 .. n) -> S]
  PROVE  \E g : Iterates(g, n, S, base, rule)
<1> DEFINE Solves(g, m) ==
      g \in [0 .. m -> S] /\ g[0] = base /\ \A k \in 1 .. m : g[k] = rule[<<g[k - 1], k>>]
    G == {m \in 0 .. n : \E g : Solves(g, m)}
<1>1. 0 \in G
  <2>1. Solves([k \in 0 .. 0 |-> base], 0)
    OBVIOUS
  <2> HIDE DEF Solves
  <2> QED BY <2>1
<1>2. ASSUME NEW m \in 1 .. n, m - 1 \in G  PROVE m \in G
  <2>1. PICK g : Solves(g, m - 1)
    BY <1>2
  <2> DEFINE h == [k \in 0 .. m |-> IF k = m THEN rule[<<g[m - 1], m>>] ELSE g[k]]
  <2>2. g[m - 1] \in S /\ rule[<<g[m - 1], m>>] \in S
    BY <2>1
  <2>3. h \in [0 .. m -> S]
    BY <2>1, <2>2
  <2>4. h[0] = base /\ \A k \in 0 .. m - 1 : h[k] = g[k]
    BY <2>1
  <2>5. h[m] = rule[<<h[m - 1], m>>]
    <3>1. m - 1 \in 0 .. m - 1 /\ m \in 0 .. m
      OBVIOUS
    <3>2. h[m - 1] = g[m - 1]
      BY <2>4, <3>1
    <3>3. h[m] = rule[<<g[m - 1], m>>]
      BY <3>1
    <3> QED BY <3>2, <3>3
  <2>6. \A k \in 1 .. m : h[k] = rule[<<h[k - 1], k>>]
    <3> HIDE DEF h
    <3>1. \A k \in 1 .. m - 1 : k \in 0 .. m - 1 /\ k - 1 \in 0 .. m - 1
      OBVIOUS
    <3>2. \A k \in 1 .. m : k = m \/ k \in 1 .. m - 1
      OBVIOUS
    <3> QED BY <2>1, <2>4, <2>5, <3>1, <3>2
  <2> HIDE DEF h
  <2>7. Solves(h, m)
    BY <2>3, <2>4, <2>6
  <2> HIDE DEF Solves
  <2> QED BY <2>7
<1> HIDE DEF G
<1>3. n \in G
  BY <1>1, <1>2, UpTo
<1> QED BY <1>3 DEF G, Iterates

\* The recursion over subsets in the definition of FoldLeft.
Folds(it, n, S, base, rule) ==
  /\ it \in [SUBSET (1 .. n) -> S]
  /\ \A t \in SUBSET (1 .. n) :
       it[t] = IF t = {} THEN base ELSE rule[<<it[t \ {Max(t)}], Max(t)>>]

\* It has a solution.
LEMMA FoldExists ==
  ASSUME NEW n \in Nat, NEW S, NEW base \in S, NEW rule \in [S \X (1 .. n) -> S]
  PROVE  \E it : Folds(it, n, S, base, rule)
<1> DEFINE Sub == SUBSET (1 .. n)
           Rows == [Sub -> S]
           first == [t \in Sub |-> base]
           Row(row, k) == [t \in Sub |-> IF k \in t THEN rule[<<row[t \ {k}], k>>] ELSE row[t]]
           next == [p \in Rows \X (1 .. n) |-> Row(p[1], p[2])]
<1>1. \A row \in Rows : \A k \in 1 .. n : Row(row, k) \in Rows
  OBVIOUS
<1>2. first \in Rows /\ next \in [Rows \X (1 .. n) -> Rows]
  <2>1. first \in Rows
    OBVIOUS
  <2> HIDE DEF Row, Rows, first
  <2>2. \A p \in Rows \X (1 .. n) : p[1] \in Rows /\ p[2] \in 1 .. n
    OBVIOUS
  <2>3. \A p \in Rows \X (1 .. n) : Row(p[1], p[2]) \in Rows
    BY <1>1, <2>2
  <2> QED BY <2>1, <2>3
<1>3. PICK g : Iterates(g, n, Rows, first, next)
  <2> HIDE DEF Rows, first, next, Row
  <2> QED BY <1>2, Iteration
<1>4. \A k \in 1 .. n : g[k] = Row(g[k - 1], k)
  <2> HIDE DEF Row, Rows
  <2> TAKE k \in 1 .. n
  <2>1. g[k - 1] \in Rows
    BY <1>3 DEF Iterates
  <2> QED BY <1>3, <2>1 DEF Iterates
<1> DEFINE Good(k) == \A t \in SUBSET (1 .. k) :
             g[k][t] = IF t = {} THEN base ELSE rule[<<g[k][t \ {Max(t)}], Max(t)>>]
           G == {k \in 0 .. n : Good(k)}
<1> HIDE DEF next
<1>5. 0 \in G
  <2>1. \A t \in SUBSET (1 .. 0) : t = {} /\ t \in Sub
    OBVIOUS
  <2>2. g[0][{}] = base
    BY <1>3, <2>1 DEF Iterates
  <2>3. Good(0)
    BY <2>1, <2>2
  <2> HIDE DEF Good
  <2> QED BY <2>3
<1>6. ASSUME NEW k \in 1 .. n, k - 1 \in G  PROVE k \in G
  <2> SUFFICES ASSUME NEW t \in SUBSET (1 .. k)
               PROVE  g[k][t] = IF t = {} THEN base ELSE rule[<<g[k][t \ {Max(t)}], Max(t)>>]
    <3>1. k \in 0 .. n
      OBVIOUS
    <3> QED BY <3>1
  <2>1. t \in Sub /\ t \ {Max(t)} \in Sub /\ t \ {k} \in Sub
    <3>1. 1 .. k \subseteq 1 .. n
      OBVIOUS
    <3> QED BY <3>1
  <2>2. g[k] = Row(g[k - 1], k)
    BY <1>4
  <2>3. Good(k - 1)
    BY <1>6
  <2>4. CASE k \in t
    <3>1. Max(t) = k
      <4>1. Max(t) \in t /\ \A x \in t : x <= Max(t)
        BY <2>1, <2>4, Largest
      <4>2. \A x \in t : x \in 1 .. k
        OBVIOUS
      <4>3. Max(t) \in 1 .. k /\ k <= Max(t)
        BY <2>4, <4>1, <4>2
      <4> QED BY <4>3
    <3>2. g[k][t \ {k}] = g[k - 1][t \ {k}]
      BY <2>1, <2>2
    <3>3. g[k][t] = rule[<<g[k - 1][t \ {k}], k>>]
      BY <2>1, <2>2, <2>4
    <3> QED BY <2>4, <3>1, <3>2, <3>3
  <2>5. CASE k \notin t
    <3>1. t \in SUBSET (1 .. k - 1)
      BY <2>5
    <3>2. g[k][t] = g[k - 1][t] /\ g[k][t \ {Max(t)}] = g[k - 1][t \ {Max(t)}]
      BY <2>1, <2>2, <2>5
    <3> QED BY <2>3, <3>1, <3>2
  <2> QED BY <2>4, <2>5
<1> HIDE DEF G
<1>7. n \in G
  <2>1. 0 .. n \subseteq G
    BY <1>5, <1>6, UpTo
  <2> QED BY <2>1
<1>8. g[n] \in [SUBSET (1 .. n) -> S]
  BY <1>3 DEF Iterates
<1> QED BY <1>7, <1>8 DEF G, Folds

\* What a solution does along the initial segments.
Segments(it, n, S, base, rule) ==
  /\ it[{}] = base
  /\ \A k \in 1 .. n : it[1 .. (k - 1)] \in S =>
       it[1 .. k] = rule[<<it[1 .. (k - 1)], k>>]

Ends(it, n, S, base, rule) ==
  \E g : Iterates(g, n, S, base, rule) /\ it[1 .. n] = g[n]

\* It iterates, as far as the end.
LEMMA FoldValue ==
  ASSUME NEW n \in Nat, NEW S, NEW base \in S, NEW rule \in [S \X (1 .. n) -> S], NEW it,
         Segments(it, n, S, base, rule)
  PROVE  Ends(it, n, S, base, rule)
<1> USE DEF Segments
<1> DEFINE G == {k \in 0 .. n : it[1 .. k] \in S}
           g == [k \in 0 .. n |-> it[1 .. k]]
<1>1. 1 .. 0 = {}
  OBVIOUS
<1>2. 0 \in G
  BY <1>1
<1>3. ASSUME NEW k \in 1 .. n, k - 1 \in G  PROVE k \in G
  <2>1. it[1 .. k] = rule[<<it[1 .. (k - 1)], k>>] /\ it[1 .. (k - 1)] \in S
    BY <1>3
  <2> QED BY <2>1
<1>4. \A k \in 0 .. n : it[1 .. k] \in S
  <2> HIDE DEF G
  <2>1. 0 .. n \subseteq G
    BY <1>2, <1>3, UpTo
  <2> QED BY <2>1 DEF G
<1>5. g \in [0 .. n -> S]
  BY <1>4
<1>6. \A k \in 1 .. n : g[k] = rule[<<g[k - 1], k>>]
  <2> TAKE k \in 1 .. n
  <2>1. k - 1 \in 0 .. n /\ k \in 0 .. n
    OBVIOUS
  <2>2. g[k - 1] = it[1 .. (k - 1)] /\ g[k] = it[1 .. k]
    BY <2>1
  <2>3. it[1 .. k] = rule[<<it[1 .. (k - 1)], k>>]
    BY <1>4, <2>1
  <2> QED BY <2>2, <2>3
<1>7. g[0] = base
  BY <1>1
<1>8. g[n] = it[1 .. n]
  OBVIOUS
<1> HIDE DEF g
<1> QED BY <1>5, <1>6, <1>7, <1>8 DEF Iterates, Ends

\* The largest element of an initial segment that is not empty, and the segment without it.
LEMMA LastOf ==
  ASSUME NEW k \in Nat \ {0}
  PROVE  Max(1 .. k) = k /\ (1 .. k) \ {k} = 1 .. (k - 1) /\ 1 .. k # {}
<1>1. 1 .. k # {}
  OBVIOUS
<1>2. Max(1 .. k) \in 1 .. k /\ \A x \in 1 .. k : x <= Max(1 .. k)
  BY <1>1, Largest
<1>3. Max(1 .. k) = k
  BY <1>2
<1> QED BY <1>1, <1>3

\* AddEach adds one entry after the other.
LEMMA AddEachSteps ==
  ASSUME NEW X, NEW s \in Seq(X)
  PROVE  \E g \in [0 .. Len(s) -> Seq(X)] :
           /\ g[0] = <<>> /\ \A k \in 1 .. Len(s) : g[k] = AddIfNew(g[k - 1], s[k])
           /\ AddEach(s) = g[Len(s)]
<1> DEFINE n == Len(s)
           S == Seq(X)
           rule == [p \in S \X (1 .. n) |-> AddIfNew(p[1], s[p[2]])]
           Solves(it) == it = [t \in SUBSET DOMAIN s |->
                                 IF t = {} THEN <<>> ELSE AddIfNew(it[t \ {Max(t)}], s[Max(t)])]
           fold == CHOOSE it : Solves(it)
<1>1. n \in Nat /\ DOMAIN s = 1 .. n /\ <<>> \in S
  OBVIOUS
<1>2. \A list \in S : \A k \in 1 .. n : AddIfNew(list, s[k]) \in S
  BY DEF AddIfNew
<1>3. rule \in [S \X (1 .. n) -> S]
  BY <1>2
<1>4. \A list \in S : \A k \in 1 .. n : rule[<<list, k>>] = AddIfNew(list, s[k])
  OBVIOUS
<1>5. AddEach(s) = fold[DOMAIN s]
  BY DEF AddEach, FoldLeft, MapThenFoldSet
<1> HIDE DEF n, S, rule
<1>6. \E it : Solves(it)
  <2>1. PICK it : Folds(it, n, S, <<>>, rule)
    BY <1>1, <1>3, FoldExists
  <2>2. ASSUME NEW t \in SUBSET (1 .. n), t # {}
        PROVE  it[t] = AddIfNew(it[t \ {Max(t)}], s[Max(t)])
    <3>1. Max(t) \in 1 .. n /\ it[t \ {Max(t)}] \in S
      BY <1>1, <2>1, <2>2, Largest DEF Folds
    <3> QED BY <1>4, <2>1, <2>2, <3>1 DEF Folds
  <2>3. it = [t \in SUBSET DOMAIN s |->
                IF t = {} THEN <<>> ELSE AddIfNew(it[t \ {Max(t)}], s[Max(t)])]
    BY <1>1, <2>1, <2>2 DEF Folds
  <2> QED BY <2>3
<1>7. Solves(fold)
  BY <1>6
<1> HIDE DEF fold
<1>8. fold[{}] = <<>>
  BY <1>7
<1>9. ASSUME NEW k \in 1 .. n  PROVE fold[1 .. k] = AddIfNew(fold[1 .. (k - 1)], s[k])
  <2>1. 1 .. k \in SUBSET DOMAIN s /\ k \in Nat \ {0}
    BY <1>1
  <2> QED BY <1>7, <2>1, LastOf
<1>10. Segments(fold, n, S, <<>>, rule)
  BY <1>4, <1>8, <1>9 DEF Segments
<1>11. PICK g : Iterates(g, n, S, <<>>, rule) /\ fold[1 .. n] = g[n]
  <2>1. Ends(fold, n, S, <<>>, rule)
    BY <1>1, <1>3, <1>10, FoldValue
  <2> QED BY <2>1 DEF Ends
<1>12. \A k \in 1 .. n : g[k] = AddIfNew(g[k - 1], s[k])
  <2> TAKE k \in 1 .. n
  <2>1. g[k - 1] \in S
    BY <1>1, <1>11 DEF Iterates
  <2> QED BY <1>4, <1>11, <2>1 DEF Iterates
<1> QED BY <1>1, <1>5, <1>11, <1>12 DEF Iterates, n, S

\* Joined appends one list after the other.
LEMMA JoinedSteps ==
  ASSUME NEW X, NEW lists \in Seq(Seq(X))
  PROVE  \E g \in [0 .. Len(lists) -> Seq(X)] :
           /\ g[0] = <<>> /\ \A k \in 1 .. Len(lists) : g[k] = g[k - 1] \o lists[k]
           /\ Joined(lists) = g[Len(lists)]
<1> DEFINE n == Len(lists)
           S == Seq(X)
           rule == [p \in S \X (1 .. n) |-> p[1] \o lists[p[2]]]
           Solves(it) == it = [t \in SUBSET DOMAIN lists |->
                                 IF t = {} THEN <<>> ELSE it[t \ {Max(t)}] \o lists[Max(t)]]
           fold == CHOOSE it : Solves(it)
<1>1. n \in Nat /\ DOMAIN lists = 1 .. n /\ <<>> \in S
  OBVIOUS
<1>2. \A list \in S : \A k \in 1 .. n : list \o lists[k] \in S
  OBVIOUS
<1>3. rule \in [S \X (1 .. n) -> S]
  BY <1>2
<1>4. \A list \in S : \A k \in 1 .. n : rule[<<list, k>>] = list \o lists[k]
  OBVIOUS
<1>5. Joined(lists) = fold[DOMAIN lists]
  BY DEF Joined, FoldLeft, MapThenFoldSet
<1> HIDE DEF n, S, rule
<1>6. \E it : Solves(it)
  <2>1. PICK it : Folds(it, n, S, <<>>, rule)
    BY <1>1, <1>3, FoldExists
  <2>2. ASSUME NEW t \in SUBSET (1 .. n), t # {}
        PROVE  it[t] = it[t \ {Max(t)}] \o lists[Max(t)]
    <3>1. Max(t) \in 1 .. n /\ it[t \ {Max(t)}] \in S
      BY <1>1, <2>1, <2>2, Largest DEF Folds
    <3> QED BY <1>4, <2>1, <2>2, <3>1 DEF Folds
  <2>3. it = [t \in SUBSET DOMAIN lists |->
                IF t = {} THEN <<>> ELSE it[t \ {Max(t)}] \o lists[Max(t)]]
    BY <1>1, <2>1, <2>2 DEF Folds
  <2> QED BY <2>3
<1>7. Solves(fold)
  BY <1>6
<1> HIDE DEF fold
<1>8. fold[{}] = <<>>
  BY <1>7
<1>9. ASSUME NEW k \in 1 .. n  PROVE fold[1 .. k] = fold[1 .. (k - 1)] \o lists[k]
  <2>1. 1 .. k \in SUBSET DOMAIN lists /\ k \in Nat \ {0}
    BY <1>1
  <2> QED BY <1>7, <2>1, LastOf
<1>10. Segments(fold, n, S, <<>>, rule)
  BY <1>4, <1>8, <1>9 DEF Segments
<1>11. PICK g : Iterates(g, n, S, <<>>, rule) /\ fold[1 .. n] = g[n]
  <2>1. Ends(fold, n, S, <<>>, rule)
    BY <1>1, <1>3, <1>10, FoldValue
  <2> QED BY <2>1 DEF Ends
<1>12. \A k \in 1 .. n : g[k] = g[k - 1] \o lists[k]
  <2> TAKE k \in 1 .. n
  <2>1. g[k - 1] \in S
    BY <1>1, <1>11 DEF Iterates
  <2> QED BY <1>4, <1>11, <2>1 DEF Iterates
<1> QED BY <1>1, <1>5, <1>11, <1>12 DEF Iterates, n, S

\* The rows of s's entries, one after the other.
RowsOf(row, s) == FoldLeft(LAMBDA list, e : list \o row[e], <<>>, s)

InSteps(row, s, X) ==
  \E g \in [0 .. Len(s) -> Seq(X)] :
    /\ g[0] = <<>> /\ \A k \in 1 .. Len(s) : g[k] = g[k - 1] \o row[s[k]]
    /\ RowsOf(row, s) = g[Len(s)]

\* So does the fold by which a file's classes are loaded.
LEMMA LoadSteps ==
  ASSUME NEW X, NEW E, NEW s \in Seq(E), NEW row \in [E -> Seq(X)]
  PROVE  InSteps(row, s, X)
<1> DEFINE n == Len(s)
           S == Seq(X)
           rule == [p \in S \X (1 .. n) |-> p[1] \o row[s[p[2]]]]
           Solves(it) == it = [t \in SUBSET DOMAIN s |->
                                 IF t = {} THEN <<>> ELSE it[t \ {Max(t)}] \o row[s[Max(t)]]]
           fold == CHOOSE it : Solves(it)
<1>1. n \in Nat /\ DOMAIN s = 1 .. n /\ <<>> \in S
  OBVIOUS
<1>2. \A list \in S : \A k \in 1 .. n : list \o row[s[k]] \in S
  OBVIOUS
<1>3. rule \in [S \X (1 .. n) -> S]
  BY <1>2
<1>4. \A list \in S : \A k \in 1 .. n : rule[<<list, k>>] = list \o row[s[k]]
  OBVIOUS
<1>5. RowsOf(row, s) = fold[DOMAIN s]
  BY DEF RowsOf, FoldLeft, MapThenFoldSet
<1> HIDE DEF n, S, rule
<1>6. \E it : Solves(it)
  <2>1. PICK it : Folds(it, n, S, <<>>, rule)
    BY <1>1, <1>3, FoldExists
  <2>2. ASSUME NEW t \in SUBSET (1 .. n), t # {}
        PROVE  it[t] = it[t \ {Max(t)}] \o row[s[Max(t)]]
    <3>1. Max(t) \in 1 .. n /\ it[t \ {Max(t)}] \in S
      BY <1>1, <2>1, <2>2, Largest DEF Folds
    <3> QED BY <1>4, <2>1, <2>2, <3>1 DEF Folds
  <2>3. it = [t \in SUBSET DOMAIN s |->
                IF t = {} THEN <<>> ELSE it[t \ {Max(t)}] \o row[s[Max(t)]]]
    BY <1>1, <2>1, <2>2 DEF Folds
  <2> QED BY <2>3
<1>7. Solves(fold)
  BY <1>6
<1> HIDE DEF fold
<1>8. fold[{}] = <<>>
  BY <1>7
<1>9. ASSUME NEW k \in 1 .. n  PROVE fold[1 .. k] = fold[1 .. (k - 1)] \o row[s[k]]
  <2>1. 1 .. k \in SUBSET DOMAIN s /\ k \in Nat \ {0}
    BY <1>1
  <2> QED BY <1>7, <2>1, LastOf
<1>10. Segments(fold, n, S, <<>>, rule)
  BY <1>4, <1>8, <1>9 DEF Segments
<1>11. PICK g : Iterates(g, n, S, <<>>, rule) /\ fold[1 .. n] = g[n]
  <2>1. Ends(fold, n, S, <<>>, rule)
    BY <1>1, <1>3, <1>10, FoldValue
  <2> QED BY <2>1 DEF Ends
<1>12. \A k \in 1 .. n : g[k] = g[k - 1] \o row[s[k]]
  <2> TAKE k \in 1 .. n
  <2>1. g[k - 1] \in S
    BY <1>1, <1>11 DEF Iterates
  <2> QED BY <1>4, <1>11, <2>1 DEF Iterates
<1> QED BY <1>1, <1>5, <1>11, <1>12 DEF Iterates, n, S, InSteps

-----------------------------------------------------------------------------
(* Lists joined, and entries kept once *)

\* c comes in s before any d.
Earlier(s, c, d) == \E p \in DOMAIN s : s[p] = c /\ \A q \in 1 .. p : s[q] # d

\* What concatenation does.
Appended(s, a, b) ==
  /\ ToSet(s) = ToSet(a) \cup ToSet(b)
  /\ \A c, d : Earlier(s, c, d) => Earlier(a, c, d) \/ (d \notin ToSet(a) /\ Earlier(b, c, d))

LEMMA Concatenation ==
  ASSUME NEW X, NEW a \in Seq(X), NEW b \in Seq(X)
  PROVE  a \o b \in Seq(X) /\ Appended(a \o b, a, b)
<1> DEFINE s == a \o b
           m == Len(a)
           n == Len(b)
<1>1. s \in Seq(X) /\ m \in Nat /\ n \in Nat /\ Len(s) = m + n
  OBVIOUS
<1>2. DOMAIN a = 1 .. m /\ DOMAIN b = 1 .. n /\ DOMAIN s = 1 .. m + n
  BY <1>1
<1>3. \A p \in 1 .. m : s[p] = a[p]
  OBVIOUS
<1>4. \A p \in 1 .. n : s[m + p] = b[p]
  OBVIOUS
<1> HIDE DEF s, m, n
<1>5. \A p \in 1 .. m + n : p \in 1 .. m \/ (p - m \in 1 .. n /\ p = m + (p - m))
  BY <1>1
<1>6. \A p \in 1 .. n : m + p \in 1 .. m + n
  BY <1>1
<1>7. \A p \in 1 .. m : p \in 1 .. m + n
  BY <1>1
<1>8. \A p \in 1 .. n : \A q \in 1 .. p : m + q \in 1 .. m + p /\ q \in 1 .. n
  BY <1>1
<1>9. \A p \in 1 .. n : \A q \in 1 .. m : q \in 1 .. m + p
  BY <1>1
<1>10. ToSet(s) = ToSet(a) \cup ToSet(b)
  <2>1. \A p \in 1 .. m + n : s[p] \in ToSet(a) \cup ToSet(b)
    BY <1>2, <1>3, <1>4, <1>5 DEF ToSet
  <2>2. \A p \in 1 .. m : a[p] \in ToSet(s)
    BY <1>2, <1>3, <1>7 DEF ToSet
  <2>3. \A p \in 1 .. n : b[p] \in ToSet(s)
    BY <1>2, <1>4, <1>6 DEF ToSet
  <2>4. /\ \A x \in ToSet(s) : \E p \in 1 .. m + n : x = s[p]
        /\ \A x \in ToSet(a) : \E p \in 1 .. m : x = a[p]
        /\ \A x \in ToSet(b) : \E p \in 1 .. n : x = b[p]
    BY <1>2 DEF ToSet
  <2> QED BY <2>1, <2>2, <2>3, <2>4
<1>11. ASSUME NEW c, NEW d, Earlier(s, c, d)
       PROVE  Earlier(a, c, d) \/ (d \notin ToSet(a) /\ Earlier(b, c, d))
  <2>1. PICK p \in 1 .. m + n : s[p] = c /\ \A q \in 1 .. p : s[q] # d
    BY <1>2, <1>11 DEF Earlier
  <2>2. CASE p \in 1 .. m
    <3>1. \A q \in 1 .. p : q \in 1 .. m
      BY <1>1, <2>2
    <3>2. a[p] = c /\ \A q \in 1 .. p : a[q] # d
      BY <1>3, <2>1, <2>2, <3>1
    <3> QED BY <1>2, <2>2, <3>2 DEF Earlier
  <2>3. CASE p - m \in 1 .. n /\ p = m + (p - m)
    <3> DEFINE u == p - m
    <3>1. u \in 1 .. n /\ p = m + u
      BY <2>3
    <3> HIDE DEF u
    <3>2. b[u] = c
      BY <1>4, <2>1, <3>1
    <3>3. \A q \in 1 .. u : b[q] # d
      BY <1>4, <1>8, <2>1, <3>1
    <3>4. \A q \in 1 .. m : a[q] # d
      BY <1>3, <1>9, <2>1, <3>1
    <3> QED BY <1>2, <3>1, <3>2, <3>3, <3>4 DEF Earlier, ToSet
  <2> QED BY <1>5, <2>2, <2>3
<1>12. Appended(s, a, b)
  BY <1>10, <1>11 DEF Appended
<1> QED BY <1>1, <1>12 DEF s

\* Arithmetic of an induction rule.
LEMMA Within ==
  ASSUME NEW n \in Nat, NEW m \in 1 .. n
  PROVE  /\ \A k \in 1 .. m : k = m \/ k \in 1 .. m - 1
         /\ \A k \in 1 .. m - 1 : k \in 1 .. m
         /\ m \in 1 .. m /\ m \in 0 .. n /\ m - 1 \in 0 .. n
OBVIOUS

\* s has the elements of the lists, those of an earlier list first.
Joins(lists, s) ==
  /\ \A x : x \in ToSet(s) <=> \E k \in DOMAIN lists : x \in ToSet(lists[k])
  /\ \A c, d : Earlier(s, c, d) =>
       \E k \in DOMAIN lists : /\ Earlier(lists[k], c, d)
                               /\ \A l \in 1 .. k - 1 : d \notin ToSet(lists[l])

LEMMA Appending ==
  ASSUME NEW X, NEW n \in Nat, NEW lists \in [1 .. n -> Seq(X)], NEW g \in [0 .. n -> Seq(X)],
         g[0] = <<>>, \A k \in 1 .. n : g[k] = g[k - 1] \o lists[k]
  PROVE  Joins(lists, g[n])
<1> DEFINE Has(m) == \A x : x \in ToSet(g[m]) <=> \E k \in 1 .. m : x \in ToSet(lists[k])
           Order(m) == \A c, d : Earlier(g[m], c, d) =>
             \E k \in 1 .. m : /\ Earlier(lists[k], c, d)
                               /\ \A l \in 1 .. k - 1 : d \notin ToSet(lists[l])
           G == {m \in 0 .. n : Has(m) /\ Order(m)}
<1>1. 0 \in G
  <2>1. ToSet(<<>>) = {} /\ \A c, d : ~ Earlier(<<>>, c, d)
    BY DEF ToSet, Earlier
  <2>2. Has(0) /\ Order(0)
    BY <2>1
  <2> HIDE DEF Has, Order
  <2> QED BY <2>2
<1>2. ASSUME NEW m \in 1 .. n, m - 1 \in G  PROVE m \in G
  <2>1. Has(m - 1) /\ Order(m - 1)
    BY <1>2
  <2>2. /\ \A k \in 1 .. m : k = m \/ k \in 1 .. m - 1
        /\ \A k \in 1 .. m - 1 : k \in 1 .. m
        /\ m \in 1 .. m /\ m \in 0 .. n /\ m - 1 \in 0 .. n
    BY Within
  <2>3. Appended(g[m], g[m - 1], lists[m])
    <3> DEFINE a == g[m - 1]
               b == lists[m]
    <3>1. a \in Seq(X) /\ b \in Seq(X) /\ g[m] = a \o b
      BY <2>2
    <3> HIDE DEF a, b
    <3>2. Appended(a \o b, a, b)
      BY <3>1, Concatenation
    <3> QED BY <3>1, <3>2 DEF a, b
  <2>4. Has(m)
    <3>1. ToSet(g[m]) = ToSet(g[m - 1]) \cup ToSet(lists[m])
      BY <2>3 DEF Appended
    <3> QED BY <2>1, <2>2, <3>1
  <2>5. Order(m)
    <3> SUFFICES ASSUME NEW c, NEW d, Earlier(g[m], c, d)
                 PROVE  \E k \in 1 .. m : /\ Earlier(lists[k], c, d)
                                          /\ \A l \in 1 .. k - 1 : d \notin ToSet(lists[l])
      OBVIOUS
    <3>1. Earlier(g[m - 1], c, d) \/ (d \notin ToSet(g[m - 1]) /\ Earlier(lists[m], c, d))
      BY <2>3 DEF Appended
    <3>2. CASE Earlier(g[m - 1], c, d)
      BY <2>1, <2>2, <3>2
    <3>3. CASE d \notin ToSet(g[m - 1]) /\ Earlier(lists[m], c, d)
      BY <2>1, <2>2, <3>3
    <3> QED BY <3>1, <3>2, <3>3
  <2> HIDE DEF Has, Order
  <2> QED BY <2>2, <2>4, <2>5
<1> HIDE DEF G
<1>3. n \in G
  <2>1. 0 .. n \subseteq G
    BY <1>1, <1>2, UpTo
  <2> QED BY <2>1
<1> QED BY <1>3 DEF G, Joins

\* What Joined returns.
LEMMA JoinedMeans ==
  ASSUME NEW X, NEW lists \in Seq(Seq(X))
  PROVE  Joined(lists) \in Seq(X) /\ Joins(lists, Joined(lists))
<1>1. PICK g \in [0 .. Len(lists) -> Seq(X)] :
        /\ g[0] = <<>> /\ \A k \in 1 .. Len(lists) : g[k] = g[k - 1] \o lists[k]
        /\ Joined(lists) = g[Len(lists)]
  BY JoinedSteps
<1>2. Len(lists) \in Nat /\ lists \in [1 .. Len(lists) -> Seq(X)]
  OBVIOUS
<1> DEFINE n == Len(lists)
<1> HIDE DEF n
<1>3. Joins(lists, g[n])
  BY <1>1, <1>2, Appending DEF n
<1>4. g[n] \in Seq(X)
  BY <1>1, <1>2 DEF n
<1> QED BY <1>1, <1>3, <1>4 DEF n

\* What AddEach returns: every entry once, in the order they first come.
Deduplicates(r, s) ==
  /\ ToSet(r) = ToSet(s)
  /\ \A i, j \in DOMAIN r : i < j => Earlier(s, r[i], r[j])

LEMMA AddEachMeans ==
  ASSUME NEW X, NEW s \in Seq(X)
  PROVE  AddEach(s) \in Seq(X) /\ Deduplicates(AddEach(s), s)
<1> DEFINE n == Len(s)
<1>1. n \in Nat /\ DOMAIN s = 1 .. n
  OBVIOUS
<1>2. PICK g \in [0 .. n -> Seq(X)] :
        /\ g[0] = <<>> /\ \A k \in 1 .. n : g[k] = AddIfNew(g[k - 1], s[k])
        /\ AddEach(s) = g[n]
  BY AddEachSteps
<1> HIDE DEF n
<1> DEFINE Has(m) == \A x : x \in ToSet(g[m]) <=> \E k \in 1 .. m : x = s[k]
           Order(m) == \A i, j \in 1 .. Len(g[m]) : i < j =>
             \E p \in 1 .. m : s[p] = g[m][i] /\ \A q \in 1 .. p : s[q] # g[m][j]
           G == {m \in 0 .. n : Has(m) /\ Order(m)}
<1>3. 0 \in G
  <2>1. ToSet(<<>>) = {} /\ Len(<<>>) = 0
    BY DEF ToSet
  <2>2. Has(0) /\ Order(0)
    BY <1>2, <2>1
  <2> HIDE DEF Has, Order
  <2> QED BY <1>1, <2>2
<1>4. ASSUME NEW m \in 1 .. n, m - 1 \in G  PROVE m \in G
  <2>1. Has(m - 1) /\ Order(m - 1)
    BY <1>4
  <2>2. /\ \A k \in 1 .. m : k = m \/ k \in 1 .. m - 1
        /\ \A k \in 1 .. m - 1 : k \in 1 .. m
        /\ m \in 1 .. m /\ m \in 0 .. n /\ m - 1 \in 0 .. n
    BY <1>1
  <2> DEFINE a == g[m - 1]
             x == s[m]
             l == Len(a)
  <2>3. a \in Seq(X) /\ g[m] = AddIfNew(a, x) /\ l \in Nat /\ DOMAIN a = 1 .. l
    BY <1>2, <2>2
  <2>4. CASE x \in ToSet(a)
    <3>1. g[m] = a
      BY <2>3, <2>4 DEF AddIfNew
    <3>2. Has(m)
      BY <2>1, <2>2, <2>4, <3>1
    <3>3. Order(m)
      BY <2>1, <2>2, <3>1
    <3> HIDE DEF Has, Order
    <3> QED BY <2>2, <3>2, <3>3
  <2>5. CASE x \notin ToSet(a)
    <3> HIDE DEF a, x
    <3>1. g[m] = Append(a, x)
      BY <2>3, <2>5 DEF AddIfNew
    <3>2. Len(g[m]) = l + 1 /\ g[m][l + 1] = x /\ \A i \in 1 .. l : g[m][i] = a[i]
      BY <2>3, <3>1
    <3>3. ToSet(g[m]) = ToSet(a) \cup {x}
      <4>1. DOMAIN g[m] = 1 .. l + 1
        BY <2>3, <3>1
      <4>2. \A i \in 1 .. l + 1 : i = l + 1 \/ i \in 1 .. l
        BY <2>3
      <4>3. l + 1 \in 1 .. l + 1 /\ \A i \in 1 .. l : i \in 1 .. l + 1
        BY <2>3
      <4> QED BY <2>3, <3>2, <4>1, <4>2, <4>3 DEF ToSet
    <3>4. Has(m)
      BY <2>1, <2>2, <3>3 DEF a, x
    <3>5. Order(m)
      <4> SUFFICES ASSUME NEW i \in 1 .. l + 1, NEW j \in 1 .. l + 1, i < j
                   PROVE  \E p \in 1 .. m : s[p] = g[m][i] /\ \A q \in 1 .. p : s[q] # g[m][j]
        BY <3>2
      <4>1. i \in 1 .. l /\ g[m][i] = a[i]
        BY <2>3, <3>2
      <4>2. CASE j \in 1 .. l
        <5>1. g[m][j] = a[j]
          BY <3>2, <4>2
        <5>2. \E p \in 1 .. m - 1 : s[p] = a[i] /\ \A q \in 1 .. p : s[q] # a[j]
          BY <2>1, <4>1, <4>2 DEF a, l
        <5> QED BY <2>2, <4>1, <5>1, <5>2
      <4>3. CASE j = l + 1
        <5>1. g[m][j] = x
          BY <3>2, <4>3
        <5>2. a[i] \in ToSet(a)
          BY <2>3, <4>1 DEF ToSet
        <5>3. PICK p \in 1 .. m - 1 : s[p] = a[i]
          BY <2>1, <5>2 DEF a
        <5>4. \A q \in 1 .. p : q \in 1 .. m - 1
          BY <1>1
        <5>5. \A q \in 1 .. p : s[q] # x
          BY <2>1, <2>5, <5>4 DEF a
        <5>6. p \in 1 .. m /\ s[p] = g[m][i] /\ \A q \in 1 .. p : s[q] # g[m][j]
          BY <2>2, <4>1, <5>1, <5>3, <5>5
        <5> QED BY <5>6
      <4>4. j \in 1 .. l \/ j = l + 1
        <5>1. l \in Nat
          BY <2>3
        <5> HIDE DEF l
        <5> QED BY <5>1
      <4> QED BY <4>2, <4>3, <4>4
    <3> HIDE DEF Has, Order
    <3> QED BY <2>2, <3>4, <3>5
  <2> QED BY <2>4, <2>5
<1> HIDE DEF G
<1>5. n \in G
  <2>1. 0 .. n \subseteq G
    BY <1>1, <1>3, <1>4, UpTo
  <2> QED BY <1>1, <2>1
<1>6. Has(n) /\ Order(n)
  BY <1>5 DEF G
<1>7. g[n] \in Seq(X)
  BY <1>1, <1>2
<1>8. ToSet(g[n]) = ToSet(s)
  <2>1. \A x : x \in ToSet(s) <=> \E k \in 1 .. n : x = s[k]
    BY <1>1 DEF ToSet
  <2> QED BY <1>6, <2>1
<1>9. \A i, j \in DOMAIN g[n] : i < j => Earlier(s, g[n][i], g[n][j])
  <2>1. DOMAIN g[n] = 1 .. Len(g[n])
    BY <1>7
  <2> SUFFICES ASSUME NEW i \in 1 .. Len(g[n]), NEW j \in 1 .. Len(g[n]), i < j
               PROVE  Earlier(s, g[n][i], g[n][j])
    BY <2>1
  <2>2. \E p \in 1 .. n : s[p] = g[n][i] /\ \A q \in 1 .. p : s[q] # g[n][j]
    BY <1>6
  <2> QED BY <1>1, <2>2 DEF Earlier
<1>10. Deduplicates(g[n], s)
  BY <1>8, <1>9 DEF Deduplicates
<1> QED BY <1>2, <1>7, <1>10

-----------------------------------------------------------------------------
(* The expansion of wildcards *)

\* A list of no entry, and one of one.
LEMMA NoEntry == ToSet(<<>>) = {} /\ \A c, d : ~ Earlier(<<>>, c, d)
BY DEF ToSet, Earlier

LEMMA OneEntry ==
  ASSUME NEW x
  PROVE  ToSet(<<x>>) = {x} /\ \A c, d : Earlier(<<x>>, c, d) => c = x /\ d # x
<1>1. DOMAIN <<x>> = {1} /\ <<x>>[1] = x /\ 1 \in 1 .. 1
  OBVIOUS
<1>2. ToSet(<<x>>) = {x}
  BY <1>1 DEF ToSet
<1>3. \A c, d : Earlier(<<x>>, c, d) => c = x /\ d # x
  BY <1>1 DEF Earlier
<1> QED BY <1>2, <1>3

LEMMA FiniteFunctionIsSequence ==
  ASSUME NEW Y, NEW n \in Nat, NEW h \in [1 .. n -> Y]
  PROVE  h \in Seq(Y)
OBVIOUS

\* The position of a class in ClassOrder.
Place(x) == CHOOSE k \in DOMAIN ClassOrder : ClassOrder[k] = x

LEMMA ClassHasOnePlace ==
  ASSUME InventoryAssumption, NEW i \in DOMAIN ClassOrder
  PROVE  Place(ClassOrder[i]) = i
BY DEF InventoryAssumption, IsInjective, Place

\* s lists set, in the order of the class names.
Sorted(s, set) ==
  /\ ToSet(s) = set
  /\ \A c, d : d \in set /\ Earlier(s, c, d) => Place(c) < Place(d)

\* What Matches returns.
LEMMA MatchesMeans ==
  ASSUME InventoryAssumption, NEW tr, NEW e \in Patterns
  PROVE  Matches(tr, e) \in Seq(Classes) /\ Sorted(Matches(tr, e), Matching[e] \cap DOMAIN tr)
<1> DEFINE matched == Matching[e] \cap DOMAIN tr
           lists == [i \in DOMAIN ClassOrder |->
                       IF ClassOrder[i] \in matched THEN <<ClassOrder[i]>> ELSE <<>>]
           n == Len(ClassOrder)
<1>1. n \in Nat /\ DOMAIN ClassOrder = 1 .. n /\ \A i \in 1 .. n : ClassOrder[i] \in Classes
  BY DEF InventoryAssumption
<1>2. lists \in Seq(Seq(Classes)) /\ DOMAIN lists = 1 .. n
  BY <1>1
<1>3. \A i \in 1 .. n : lists[i] = IF ClassOrder[i] \in matched THEN <<ClassOrder[i]>> ELSE <<>>
  BY <1>1
<1>4. Matches(tr, e) = Joined(lists)
  BY DEF Matches
<1> HIDE DEF lists, n
<1>5. Joined(lists) \in Seq(Classes) /\ Joins(lists, Joined(lists))
  BY <1>2, JoinedMeans
<1>6. \A i \in 1 .. n : ToSet(lists[i]) = {ClassOrder[i]} \cap matched
  <2> TAKE i \in 1 .. n
  <2>1. CASE ClassOrder[i] \in matched
    <3>1. lists[i] = <<ClassOrder[i]>>
      BY <1>3, <2>1
    <3> QED BY <2>1, <3>1, OneEntry
  <2>2. CASE ClassOrder[i] \notin matched
    <3>1. lists[i] = <<>>
      BY <1>3, <2>2
    <3> QED BY <2>2, <3>1, NoEntry
  <2> QED BY <2>1, <2>2
<1>7. ToSet(Joined(lists)) = matched
  <2>1. matched \subseteq Classes
    BY DEF InventoryAssumption
  <2>2. \A x \in Classes : \E i \in 1 .. n : x = ClassOrder[i]
    BY <1>1 DEF Classes, ToSet
  <2>3. \A x : x \in ToSet(Joined(lists)) <=> \E i \in 1 .. n : x \in ToSet(lists[i])
    BY <1>2, <1>5 DEF Joins
  <2> HIDE DEF matched
  <2>4. \A x : x \in ToSet(Joined(lists)) <=> x \in matched
    BY <1>6, <2>1, <2>2, <2>3
  <2> QED BY <2>4
<1>8. ASSUME NEW c, NEW d \in matched, Earlier(Joined(lists), c, d)
      PROVE  Place(c) < Place(d)
  <2>1. PICK k \in 1 .. n : /\ Earlier(lists[k], c, d)
                            /\ \A l \in 1 .. k - 1 : d \notin ToSet(lists[l])
    BY <1>2, <1>5, <1>8 DEF Joins
  <2>2. c = ClassOrder[k] /\ d # ClassOrder[k]
    <3>1. lists[k] # <<>>
      BY <2>1, NoEntry
    <3>2. lists[k] = <<ClassOrder[k]>>
      BY <1>3, <3>1
    <3> QED BY <2>1, <3>2, OneEntry
  <2>3. PICK i \in 1 .. n : d \in ToSet(lists[i])
    BY <1>2, <1>5, <1>7 DEF Joins
  <2>4. d = ClassOrder[i]
    BY <1>6, <2>3
  <2>5. ~ (i \in 1 .. k - 1) /\ i # k
    BY <2>1, <2>2, <2>3, <2>4
  <2>6. k < i
    BY <1>1, <2>5
  <2> QED BY <1>1, <2>2, <2>4, <2>6, ClassHasOnePlace
<1>9. Sorted(Joined(lists), matched)
  BY <1>7, <1>8 DEF Sorted
<1> QED BY <1>4, <1>5, <1>9

\* The first entry that brings a class.
LEMMA FirstBrings ==
  ASSUME NEW tr, NEW f, NEW c, NEW n \in Nat, DOMAIN tr[f].classes = 1 .. n,
         NEW k \in 1 .. n, c \in Brings(tr, tr[f].classes[k])
  PROVE  /\ FirstBringing(tr, f, c) \in 1 .. n
         /\ c \in Brings(tr, tr[f].classes[FirstBringing(tr, f, c)])
         /\ \A j \in 1 .. FirstBringing(tr, f, c) - 1 : c \notin Brings(tr, tr[f].classes[j])
<1> DEFINE T == {i \in 1 .. n : c \in Brings(tr, tr[f].classes[i])}
<1>1. T \subseteq Nat /\ k \in T
  OBVIOUS
<1> HIDE DEF T
<1>2. PICK i \in T : \A j \in T : i <= j
  BY <1>1, LeastNumber
<1>3. i \in 1 .. n /\ c \in Brings(tr, tr[f].classes[i])
  BY <1>2 DEF T
<1>4. \A j \in 1 .. i - 1 : c \notin Brings(tr, tr[f].classes[j])
  BY <1>2, <1>3 DEF T
<1> QED BY <1>3, <1>4 DEF FirstBringing

\* got is what file f brings, an earlier entry's first.
InOrder(tr, f, got) ==
  /\ ToSet(got) = UNION {Brings(tr, tr[f].classes[i]) : i \in DOMAIN tr[f].classes}
  /\ \A i, j \in DOMAIN got : i < j => Before(tr, f, got[i], got[j])

\* What ExpandClassPatterns returns for a file.
LEMMA ExpansionMeans ==
  ASSUME InventoryAssumption, NEW tr, NEW f, tr[f].classes \in Seq(Classes \cup Entries)
  PROVE  /\ ExpandClassPatterns(tr, tr[f].classes) \in Seq(Classes \cup Entries)
         /\ InOrder(tr, f, ExpandClassPatterns(tr, tr[f].classes))
<1> DEFINE X == Classes \cup Entries
           classes == tr[f].classes
           n == Len(classes)
           lists == Replaced(tr, classes)
           s == Joined(lists)
           got == AddEach(s)
<1>1. n \in Nat /\ DOMAIN classes = 1 .. n /\ \A i \in 1 .. n : classes[i] \in X
  OBVIOUS
<1> HIDE DEF n
<1>2. DOMAIN lists = 1 .. n /\
      \A i \in 1 .. n : lists[i] = IF IsWildcard(classes[i]) THEN Matches(tr, classes[i])
                                                             ELSE <<classes[i]>>
  BY <1>1 DEF Replaced
<1>3. \A i \in 1 .. n : IsWildcard(classes[i]) =>
        /\ Matches(tr, classes[i]) \in Seq(Classes)
        /\ Sorted(Matches(tr, classes[i]), Matching[classes[i]] \cap DOMAIN tr)
  BY MatchesMeans DEF IsWildcard
<1>4. lists \in Seq(Seq(X))
  <2>1. Seq(Classes) \subseteq Seq(X)
    OBVIOUS
  <2>2. \A i \in 1 .. n : <<classes[i]>> \in Seq(X)
    BY <1>1
  <2>3. \A i \in 1 .. n : lists[i] \in Seq(X)
    <3> HIDE DEF X, lists, classes
    <3> QED BY <1>2, <1>3, <2>1, <2>2
  <2>4. lists = [i \in 1 .. n |-> lists[i]]
    BY <1>1 DEF Replaced
  <2> HIDE DEF X, lists
  <2>5. lists \in [1 .. n -> Seq(X)]
    BY <2>3, <2>4
  <2> QED BY <1>1, <2>5, FiniteFunctionIsSequence
<1> HIDE DEF X, lists
<1>5. \A i \in 1 .. n : ToSet(lists[i]) = Brings(tr, classes[i])
  <2> HIDE DEF classes
  <2> QED BY <1>2, <1>3, OneEntry DEF Brings, Sorted
<1>6. s \in Seq(X) /\ Joins(lists, s)
  BY <1>4, JoinedMeans
<1> HIDE DEF s
<1>7. got \in Seq(X) /\ Deduplicates(got, s)
  BY <1>6, AddEachMeans
<1> HIDE DEF got
<1>8. \A x : x \in ToSet(got) <=> \E k \in 1 .. n : x \in Brings(tr, classes[k])
  BY <1>2, <1>5, <1>6, <1>7 DEF Deduplicates, Joins
<1>9. ToSet(got) = UNION {Brings(tr, classes[i]) : i \in DOMAIN classes}
  BY <1>1, <1>8
<1>10. ASSUME NEW i \in DOMAIN got, NEW j \in DOMAIN got, i < j
       PROVE  Before(tr, f, got[i], got[j])
  <2> DEFINE c == got[i]
             d == got[j]
             F(x) == FirstBringing(tr, f, x)
  <2>1. Earlier(s, c, d) /\ d \in ToSet(got)
    BY <1>7, <1>10 DEF Deduplicates, ToSet
  <2> HIDE DEF c, d
  <2>2. PICK k \in 1 .. n : /\ Earlier(lists[k], c, d)
                            /\ \A l \in 1 .. k - 1 : d \notin ToSet(lists[l])
    BY <1>2, <1>6, <2>1 DEF Joins
  <2>3. PICK m \in 1 .. n : d \in Brings(tr, classes[m])
    BY <1>8, <2>1
  <2>4. c \in Brings(tr, classes[k])
    <3>1. c \in ToSet(lists[k])
      BY <2>2 DEF Earlier, ToSet
    <3> QED BY <1>5, <3>1
  <2>5. /\ F(c) \in 1 .. n /\ \A l \in 1 .. F(c) - 1 : c \notin Brings(tr, classes[l])
        /\ F(d) \in 1 .. n /\ d \in Brings(tr, classes[F(d)])
    BY <1>1, <2>3, <2>4, FirstBrings
  <2> HIDE DEF F
  <2>6. F(c) <= k
    BY <1>1, <2>4, <2>5
  <2>7. k <= F(d)
    <3>1. d \in ToSet(lists[F(d)])
      BY <1>5, <2>5
    <3>2. F(d) \notin 1 .. k - 1
      BY <2>2, <3>1
    <3> QED BY <1>1, <2>5, <3>2
  <2>8. F(d) = k => Place(c) < Place(d)
    <3> SUFFICES ASSUME F(d) = k  PROVE Place(c) < Place(d)
      OBVIOUS
    <3>1. d \in ToSet(lists[k])
      BY <1>5, <2>5
    <3>2. IsWildcard(classes[k])
      <4>1. ASSUME ~ IsWildcard(classes[k])  PROVE FALSE
        <5>1. lists[k] = <<classes[k]>>
          BY <1>2, <4>1
        <5> QED BY <2>2, <3>1, <5>1, OneEntry
      <4> QED BY <4>1
    <3> HIDE DEF classes
    <3> QED BY <1>2, <1>3, <2>2, <3>1, <3>2 DEF Sorted
  <2>9. F(c) < F(d) \/ (F(c) = F(d) /\ Place(c) < Place(d))
    BY <1>1, <2>5, <2>6, <2>7, <2>8
  <2> QED BY <2>9 DEF Before, Place, F, c, d
<1>11. ExpandClassPatterns(tr, classes) = got
  BY DEF ExpandClassPatterns, lists, s, got
<1>12. InOrder(tr, f, got)
  BY <1>9, <1>10 DEF InOrder
<1> QED BY <1>7, <1>11, <1>12 DEF X

-----------------------------------------------------------------------------
(* What is loaded *)

\* What appending the rows of s's entries gives.
LEMMA RowsJoined ==
  ASSUME NEW X, NEW E, NEW s \in Seq(E), NEW row \in [E -> Seq(X)]
  PROVE  LET all == RowsOf(row, s) IN
         /\ all \in Seq(X)
         /\ \A x : x \in ToSet(all) <=> \E k \in DOMAIN s : x \in ToSet(row[s[k]])
<1>1. PICK g \in [0 .. Len(s) -> Seq(X)] :
        /\ g[0] = <<>> /\ \A k \in 1 .. Len(s) : g[k] = g[k - 1] \o row[s[k]]
        /\ RowsOf(row, s) = g[Len(s)]
  <2>1. InSteps(row, s, X)
    BY LoadSteps
  <2> QED BY <2>1 DEF InSteps
<1> DEFINE n == Len(s)
           lists == [k \in 1 .. n |-> row[s[k]]]
           all == RowsOf(row, s)
<1>2. n \in Nat /\ DOMAIN s = 1 .. n /\ lists \in [1 .. n -> Seq(X)]
  OBVIOUS
<1>3. \A k \in 1 .. n : lists[k] = row[s[k]]
  OBVIOUS
<1> HIDE DEF lists, all
<1>4. DOMAIN lists = 1 .. n
  BY <1>2
<1>5. Joins(lists, g[n])
  <2>1. \A k \in 1 .. n : g[k] = g[k - 1] \o lists[k]
    BY <1>1, <1>3
  <2> QED BY <1>2, <1>1, <2>1, Appending
<1>6. \A x : x \in ToSet(g[n]) <=> \E k \in 1 .. n : x \in ToSet(lists[k])
  BY <1>4, <1>5 DEF Joins
<1>7. g[n] \in Seq(X)
  BY <1>2, <1>1
<1>8. all \in Seq(X) /\ \A x : x \in ToSet(all) <=> \E k \in DOMAIN s : x \in ToSet(row[s[k]])
  BY <1>2, <1>1, <1>3, <1>6, <1>7 DEF all
<1> QED BY <1>8 DEF all

LEMMA FilesAreFinite ==
  ASSUME InventoryAssumption  PROVE IsFiniteSet(Files) /\ Cardinality(Files) \in Nat
<1> DEFINE n == Len(ClassOrder)
<1>1. n \in Nat /\ DOMAIN ClassOrder = 1 .. n
  BY DEF InventoryAssumption
<1> HIDE DEF n
<1>2. IsFiniteSet(1 .. n)
  <2>1. 1 \in Int /\ n \in Int
    BY <1>1
  <2> QED BY <2>1, FS_Interval
<1>3. Classes = {ClassOrder[i] : i \in 1 .. n}
  BY <1>1 DEF Classes, ToSet
<1>4. IsFiniteSet(Classes)
  <2>1. ClassOrder \in Surjection(1 .. n, Classes)
    <3>1. ClassOrder \in [1 .. n -> Classes]
      BY <1>1 DEF InventoryAssumption
    <3> QED BY <1>3, <3>1 DEF Surjection
  <2> QED BY <1>2, <2>1, FS_Surjection
<1>5. IsFiniteSet(Files)
  BY <1>4, FS_Union DEF InventoryAssumption, Files
<1> QED BY <1>5, FS_CardinalityType

\* What a file is loaded as, from what its classes are loaded as.
Loaded(tr, row, f) ==
  IF f \notin DOMAIN tr THEN <<Nothing>>
  ELSE RowsOf(row, tr[f].classes) \o <<f>>

\* A tree whose files list classes and entries.
IsTree(tr) ==
  DOMAIN tr \subseteq Files /\ \A f \in DOMAIN tr : tr[f].classes \in Seq(Files \cup Entries)

LEMMA LoadedMeans ==
  ASSUME NEW tr, IsTree(tr), NEW f \in Files \cup Entries,
         NEW row \in [Files \cup Entries -> Seq(Files \cup {Nothing})]
  PROVE  /\ Loaded(tr, row, f) \in Seq(Files \cup {Nothing})
         /\ f \notin DOMAIN tr => ToSet(Loaded(tr, row, f)) = {Nothing}
         /\ f \in DOMAIN tr =>
              /\ \A x : x \in ToSet(Loaded(tr, row, f)) <=>
                   x = f \/ \E k \in DOMAIN tr[f].classes : x \in ToSet(row[tr[f].classes[k]])
              /\ Len(Loaded(tr, row, f)) \in DOMAIN Loaded(tr, row, f)
              /\ Loaded(tr, row, f)[Len(Loaded(tr, row, f))] = f
<1> DEFINE X == Files \cup {Nothing}
<1>1. CASE f \notin DOMAIN tr
  <2>1. Loaded(tr, row, f) = <<Nothing>>
    BY <1>1 DEF Loaded
  <2>2. <<Nothing>> \in Seq(X)
    OBVIOUS
  <2> QED BY <1>1, <2>1, <2>2, OneEntry
<1>2. CASE f \in DOMAIN tr
  <2> DEFINE s == tr[f].classes
             all == RowsOf(row, s)
  <2>1. s \in Seq(Files \cup Entries) /\ f \in Files
    BY <1>2 DEF IsTree
  <2>2. all \in Seq(X) /\ \A x : x \in ToSet(all) <=> \E k \in DOMAIN s : x \in ToSet(row[s[k]])
    <3> HIDE DEF X, s
    <3>1. row \in [Files \cup Entries -> Seq(X)]
      BY DEF X
    <3> QED BY <2>1, <3>1, RowsJoined
  <2>3. Loaded(tr, row, f) = all \o <<f>>
    BY <1>2 DEF Loaded
  <2> HIDE DEF all
  <2>4. <<f>> \in Seq(X) /\ ToSet(<<f>>) = {f}
    BY <2>1, OneEntry
  <2>5. all \o <<f>> \in Seq(X) /\ ToSet(all \o <<f>>) = ToSet(all) \cup {f}
    <3> HIDE DEF X
    <3> QED BY <2>2, <2>4, Concatenation DEF Appended
  <2>6. Len(all \o <<f>>) = Len(all) + 1 /\ (all \o <<f>>)[Len(all) + 1] = f /\ Len(all) \in Nat
    BY <2>2, <2>4
  <2>7. DOMAIN (all \o <<f>>) = 1 .. Len(all) + 1
    BY <2>5, <2>6
  <2>8. Len(all) + 1 \in 1 .. Len(all) + 1
    BY <2>6
  <2> HIDE DEF s
  <2>9. \A x : x \in ToSet(all \o <<f>>) <=>
                x = f \/ \E k \in DOMAIN s : x \in ToSet(row[s[k]])
    BY <2>2, <2>5
  <2> QED BY <1>2, <2>3, <2>5, <2>6, <2>7, <2>8, <2>9 DEF s
<1> QED BY <1>1, <1>2

\* The table of what is loaded up to a depth.
LoadTable(tr, load) ==
  LET n == Cardinality(Files) IN
  /\ load \in [0 .. n -> [Files \cup Entries -> Seq(Files \cup {Nothing})]]
  /\ \A f \in Files \cup Entries : load[0][f] = <<Nothing>>
  /\ \A d \in 1 .. n : \A f \in Files \cup Entries : load[d][f] = Loaded(tr, load[d - 1], f)
  /\ \A f \in Files \cup Entries : Loads(tr, f) = load[n][f]

LEMMA LoadsIsATable ==
  ASSUME InventoryAssumption, NEW tr, IsTree(tr)
  PROVE  \E load : LoadTable(tr, load)
<1> DEFINE n == Cardinality(Files)
           Names == Files \cup Entries
           Rows == [Names -> Seq(Files \cup {Nothing})]
           base == [f \in Names |-> <<Nothing>>]
           Row(row) == [f \in Names |-> Loaded(tr, row, f)]
           rule == [p \in Rows \X (1 .. n) |-> Row(p[1])]
           Solves(load) == load =
             [d \in 0 .. n |->
                [f \in Names |->
                   IF d = 0 \/ f \notin DOMAIN tr THEN <<Nothing>>
                   ELSE FoldLeft(LAMBDA list, e : list \o load[d - 1][e], <<>>, tr[f].classes)
                          \o <<f>>]]
           load == CHOOSE load : Solves(load)
<1>1. n \in Nat
  BY FilesAreFinite
<1>2. base \in Rows
  OBVIOUS
<1>3. \A row \in Rows : Row(row) \in Rows
  BY LoadedMeans
<1>4. \A f \in Names : Loads(tr, f) = load[n][f]
  BY DEF Loads
<1>5. \A it : Solves(it) <=> it =
        [d \in 0 .. n |-> [f \in Names |-> IF d = 0 THEN <<Nothing>> ELSE Loaded(tr, it[d - 1], f)]]
  BY DEF Loaded, RowsOf
<1> HIDE DEF n, Solves
<1>6. rule \in [Rows \X (1 .. n) -> Rows]
  <2> HIDE DEF Rows, Row
  <2> QED BY <1>3
<1>7. PICK g : Iterates(g, n, Rows, base, rule)
  <2> HIDE DEF Rows, rule, base
  <2> QED BY <1>1, <1>2, <1>6, Iteration
<1>8. g \in [0 .. n -> Rows] /\ g[0] = base
  BY <1>7 DEF Iterates
<1>9. \A d \in 1 .. n : d - 1 \in 0 .. n /\ d \in 0 .. n /\ d # 0
  BY <1>1
<1>10. \A d \in 1 .. n : g[d] = Row(g[d - 1])
  <2> HIDE DEF Rows, Row
  <2> TAKE d \in 1 .. n
  <2>1. g[d - 1] \in Rows
    BY <1>8, <1>9
  <2> QED BY <1>7, <2>1 DEF Iterates
<1>11. Solves(g)
  <2> DEFINE At(d) == [f \in Names |-> IF d = 0 THEN <<Nothing>> ELSE Loaded(tr, g[d - 1], f)]
  <2>1. ASSUME NEW d \in 0 .. n  PROVE g[d] = At(d)
    <3>1. CASE d = 0
      BY <1>8, <3>1
    <3>2. CASE d # 0
      <4>1. d \in 1 .. n
        BY <1>1, <3>2
      <4>2. g[d] = Row(g[d - 1])
        BY <1>10, <4>1
      <4> QED BY <3>2, <4>2
    <3> QED BY <3>1, <3>2
  <2> HIDE DEF At, Rows
  <2>2. g = [d \in 0 .. n |-> At(d)]
    BY <1>8, <2>1
  <2> QED BY <1>5, <2>2 DEF At
<1>12. Solves(load)
  BY <1>11
<1> HIDE DEF load
<1> DEFINE G == {d \in 0 .. n : load[d] \in Rows}
<1>13. \A d \in 0 .. n : load[d] =
          [f \in Names |-> IF d = 0 THEN <<Nothing>> ELSE Loaded(tr, load[d - 1], f)]
  <2>1. load = [d \in 0 .. n |-> [f \in Names |-> IF d = 0 THEN <<Nothing>>
                                                         ELSE Loaded(tr, load[d - 1], f)]]
    BY <1>5, <1>12
  <2> QED BY <2>1
<1>14. \A d \in 1 .. n : load[d] = Row(load[d - 1])
  BY <1>9, <1>13
<1>15. load[0] = base
  <2>1. 0 \in 0 .. n
    BY <1>1
  <2>2. load[0] = [f \in Names |-> IF 0 = 0 THEN <<Nothing>> ELSE Loaded(tr, load[0 - 1], f)]
    BY <1>13, <2>1
  <2> QED BY <2>2
<1>16. 0 .. n \subseteq G
  <2> HIDE DEF Rows, Row, base
  <2>1. 0 \in G
    BY <1>1, <1>2, <1>15
  <2>2. \A d \in 1 .. n : d - 1 \in G => d \in G
    BY <1>3, <1>9, <1>14
  <2> HIDE DEF G
  <2> QED BY <1>1, <2>1, <2>2, UpTo
<1>17. load \in [0 .. n -> Rows]
  <2> HIDE DEF Rows
  <2>1. load = [d \in 0 .. n |-> load[d]]
    BY <1>12, <1>5
  <2> QED BY <1>16, <2>1
<1>18. LoadTable(tr, load)
  <2>1. \A f \in Names : load[0][f] = <<Nothing>>
    BY <1>15
  <2>2. \A d \in 1 .. n : \A f \in Names : load[d][f] = Loaded(tr, load[d - 1], f)
    BY <1>14
  <2> QED BY <1>4, <1>17, <2>1, <2>2 DEF LoadTable, n
<1> QED BY <1>18

-----------------------------------------------------------------------------
(* What is reached *)

\* One more rule from the files of r.
Further(tr, r) == r \cup UNION {ToSet(tr[f].classes) : f \in r}

\* The table of what is reached in so many steps.
ReachTable(tr, t, W, reach) ==
  LET n == Cardinality(Files) IN
  /\ reach \in [0 .. n -> SUBSET W]
  /\ reach[0] = {t}
  /\ \A k \in 1 .. n : reach[k] = Further(tr, reach[k - 1])
  /\ Reached(tr, t) = reach[n]

LEMMA ReachedIsATable ==
  ASSUME InventoryAssumption, NEW tr, NEW W, NEW t \in W,
         \A f \in W : ToSet(tr[f].classes) \subseteq W
  PROVE  \E reach : ReachTable(tr, t, W, reach)
<1> DEFINE n == Cardinality(Files)
           S == SUBSET W
           rule == [p \in S \X (1 .. n) |-> Further(tr, p[1])]
           Solves(it) == it =
             [k \in 0 .. n |->
                IF k = 0 THEN {t}
                ELSE it[k - 1] \cup UNION {ToSet(tr[f].classes) : f \in it[k - 1]}]
           reach == CHOOSE it : Solves(it)
<1>1. n \in Nat
  BY FilesAreFinite
<1>2. {t} \in S /\ \A r \in S : Further(tr, r) \in S
  BY DEF Further
<1>3. Reached(tr, t) = reach[n]
  BY DEF Reached
<1>4. \A it : Solves(it) <=>
        it = [k \in 0 .. n |-> IF k = 0 THEN {t} ELSE Further(tr, it[k - 1])]
  BY DEF Further
<1> HIDE DEF n, Solves, S
<1>5. rule \in [S \X (1 .. n) -> S]
  BY <1>2
<1>6. PICK g : Iterates(g, n, S, {t}, rule)
  <2> HIDE DEF rule
  <2> QED BY <1>1, <1>2, <1>5, Iteration
<1>7. \A k \in 1 .. n : k - 1 \in 0 .. n /\ k \in 0 .. n /\ k # 0
  BY <1>1
<1>8. g \in [0 .. n -> S] /\ g[0] = {t} /\ \A k \in 1 .. n : g[k] = Further(tr, g[k - 1])
  <2>1. g \in [0 .. n -> S] /\ g[0] = {t} /\ \A k \in 1 .. n : g[k] = rule[<<g[k - 1], k>>]
    BY <1>6 DEF Iterates
  <2> QED BY <1>7, <2>1
<1>9. Solves(g)
  <2>1. \A k \in 0 .. n : k = 0 \/ k \in 1 .. n
    BY <1>1
  <2>2. \A k \in 0 .. n : g[k] = IF k = 0 THEN {t} ELSE Further(tr, g[k - 1])
    BY <1>7, <1>8, <2>1
  <2> QED BY <1>4, <1>8, <2>2
<1>10. Solves(reach)
  BY <1>9
<1> HIDE DEF reach
<1>11. /\ reach = [k \in 0 .. n |-> reach[k]]
       /\ \A k \in 0 .. n : reach[k] = IF k = 0 THEN {t} ELSE Further(tr, reach[k - 1])
  <2>1. reach = [k \in 0 .. n |-> IF k = 0 THEN {t} ELSE Further(tr, reach[k - 1])]
    BY <1>4, <1>10
  <2> QED BY <2>1
<1>12. reach[0] = {t} /\ \A k \in 1 .. n : reach[k] = Further(tr, reach[k - 1])
  <2>1. 0 \in 0 .. n
    BY <1>1
  <2> QED BY <1>7, <1>11, <2>1
<1> DEFINE G == {k \in 0 .. n : reach[k] \in S}
<1>13. 0 .. n \subseteq G
  <2>1. 0 \in G
    <3>1. 0 \in 0 .. n /\ reach[0] \in S
      BY <1>1, <1>2, <1>12
    <3> QED BY <3>1
  <2>2. \A k \in 1 .. n : k - 1 \in G => k \in G
    BY <1>2, <1>7, <1>12
  <2> HIDE DEF G
  <2> QED BY <1>1, <2>1, <2>2, UpTo
<1>14. reach \in [0 .. n -> S]
  BY <1>11, <1>13
<1>15. ReachTable(tr, t, W, reach)
  BY <1>3, <1>12, <1>14 DEF ReachTable, n, S
<1> QED BY <1>15

\* What is loaded, unless something is missing: whole and closed.
Whole(tr, loaded, f) ==
  Nothing \notin loaded =>
    /\ f \in loaded /\ loaded \subseteq DOMAIN tr
    /\ \A g \in loaded : ToSet(tr[g].classes) \subseteq loaded

LEMMA LoadedIsWhole ==
  ASSUME InventoryAssumption, NEW tr, IsTree(tr), NEW load, LoadTable(tr, load)
  PROVE  \A d \in 0 .. Cardinality(Files) : \A f \in Files \cup Entries :
           Whole(tr, ToSet(load[d][f]), f)
<1> DEFINE n == Cardinality(Files)
           Names == Files \cup Entries
           L(d, f) == ToSet(load[d][f])
           G == {d \in 0 .. n : \A f \in Names : Whole(tr, L(d, f), f)}
<1>1. n \in Nat
  BY FilesAreFinite
<1>2. 0 \in G
  <2>1. \A f \in Names : Nothing \in L(0, f)
    <3> TAKE f \in Names
    <3>1. load[0][f] = <<Nothing>>
      BY DEF LoadTable
    <3>2. ToSet(<<Nothing>>) = {Nothing}
      BY OneEntry
    <3> QED BY <3>1, <3>2
  <2>2. 0 \in 0 .. n
    BY <1>1
  <2> HIDE DEF L
  <2> QED BY <2>1, <2>2 DEF Whole
<1>3. ASSUME NEW d \in 1 .. n, d - 1 \in G  PROVE d \in G
  <2>0. d \in 0 .. n /\ d - 1 \in 0 .. n
    BY <1>1
  <2> SUFFICES ASSUME NEW f \in Names, Nothing \notin L(d, f)  PROVE Whole(tr, L(d, f), f)
    <3> HIDE DEF L
    <3> QED BY <2>0 DEF Whole
  <2> DEFINE row == load[d - 1]
  <2>1. load[d][f] = Loaded(tr, row, f)
    BY DEF LoadTable
  <2>2. row \in [Names -> Seq(Files \cup {Nothing})]
    BY <2>0 DEF LoadTable
  <2> HIDE DEF n, row
  <2>3. f \in DOMAIN tr
    <3>1. f \notin DOMAIN tr => ToSet(Loaded(tr, row, f)) = {Nothing}
      BY <2>2, LoadedMeans
    <3> QED BY <2>1, <3>1
  <2> DEFINE s == tr[f].classes
  <2>4. s \in Seq(Names)
    BY <2>3 DEF IsTree
  <2>5. \A x : x \in L(d, f) <=> x = f \/ \E k \in DOMAIN s : x \in L(d - 1, s[k])
    <3>1. \A x : x \in ToSet(Loaded(tr, row, f)) <=>
                   x = f \/ \E k \in DOMAIN s : x \in ToSet(row[s[k]])
      BY <2>2, <2>3, LoadedMeans
    <3> QED BY <2>1, <3>1 DEF row
  <2>6. \A k \in DOMAIN s : s[k] \in Names
    BY <2>4
  <2> HIDE DEF s, L
  <2>7. \A k \in DOMAIN s : Whole(tr, L(d - 1, s[k]), s[k]) /\ Nothing \notin L(d - 1, s[k])
    BY <1>3, <2>5, <2>6
  <2>8. L(d, f) \subseteq DOMAIN tr
    BY <2>3, <2>5, <2>7 DEF Whole
  <2>9. ToSet(s) \subseteq L(d, f)
    <3>1. \A k \in DOMAIN s : s[k] \in L(d, f)
      BY <2>5, <2>7 DEF Whole
    <3> QED BY <3>1 DEF ToSet
  <2>10. ASSUME NEW g \in L(d, f)  PROVE ToSet(tr[g].classes) \subseteq L(d, f)
    <3>1. CASE g = f
      BY <2>9, <3>1 DEF s
    <3>2. CASE \E k \in DOMAIN s : g \in L(d - 1, s[k])
      <4>1. PICK k \in DOMAIN s : g \in L(d - 1, s[k])
        BY <3>2
      <4>2. ToSet(tr[g].classes) \subseteq L(d - 1, s[k])
        BY <2>7, <4>1 DEF Whole
      <4>3. L(d - 1, s[k]) \subseteq L(d, f)
        BY <2>5
      <4> QED BY <4>2, <4>3
    <3> QED BY <2>5, <3>1, <3>2
  <2>11. f \in L(d, f)
    BY <2>5
  <2> QED BY <2>8, <2>10, <2>11 DEF Whole
<1> HIDE DEF G
<1>4. 0 .. n \subseteq G
  BY <1>1, <1>2, <1>3, UpTo
<1> QED BY <1>4 DEF G

-----------------------------------------------------------------------------
(* What is loaded is what is reached *)

\* Nothing but what is reached is loaded.
LEMMA LoadedWithinReached ==
  ASSUME InventoryAssumption, NEW tr, IsTree(tr), NEW load, LoadTable(tr, load),
         NEW W, NEW t \in Files, NEW reach, ReachTable(tr, t, W, reach),
         Nothing \notin ToSet(load[Cardinality(Files)][t])
  PROVE  ToSet(load[Cardinality(Files)][t]) \subseteq Reached(tr, t)
<1> DEFINE n == Cardinality(Files)
           Names == Files \cup Entries
           L(d, f) == ToSet(load[d][f])
           Good(d, f) == f \in reach[n - d] /\ Nothing \notin L(d, f) => L(d, f) \subseteq reach[n]
           G == {d \in 0 .. n : reach[n - d] \subseteq reach[n] /\ \A f \in Names : Good(d, f)}
<1>1. n \in Nat
  BY FilesAreFinite
<1>2. \A f \in Names : Nothing \in L(0, f)
  <2> TAKE f \in Names
  <2>1. load[0][f] = <<Nothing>>
    BY DEF LoadTable
  <2>2. ToSet(<<Nothing>>) = {Nothing}
    BY OneEntry
  <2> QED BY <2>1, <2>2
<1>3. /\ reach[0] = {t} /\ Reached(tr, t) = reach[n]
      /\ \A k \in 1 .. n : reach[k] = Further(tr, reach[k - 1])
  BY DEF ReachTable
<1> HIDE DEF n, L
<1>4. 0 \in G
  <2>1. 0 \in 0 .. n /\ n - 0 = n
    BY <1>1
  <2> QED BY <1>2, <2>1
<1>5. ASSUME NEW d \in 1 .. n, d - 1 \in G  PROVE d \in G
  <2>1. /\ d \in 0 .. n /\ d - 1 \in 0 .. n /\ n - (d - 1) \in 1 .. n
        /\ (n - (d - 1)) - 1 = n - d
    BY <1>1
  <2>2. reach[n - (d - 1)] = Further(tr, reach[n - d])
    BY <1>3, <2>1
  <2>3. reach[n - (d - 1)] \subseteq reach[n] /\ \A f \in Names : Good(d - 1, f)
    BY <1>5
  <2>4. reach[n - d] \subseteq reach[n]
    BY <2>2, <2>3 DEF Further
  <2>5. ASSUME NEW f \in Names, f \in reach[n - d], Nothing \notin L(d, f)
        PROVE  L(d, f) \subseteq reach[n]
    <3> DEFINE row == load[d - 1]
               s == tr[f].classes
    <3>1. load[d][f] = Loaded(tr, row, f)
      BY DEF LoadTable, n
    <3>2. row \in [Names -> Seq(Files \cup {Nothing})]
      BY <2>1 DEF LoadTable, n
    <3> HIDE DEF row
    <3>3. f \in DOMAIN tr
      <4>1. f \notin DOMAIN tr => ToSet(Loaded(tr, row, f)) = {Nothing}
        BY <3>2, LoadedMeans
      <4> QED BY <2>5, <3>1, <4>1 DEF L
    <3>4. \A x : x \in L(d, f) <=> x = f \/ \E k \in DOMAIN s : x \in L(d - 1, s[k])
      <4>1. \A x : x \in ToSet(Loaded(tr, row, f)) <=>
                     x = f \/ \E k \in DOMAIN s : x \in ToSet(row[s[k]])
        BY <3>2, <3>3, LoadedMeans
      <4> QED BY <3>1, <4>1 DEF row, L
    <3>5. \A k \in DOMAIN s : s[k] \in Names
      BY <3>3 DEF IsTree
    <3>6. \A k \in DOMAIN s : s[k] \in reach[n - (d - 1)]
      BY <2>2, <2>5 DEF Further, ToSet
    <3> HIDE DEF s
    <3>7. \A k \in DOMAIN s : L(d - 1, s[k]) \subseteq reach[n]
      <4> TAKE k \in DOMAIN s
      <4>1. Good(d - 1, s[k])
        BY <2>3, <3>5
      <4>2. Nothing \notin L(d - 1, s[k])
        BY <2>5, <3>4
      <4> QED BY <3>6, <4>1, <4>2
    <3>8. f \in reach[n]
      BY <2>4, <2>5
    <3> QED BY <3>4, <3>7, <3>8
  <2> QED BY <2>1, <2>4, <2>5
<1> HIDE DEF G
<1>6. n \in G
  <2>1. 0 .. n \subseteq G
    BY <1>1, <1>4, <1>5, UpTo
  <2> QED BY <1>1, <2>1
<1>7. Good(n, t)
  BY <1>6 DEF G
<1>8. t \in reach[n - n]
  BY <1>1, <1>3
<1> QED BY <1>3, <1>7, <1>8 DEF L, n

\* A target is loaded with what it reaches, itself last.
LEMMA LoadsMeans ==
  ASSUME InventoryAssumption, NEW tr, IsTree(tr), NEW t \in Files,
         Nothing \notin ToSet(Loads(tr, t))
  PROVE  /\ Loads(tr, t) \in Seq(Files \cup {Nothing})
         /\ ToSet(Loads(tr, t)) = Reached(tr, t) /\ ToSet(Loads(tr, t)) \subseteq DOMAIN tr
         /\ Len(Loads(tr, t)) \in DOMAIN Loads(tr, t)
         /\ Loads(tr, t)[Len(Loads(tr, t))] = t
<1> DEFINE n == Cardinality(Files)
<1>1. n \in Nat
  BY FilesAreFinite
<1>2. PICK load : LoadTable(tr, load)
  BY LoadsIsATable
<1> DEFINE s == load[n][t]
           W == ToSet(s)
<1>3. Loads(tr, t) = s
  BY <1>2 DEF LoadTable
<1>4. Whole(tr, W, t)
  <2>1. \A d \in 0 .. Cardinality(Files) : \A f \in Files \cup Entries :
          Whole(tr, ToSet(load[d][f]), f)
    BY <1>2, LoadedIsWhole
  <2> QED BY <1>1, <2>1
<1>5. t \in W /\ W \subseteq DOMAIN tr /\ \A f \in W : ToSet(tr[f].classes) \subseteq W
  <2> HIDE DEF s
  <2> QED BY <1>3, <1>4 DEF Whole
<1>6. PICK reach : ReachTable(tr, t, W, reach)
  <2> HIDE DEF W
  <2> QED BY <1>5, ReachedIsATable
<1>7. Reached(tr, t) \subseteq W
  <2>1. n \in 0 .. n
    BY <1>1
  <2> HIDE DEF W
  <2> QED BY <1>6, <2>1 DEF ReachTable
<1>8. W \subseteq Reached(tr, t)
  BY <1>2, <1>3, <1>6, LoadedWithinReached
<1>9. n # 0
  <2>1. n = 0 => s = <<Nothing>>
    BY <1>2 DEF LoadTable
  <2>2. ToSet(<<Nothing>>) = {Nothing}
    BY OneEntry
  <2> QED BY <1>3, <2>1, <2>2
<1>10. s \in Seq(Files \cup {Nothing}) /\ Len(s) \in DOMAIN s /\ s[Len(s)] = t
  <2> DEFINE row == load[n - 1]
  <2>1. n \in 1 .. n /\ n - 1 \in 0 .. n
    BY <1>1, <1>9
  <2>2. s = Loaded(tr, row, t)
    BY <1>2, <2>1 DEF LoadTable
  <2>3. row \in [Files \cup Entries -> Seq(Files \cup {Nothing})]
    BY <1>2, <2>1 DEF LoadTable
  <2>4. t \in DOMAIN tr
    BY <1>5
  <2> HIDE DEF row, s
  <2> QED BY <2>2, <2>3, <2>4, LoadedMeans
<1> HIDE DEF s
<1> QED BY <1>3, <1>5, <1>7, <1>8, <1>10

-----------------------------------------------------------------------------
(* What is handed list *)

\* What merging gives.
LEMMA MergedMeans ==
  ASSUME NEW X, NEW s \in Seq(X)
  PROVE  /\ ToSet(Merged(s).list) = ToSet(s)
         /\ Len(s) \in DOMAIN s /\ s[Len(s)] \in Setters => Merged(s).key = s[Len(s)]
<1>1. ToSet(Merged(s).list) = ToSet(s)
  BY AddEachMeans DEF Merged, Deduplicates
<1>2. ASSUME Len(s) \in DOMAIN s, s[Len(s)] \in Setters  PROVE Merged(s).key = s[Len(s)]
  <2> DEFINE setting == {i \in DOMAIN s : s[i] \in Setters}
             last == CHOOSE i \in setting : \A j \in setting : j <= i
  <2>1. Len(s) \in Nat /\ DOMAIN s = 1 .. Len(s)
    OBVIOUS
  <2>2. Len(s) \in setting /\ \A j \in setting : j <= Len(s)
    BY <1>2, <2>1
  <2>3. setting \subseteq Nat
    BY <2>1
  <2>4. LastSetter(s) = s[last]
    BY <2>2 DEF LastSetter
  <2> HIDE DEF setting
  <2>5. last \in setting /\ \A j \in setting : j <= last
    BY <2>2
  <2> HIDE DEF last
  <2>6. last = Len(s)
    <3>1. last <= Len(s) /\ Len(s) <= last
      BY <2>2, <2>5
    <3>2. last \in Nat /\ Len(s) \in Nat
      BY <2>1, <2>3, <2>5
    <3> QED BY <3>1, <3>2
  <2> QED BY <2>4, <2>6 DEF Merged
<1> QED BY <1>1, <1>2

LEMMA TreeOfFiles ==
  ASSUME InventoryAssumption, InventoryTypeOK
  PROVE  IsTree(tree) /\ \A f \in DOMAIN tree : tree[f].classes \in Seq(Classes \cup Entries)
<1>1. DOMAIN tree \subseteq Files
  BY DEF InventoryTypeOK
<1>2. ASSUME NEW f \in DOMAIN tree  PROVE tree[f].classes \in Seq(Classes \cup Entries)
  BY DEF InventoryTypeOK, File
<1>3. Seq(Classes \cup Entries) \subseteq Seq(Files \cup Entries)
  <2>1. Classes \subseteq Files
    BY DEF Files
  <2> QED BY <2>1
<1> QED BY <1>1, <1>2, <1>3 DEF IsTree

\* The expansion of a file: its classes only.
LEMMA ExpandedFile ==
  ASSUME InventoryTypeOK, NEW f \in DOMAIN tree
  PROVE  /\ DOMAIN Expanded(tree) = DOMAIN tree
         /\ Expanded(tree)[f].form = tree[f].form
         /\ HasWildcard(tree, f) =>
              Expanded(tree)[f].classes = ExpandClassPatterns(tree, tree[f].classes)
         /\ ~ HasWildcard(tree, f) => Expanded(tree)[f].classes = tree[f].classes
<1>1. tree[f] \in File
  BY DEF InventoryTypeOK
<1>2. DOMAIN Expanded(tree) = DOMAIN tree /\ Expanded(tree)[f] =
        IF HasWildcard(tree, f)
        THEN [tree[f] EXCEPT !.classes = ExpandClassPatterns(tree, tree[f].classes)]
        ELSE tree[f]
  BY DEF Expanded
<1> QED BY <1>1, <1>2 DEF File

-----------------------------------------------------------------------------
(* The inductive invariant of Inventory *)

\* A file that is cut is there, and is cut no longer than migration or expansion goes on.
PendingInv ==
  /\ pending # Nothing => /\ pending.file \in DOMAIN tree /\ tree[pending.file] = Empty
                       /\ \/ stage = "migrate" /\ pending.file \notin Linked
                          \/ stage = "load" /\ args.wildcards /\ pending.file \in Linked
  /\ stage = "migrate" => left \subseteq DOMAIN tree \ Linked

\* What the user wrote without resolvers takes two migrations to break.
FormInv ==
  /\ \A f \in DOMAIN tree : wrote[f].form # "escape" =>
       /\ migrated[f] = 0 => tree[f].form \in Written \ {"escape"}
       /\ migrated[f] = 1 => tree[f].form \notin {"broken", "overquoted"}
  /\ pending # Nothing /\ wrote[pending.file].form # "escape" =>
       /\ migrated[pending.file] = 0 => pending.new.form \notin {"broken", "overquoted"}
       /\ stage = "load" => pending.new.form \in Written \ {"escape"}
  /\ \A f \in Linked : migrated[f] = 0

\* What file f holds when the write that is under way has ended.
Meant(f) == IF pending # Nothing /\ f = pending.file THEN pending.new ELSE tree[f]

Emptied == {f \in DOMAIN tree : Meant(f) = Empty /\ wrote[f] # Empty}

\* Only kills leave files empty for good.
EmptiedInv == IsFiniteSet(Emptied) /\ Cardinality(Emptied) <= kills

\* What the backend has been given and what of it has been rendered.
RenderInv ==
  /\ stage \in {"off", "migrate", "load"} =>
       DOMAIN shared = {} /\ bad = {} /\ lost = {}
  /\ stage \in {"render", "ready"} =>
       /\ view = IF args.wildcards THEN Expanded(tree) ELSE tree
       /\ DOMAIN shared \cup bad \cup lost \cup left = Discovered(tree)
       /\ \A t \in DOMAIN shared :
            Renders(view, t) /\ shared[t] = Merged(Loads(view, t))
  /\ stage = "ready" => targets = shared /\ bad = {} /\ lost = {} /\ left = {}

InventoryInv == InventoryTypeOK /\ PendingInv /\ FormInv /\ EmptiedInv /\ RenderInv

\* Rendered, all of it and nothing else, from the tree as the user left it or its expansion.
HandedOutWhole ==
  stage = "ready" =>
    /\ view = IF args.wildcards THEN Expanded(tree) ELSE tree
    /\ DOMAIN targets = Discovered(tree)
    /\ \A t \in DOMAIN targets : Renders(view, t) /\ targets[t] = Merged(Loads(view, t))

-----------------------------------------------------------------------------
(* Types *)

\* What a migration makes of a file.
LEMMA MigratedForm ==
  ASSUME NEW f, NEW form \in Forms
  PROVE  /\ Migrated(f, form) \in Forms
         /\ form \in Written \ {"escape"} =>
              Migrated(f, form) \notin {"broken", "overquoted"}
         /\ Migrated(f, form) = "plain" <=> form = "plain"
BY DEF Written, Forms, Migrated

LEMMA MigratedFile ==
  ASSUME NEW old \in File, NEW form \in Forms
  PROVE  /\ [old EXCEPT !.form = form] \in File
         /\ [old EXCEPT !.form = form].classes = old.classes
         /\ [old EXCEPT !.form = form].form = form
BY DEF File

LEMMA EmptyFile ==
  ASSUME InventoryAssumption
  PROVE  /\ Empty \in File /\ Empty.form = "plain"
         /\ \A file \in File : file = Empty <=> file.classes = <<>> /\ file.form = "plain"
BY DEF File, Empty, InventoryAssumption, Forms, Written

LEMMA FileInitTypes ==
  ASSUME InventoryAssumption, InventoryInit  PROVE InventoryTypeOK
<1>1. DOMAIN tree \subseteq Files /\ \A f \in DOMAIN tree : tree[f] \in File
  BY DEF InventoryInit, InventoryAssumption, File, Forms
<1>2. wrote \in [Files -> File] /\ migrated \in [Files -> Nat]
  <2>1. \A f \in DOMAIN FirstTree : FirstTree[f] \in File
    BY DEF InventoryAssumption, File, Forms
  <2> QED BY <2>1, EmptyFile DEF InventoryInit
<1>3. runs \in 0..MaxRuns /\ edits \in 0..MaxEdits /\ kills \in 0..MaxKills
  BY DEF InventoryInit, InventoryAssumption
<1>4. DOMAIN view = {} /\ DOMAIN shared = {}
  BY DEF InventoryInit, NoFiles
<1> QED BY <1>1, <1>2, <1>3, <1>4 DEF InventoryInit, InventoryTypeOK, Stages

LEMMA OpenTypes ==
  ASSUME InventoryAssumption, InventoryTypeOK, PendingInv, NEW f \in Files, MigrateOpen(f)
  PROVE  /\ f \in DOMAIN tree /\ tree[f] \in File
         /\ pending'.file = f /\ pending'.new \in File
         /\ pending'.new.classes = tree[f].classes
         /\ pending'.new.form = Migrated(f, tree[f].form)
         /\ tree'[f] = Empty /\ DOMAIN tree' = DOMAIN tree
         /\ \A g \in DOMAIN tree \ {f} : tree'[g] = tree[g]
         /\ pending' # Nothing
<1>1. f \in DOMAIN tree /\ tree[f] \in File
  BY DEF MigrateOpen, PendingInv, InventoryTypeOK
<1>2. tree[f].form \in Forms
  BY <1>1 DEF File
<1>3. Migrated(f, tree[f].form) \in Forms
  BY <1>2, MigratedForm
<1> DEFINE new == [tree[f] EXCEPT !.form = Migrated(f, tree[f].form)]
<1>4. /\ new \in File /\ new.classes = tree[f].classes
      /\ new.form = Migrated(f, tree[f].form)
  BY <1>1, <1>3, MigratedFile
<1>5. pending' = [file |-> f, new |-> new]
  BY DEF MigrateOpen
<1> HIDE DEF new
<1>6. tree' = [tree EXCEPT ![f] = Empty]
  BY DEF MigrateOpen
<1>7. pending' # Nothing
  BY <1>1, <1>4, <1>5 DEF InventoryAssumption, InventoryTypeOK
<1> QED BY <1>1, <1>4, <1>5, <1>6, <1>7

LEMMA ExpandTypes ==
  ASSUME InventoryAssumption, InventoryTypeOK, NEW f \in Classes, ExpandOpen(f)
  PROVE  /\ f \in DOMAIN tree /\ tree[f] \in File /\ f \in Linked
         /\ pending'.file = f /\ pending'.new \in File
         /\ pending'.new.form = tree[f].form
         /\ pending'.new.classes # <<>> /\ Keeps(tree[f].classes, pending'.new.classes)
         /\ tree'[f] = Empty /\ DOMAIN tree' = DOMAIN tree
         /\ \A g \in DOMAIN tree \ {f} : tree'[g] = tree[g]
         /\ pending' # Nothing
<1> DEFINE new == Expanded(tree)[f]
           old == tree[f].classes
           got == ExpandClassPatterns(tree, old)
<1>1. f \in DOMAIN tree /\ f \in Linked /\ f \in Files /\ tree[f] \in File
  BY DEF ExpandOpen, InventoryTypeOK
<1>2. HasWildcard(tree, f) /\ ~ Refused(tree, f)
  BY DEF ExpandOpen
<1>3. /\ old \in Seq(Classes \cup Entries) /\ got \in Seq(Classes \cup Entries)
      /\ InOrder(tree, f, got)
  BY <1>1, TreeOfFiles, ExpansionMeans
<1>4. new.form = tree[f].form /\ new.classes = got
  BY <1>1, <1>2, ExpandedFile
<1>5. new \in File
  <2>1. new = [tree[f] EXCEPT !.classes = got]
    BY <1>1, <1>2 DEF Expanded
  <2> HIDE DEF got, new
  <2> QED BY <1>1, <1>3, <2>1 DEF File
<1>6. \A i \in DOMAIN old : Brings(tree, old[i]) \subseteq ToSet(got)
  BY <1>3 DEF InOrder
<1>7. got # <<>>
  <2>1. PICK i \in DOMAIN old : IsWildcard(old[i])
    BY <1>2 DEF HasWildcard
  <2>2. Matches(tree, old[i]) # <<>> /\ old[i] \in Patterns
    BY <1>2, <2>1 DEF Refused, IsWildcard
  <2>3. Matches(tree, old[i]) \in Seq(Classes) /\ ToSet(Matches(tree, old[i])) = Brings(tree, old[i])
    BY <2>1, <2>2, MatchesMeans DEF Sorted, Brings
  <2>4. ToSet(Matches(tree, old[i])) # {}
    <3> DEFINE m == Matches(tree, old[i])
    <3> HIDE DEF m
    <3>1. m \in Seq(Classes) /\ m # <<>>
      BY <2>2, <2>3 DEF m
    <3>2. 1 \in DOMAIN m
      BY <3>1
    <3> QED BY <3>2 DEF ToSet, m
  <2>5. ToSet(got) # {}
    BY <1>6, <2>1, <2>3, <2>4
  <2> HIDE DEF got
  <2> QED BY <2>5, NoEntry
<1>8. Keeps(old, got)
  BY <1>6 DEF Keeps, Brings
<1>9. pending' = [file |-> f, new |-> new] /\ tree' = [tree EXCEPT ![f] = Empty]
  BY DEF ExpandOpen
<1> HIDE DEF new, old, got
<1>10. pending' # Nothing
  BY <1>1, <1>5, <1>9 DEF InventoryAssumption, InventoryTypeOK
<1> QED BY <1>1, <1>4, <1>5, <1>7, <1>8, <1>9, <1>10 DEF old

LEMMA ExpandWriteTypes ==
  ASSUME InventoryTypeOK, PendingInv, ExpandWrite
  PROVE  /\ pending.file \in DOMAIN tree /\ pending.new \in File /\ pending.file \in Linked
         /\ tree'[pending.file] = pending.new /\ DOMAIN tree' = DOMAIN tree
         /\ \A g \in DOMAIN tree \ {pending.file} : tree'[g] = tree[g]
         /\ pending' = Nothing /\ pending # Nothing
BY DEF ExpandWrite, PendingInv, InventoryTypeOK

LEMMA WriteTypes ==
  ASSUME InventoryTypeOK, PendingInv, MigrateWrite
  PROVE  /\ pending.file \in DOMAIN tree /\ pending.new \in File
         /\ tree'[pending.file] = pending.new /\ DOMAIN tree' = DOMAIN tree
         /\ \A g \in DOMAIN tree \ {pending.file} : tree'[g] = tree[g]
         /\ migrated' \in [Files -> Nat] /\ migrated'[pending.file] = migrated[pending.file] + 1
         /\ \A g \in Files \ {pending.file} : migrated'[g] = migrated[g]
         /\ pending' = Nothing
<1>1. pending.file \in DOMAIN tree /\ pending.file \in Files /\ pending.new \in File
  BY DEF MigrateWrite, PendingInv, InventoryTypeOK
<1>2. /\ tree' = [tree EXCEPT ![pending.file] = pending.new]
      /\ migrated' = [migrated EXCEPT ![pending.file] = @ + 1] /\ pending' = Nothing
  BY DEF MigrateWrite
<1>3. migrated \in [Files -> Nat]
  BY DEF InventoryTypeOK
<1> QED BY <1>1, <1>2, <1>3

\* File f has been written by the user, in syntax form.
Edited(f, form) ==
  /\ tree'[f] \in File /\ tree'[f].form = form /\ DOMAIN tree' = DOMAIN tree \cup {f}
  /\ \A g \in DOMAIN tree \ {f} : tree'[g] = tree[g]
  /\ wrote' \in [Files -> File] /\ wrote'[f] = tree'[f]
  /\ \A g \in Files \ {f} : wrote'[g] = wrote[g] /\ migrated'[g] = migrated[g]
  /\ migrated' \in [Files -> Nat] /\ migrated'[f] = 0

LEMMA EditTypes ==
  ASSUME InventoryAssumption, InventoryTypeOK,
         NEW f \in Files, NEW classes \in ClassLists, NEW form \in Written,
         WriteFile(f, classes, form)
  PROVE  Edited(f, form)
<1> DEFINE new == [classes |-> classes, form |-> form]
<1>1. new \in File /\ new.form = form
  BY DEF File, Forms
<1>2. /\ tree' = [g \in DOMAIN tree \cup {f} |-> IF g = f THEN new ELSE tree[g]]
      /\ wrote' = [wrote EXCEPT ![f] = new] /\ migrated' = [migrated EXCEPT ![f] = 0]
  BY DEF WriteFile
<1>3. migrated \in [Files -> Nat] /\ wrote \in [Files -> File]
  BY DEF InventoryTypeOK
<1> HIDE DEF new
<1> QED BY <1>1, <1>2, <1>3 DEF Edited

LEMMA FileTypeStep ==
  ASSUME InventoryAssumption, InventoryTypeOK, PendingInv, [InventoryNext]_inventoryVars
  PROVE  InventoryTypeOK'
<1>1. ASSUME NEW f \in Files, MigrateOpen(f)  PROVE InventoryTypeOK'
  <2>1. DOMAIN tree' \subseteq Files /\ \A g \in DOMAIN tree' : tree'[g] \in File
    BY <1>1, OpenTypes, EmptyFile DEF InventoryTypeOK
  <2>2. pending'.file \in Files /\ pending'.new \in File
    BY <1>1, OpenTypes
  <2> QED BY <1>1, <2>1, <2>2 DEF MigrateOpen, InventoryTypeOK, bounds, history
<1>2. CASE MigrateWrite
  <2>1. DOMAIN tree' \subseteq Files /\ \A g \in DOMAIN tree' : tree'[g] \in File
    BY <1>2, WriteTypes DEF InventoryTypeOK
  <2> QED BY <1>2, <2>1, WriteTypes DEF MigrateWrite, InventoryTypeOK, bounds
<1>13. ASSUME NEW f \in Classes, ExpandOpen(f)  PROVE InventoryTypeOK'
  <2>1. DOMAIN tree' \subseteq Files /\ \A g \in DOMAIN tree' : tree'[g] \in File
    BY <1>13, ExpandTypes, EmptyFile DEF InventoryTypeOK
  <2>2. pending'.file \in Files /\ pending'.new \in File
    BY <1>13, ExpandTypes DEF InventoryTypeOK
  <2> QED BY <1>13, <2>1, <2>2 DEF ExpandOpen, InventoryTypeOK, bounds, history
<1>14. CASE ExpandWrite
  <2>1. DOMAIN tree' \subseteq Files /\ \A g \in DOMAIN tree' : tree'[g] \in File
    BY <1>14, ExpandWriteTypes DEF InventoryTypeOK
  <2> QED BY <1>14, <2>1, ExpandWriteTypes DEF ExpandWrite, InventoryTypeOK, bounds, history
<1>3. CASE MigrateFails \/ MigrateEnds
  BY <1>3 DEF MigrateFails, MigrateEnds, InventoryTypeOK, bounds, history, Stages
<1>4. CASE Load
  <2>1. DOMAIN Expanded(tree) = DOMAIN tree
    BY DEF Expanded
  <2>2. DOMAIN view' \subseteq Files /\ left' \subseteq Files /\ stage' \in Stages
    <3>1. CASE UNCHANGED <<left, view>> /\ stage' = "failed"
      BY <3>1 DEF InventoryTypeOK, Stages
    <3>2. CASE /\ stage' = "render" /\ \E tr \in {tree, Expanded(tree)} :
                     left' = Discovered(tr) /\ view' = tr
      BY <2>1, <3>2 DEF InventoryTypeOK, Stages, Discovered, Files
    <3> QED BY <1>4, <3>1, <3>2 DEF Load
  <2> QED BY <1>4, <2>2 DEF Load, InventoryTypeOK, bounds, history
<1>5. ASSUME NEW t \in TargetFiles, Render(t)  PROVE InventoryTypeOK'
  <2>1. bad' \cup lost' \cup DOMAIN shared' \subseteq TargetFiles /\ left' \subseteq Files
    BY <1>5 DEF Render, InventoryTypeOK
  <2> QED BY <1>5, <2>1 DEF Render, InventoryTypeOK, bounds, history
<1>6. CASE Collect
  BY <1>6 DEF Collect, InventoryTypeOK, bounds, history, Stages
<1>7. CASE Exit \/ KillProcess
  <2>1. DOMAIN NoFiles = {}
    BY DEF NoFiles
  <2>2. /\ stage' \in Stages /\ args' = args /\ left' = {} /\ pending' = Nothing
        /\ DOMAIN view' = {} /\ bad' = {} /\ lost' = {} /\ DOMAIN shared' = {}
    BY <1>7, <2>1 DEF Exit, KillProcess, Idle, Stages
  <2>3. /\ UNCHANGED <<tree, runs, edits, migrated, wrote>>
        /\ kills' = kills \/ (kills < MaxKills /\ kills' = kills + 1)
    BY <1>7 DEF Exit, KillProcess, bounds, history
  <2>4. kills' \in 0..MaxKills
    BY <2>3 DEF InventoryTypeOK, InventoryAssumption
  <2> QED BY <2>2, <2>3, <2>4 DEF InventoryTypeOK
<1>8. ASSUME NEW wildcards \in BOOLEAN, NEW compose \in BOOLEAN, NEW migrate \in BOOLEAN,
             Start(wildcards, compose, migrate)
      PROVE  InventoryTypeOK'
  BY <1>8 DEF Start, InventoryTypeOK, history, Stages, InventoryAssumption
<1>9. ASSUME NEW t \in TargetFiles, RendererDies(t)  PROVE InventoryTypeOK'
  BY <1>9 DEF RendererDies, InventoryTypeOK, history, InventoryAssumption
<1>10. ASSUME NEW f \in Files, DeleteFile(f)  PROVE InventoryTypeOK'
  BY <1>10 DEF DeleteFile, InventoryTypeOK, history, process, InventoryAssumption
<1>11. ASSUME NEW f \in Files, NEW classes \in ClassLists, NEW form \in Written,
              WriteFile(f, classes, form)
       PROVE  InventoryTypeOK'
  <2>1. Edited(f, form)
    BY <1>11, EditTypes
  <2>2. DOMAIN tree' \subseteq Files /\ \A g \in DOMAIN tree' : tree'[g] \in File
    BY <2>1 DEF Edited, InventoryTypeOK
  <2>3. edits' \in 0..MaxEdits /\ UNCHANGED <<process, runs, kills>>
    BY <1>11 DEF WriteFile, InventoryTypeOK, InventoryAssumption
  <2> QED BY <2>1, <2>2, <2>3 DEF Edited, InventoryTypeOK, process
<1>12. CASE UNCHANGED inventoryVars
  BY <1>12 DEF inventoryVars, InventoryTypeOK, bounds, history, process
<1> QED
  BY <1>1, <1>2, <1>3, <1>4, <1>5, <1>6, <1>7, <1>8, <1>9, <1>10, <1>11, <1>12, <1>13, <1>14
  DEF InventoryNext, Proceed

-----------------------------------------------------------------------------
(* Migration *)

LEMMA PendingStep ==
  ASSUME InventoryAssumption, InventoryTypeOK, PendingInv, [InventoryNext]_inventoryVars
  PROVE  PendingInv'
<1>1. ASSUME NEW f \in Files, MigrateOpen(f)  PROVE PendingInv'
  <2>1. stage = "migrate" /\ stage' = stage /\ left' \subseteq left /\ f \in left
    BY <1>1 DEF MigrateOpen
  <2> QED BY <1>1, <2>1, OpenTypes DEF PendingInv
<1>2. CASE MigrateWrite
  <2>1. stage' = stage /\ left' = left
    BY <1>2 DEF MigrateWrite
  <2> QED BY <1>2, <2>1, WriteTypes DEF PendingInv
<1>8. ASSUME NEW f \in Classes, ExpandOpen(f)  PROVE PendingInv'
  <2>1. stage = "load" /\ stage' = stage /\ args.wildcards /\ args' = args
    BY <1>8 DEF ExpandOpen
  <2> QED BY <1>8, <2>1, ExpandTypes DEF PendingInv
<1>9. CASE ExpandWrite
  <2>1. stage = "load" /\ stage' = stage
    BY <1>9 DEF ExpandWrite
  <2> QED BY <1>9, <2>1, ExpandWriteTypes DEF PendingInv
<1>3. CASE \/ MigrateFails \/ MigrateEnds \/ Load \/ Collect
           \/ \E t \in TargetFiles : Render(t) \/ RendererDies(t)
  BY <1>3 DEF MigrateFails, MigrateEnds, Load, Collect, Render,
              RendererDies, PendingInv
<1>4. CASE Exit \/ KillProcess
  BY <1>4 DEF Exit, KillProcess, Idle, PendingInv
<1>5. ASSUME NEW wildcards \in BOOLEAN, NEW compose \in BOOLEAN, NEW migrate \in BOOLEAN,
             Start(wildcards, compose, migrate)
      PROVE  PendingInv'
  BY <1>5 DEF Start, PendingInv
<1>6. CASE \E f \in Files : \/ DeleteFile(f)
                            \/ \E classes \in ClassLists, form \in Written :
                                 WriteFile(f, classes, form)
  <2>1. stage = "off" /\ UNCHANGED process
    BY <1>6 DEF DeleteFile, WriteFile
  <2> QED BY <2>1 DEF PendingInv, process
<1>7. CASE UNCHANGED inventoryVars
  BY <1>7 DEF inventoryVars, process, PendingInv
<1> QED BY <1>1, <1>2, <1>3, <1>4, <1>5, <1>6, <1>7, <1>8, <1>9 DEF InventoryNext, Proceed

\* What leaves the tree and what is known of it alone.
SameFiles ==
  UNCHANGED <<tree, migrated, wrote, pending>> /\ (stage' = stage \/ pending = Nothing)

LEMMA OthersLeaveFiles ==
  ASSUME InventoryTypeOK, PendingInv,
         \/ MigrateFails \/ MigrateEnds \/ Load \/ Collect \/ Exit
         \/ UNCHANGED inventoryVars
         \/ \E t \in TargetFiles : Render(t) \/ RendererDies(t)
         \/ \E wildcards, compose, migrate \in BOOLEAN : Start(wildcards, compose, migrate)
  PROVE  SameFiles /\ kills' \in Nat /\ kills' >= kills
<1>1. kills \in Nat
  BY DEF InventoryTypeOK
<1>2. CASE MigrateFails \/ MigrateEnds
  BY <1>1, <1>2 DEF MigrateFails, MigrateEnds, SameFiles, bounds, history
<1>3. CASE Load \/ Collect
  BY <1>1, <1>3 DEF Load, Collect, SameFiles, bounds, history, PendingInv
<1>4. CASE Exit
  BY <1>1, <1>4 DEF Exit, Idle, SameFiles, bounds, history, PendingInv
<1>5. CASE UNCHANGED inventoryVars
  BY <1>1, <1>5 DEF inventoryVars, process, bounds, history, SameFiles
<1>6. CASE \E t \in TargetFiles : Render(t) \/ RendererDies(t)
  BY <1>1, <1>6 DEF Render, RendererDies, SameFiles, bounds, history
<1>7. CASE \E wildcards, compose, migrate \in BOOLEAN : Start(wildcards, compose, migrate)
  BY <1>1, <1>7 DEF Start, SameFiles, history, PendingInv
<1> QED BY <1>2, <1>3, <1>4, <1>5, <1>6, <1>7

LEMMA FormStep ==
  ASSUME InventoryAssumption, InventoryTypeOK, PendingInv, FormInv, [InventoryNext]_inventoryVars
  PROVE  FormInv'
<1>1. ASSUME NEW f \in Files, MigrateOpen(f)  PROVE FormInv'
  <2>1. UNCHANGED <<migrated, wrote>>
    BY <1>1 DEF MigrateOpen, history
  <2>2. \A g \in DOMAIN tree' : tree'[g] = tree[g] \/ tree'[g].form = "plain"
    BY <1>1, OpenTypes, EmptyFile
  <2>3. wrote[f].form # "escape" /\ migrated[f] = 0 =>
          pending'.new.form \notin {"broken", "overquoted"}
    <3>1. tree[f].form \in Forms
      BY <1>1, OpenTypes DEF File
    <3> QED BY <1>1, <3>1, OpenTypes, MigratedForm DEF FormInv
  <2>4. pending'.file = f /\ DOMAIN tree' = DOMAIN tree
    BY <1>1, OpenTypes
  <2>5. stage' = "migrate"
    BY <1>1 DEF MigrateOpen
  <2> QED BY <2>1, <2>2, <2>3, <2>4, <2>5 DEF FormInv, Written
<1>7. ASSUME NEW f \in Classes, ExpandOpen(f)  PROVE FormInv'
  <2>1. UNCHANGED <<migrated, wrote>>
    BY <1>7 DEF ExpandOpen, history
  <2>2. /\ pending'.file = f /\ DOMAIN tree' = DOMAIN tree
        /\ \A g \in DOMAIN tree' : tree'[g] = tree[g] \/ tree'[g].form = "plain"
    BY <1>7, ExpandTypes, EmptyFile
  <2>3. wrote[f].form # "escape" => pending'.new.form \in Written \ {"escape"}
    BY <1>7, ExpandTypes DEF FormInv
  <2> QED BY <2>1, <2>2, <2>3 DEF FormInv, Written
<1>8. CASE ExpandWrite
  <2>1. UNCHANGED <<migrated, wrote>> /\ stage = "load"
    BY <1>8 DEF ExpandWrite, history
  <2>2. migrated[pending.file] = 0
    BY <1>8, ExpandWriteTypes DEF FormInv
  <2>3. ASSUME NEW f \in DOMAIN tree', wrote[f].form # "escape"
        PROVE  /\ migrated[f] = 0 => tree'[f].form \in Written \ {"escape"}
               /\ migrated[f] = 1 => tree'[f].form \notin {"broken", "overquoted"}
    <3>1. CASE f = pending.file
      BY <1>8, <2>1, <2>2, <2>3, <3>1, ExpandWriteTypes DEF FormInv
    <3>2. CASE f # pending.file
      BY <1>8, <2>3, <3>2, ExpandWriteTypes DEF FormInv
    <3> QED BY <3>1, <3>2
  <2> QED BY <1>8, <2>1, <2>3, ExpandWriteTypes DEF FormInv
<1>2. CASE MigrateWrite
  <2>1. wrote' = wrote /\ pending # Nothing
    BY <1>2 DEF MigrateWrite
  <2>2. ASSUME NEW f \in DOMAIN tree', wrote'[f].form # "escape"
        PROVE  /\ migrated'[f] = 0 => tree'[f].form \in Written \ {"escape"}
               /\ migrated'[f] = 1 => tree'[f].form \notin {"broken", "overquoted"}
    <3>1. f \in DOMAIN tree /\ f \in Files /\ migrated[f] \in Nat
      BY <1>2, <2>2, WriteTypes DEF InventoryTypeOK
    <3>2. CASE f = pending.file
      BY <1>2, <2>1, <2>2, <3>1, <3>2, WriteTypes DEF FormInv
    <3>3. CASE f # pending.file
      BY <1>2, <2>1, <2>2, <3>1, <3>3, WriteTypes DEF FormInv
    <3> QED BY <3>2, <3>3
  <2>3. \A f \in Linked : migrated'[f] = 0
    <3>1. pending.file \notin Linked /\ Linked \subseteq Files
      BY <1>2 DEF MigrateWrite, PendingInv, InventoryAssumption, Files
    <3> QED BY <1>2, <3>1, WriteTypes DEF FormInv
  <2> QED BY <1>2, <2>2, <2>3, WriteTypes DEF FormInv
<1>3. CASE SameFiles
  BY <1>3 DEF SameFiles, FormInv
<1>4. CASE KillProcess
  BY <1>4 DEF KillProcess, Idle, FormInv, history
<1>5. ASSUME NEW f \in Files, DeleteFile(f)  PROVE FormInv'
  BY <1>5 DEF DeleteFile, FormInv, history, process
<1>6. ASSUME NEW f \in Files, NEW classes \in ClassLists, NEW form \in Written,
             WriteFile(f, classes, form)
      PROVE  FormInv'
  <2>1. pending' = Nothing
    BY <1>6 DEF WriteFile, process, PendingInv
  <2>2. Edited(f, form) /\ DOMAIN tree \subseteq Files
    BY <1>6, EditTypes DEF InventoryTypeOK
  <2>3. ASSUME NEW g \in DOMAIN tree', wrote'[g].form # "escape"
        PROVE  /\ migrated'[g] = 0 => tree'[g].form \in Written \ {"escape"}
               /\ migrated'[g] = 1 => tree'[g].form \notin {"broken", "overquoted"}
    <3>1. CASE g = f
      BY <2>2, <2>3, <3>1 DEF Edited
    <3>2. CASE g # f
      <4>1. /\ g \in DOMAIN tree /\ tree'[g] = tree[g]
            /\ wrote'[g] = wrote[g] /\ migrated'[g] = migrated[g]
        BY <2>2, <3>2 DEF Edited
      <4> QED BY <2>3, <4>1 DEF FormInv
    <3> QED BY <3>1, <3>2
  <2>4. \A g \in Linked : migrated'[g] = 0
    BY <2>2 DEF FormInv, Edited, InventoryAssumption, Files
  <2> QED BY <2>1, <2>3, <2>4 DEF FormInv
<1> QED BY <1>1, <1>2, <1>3, <1>4, <1>5, <1>6, <1>7, <1>8, OthersLeaveFiles
        DEF InventoryNext, Proceed

LEMMA EmptiedStep ==
  ASSUME InventoryAssumption, InventoryTypeOK, PendingInv, EmptiedInv, [InventoryNext]_inventoryVars
  PROVE  EmptiedInv'
<1> kills \in Nat /\ IsFiniteSet(Emptied) /\ Cardinality(Emptied) <= kills
  BY DEF InventoryTypeOK, EmptiedInv
<1>1. ASSUME Emptied' \subseteq Emptied, kills' \in Nat, kills' >= kills  PROVE EmptiedInv'
  <2>1. /\ IsFiniteSet(Emptied') /\ Cardinality(Emptied') <= Cardinality(Emptied)
        /\ Cardinality(Emptied) \in Nat /\ Cardinality(Emptied') \in Nat
    BY <1>1, FS_Subset, FS_CardinalityType
  <2> QED BY <1>1, <2>1 DEF EmptiedInv
<1>2. ASSUME NEW f \in Files, MigrateOpen(f)  PROVE EmptiedInv'
  <2>1. pending = Nothing /\ kills' = kills /\ wrote' = wrote
    BY <1>2 DEF MigrateOpen, bounds, history
  <2>2. ASSUME NEW g \in Emptied'  PROVE g \in Emptied
    <3>1. g \in DOMAIN tree /\ Meant(g)' = Empty /\ wrote[g] # Empty
      BY <1>2, <2>1, <2>2, OpenTypes DEF Emptied
    <3>2. Meant(g) = tree[g]
      BY <2>1 DEF Meant
    <3>3. CASE g = f
      <4>1. pending'.new = Empty /\ tree[f] \in File /\ tree[f].form \in Forms
        BY <1>2, <3>1, <3>3, OpenTypes DEF Meant, File
      <4>2. tree[f].classes = <<>> /\ Migrated(f, tree[f].form) = "plain"
        BY <1>2, <4>1, OpenTypes, EmptyFile
      <4>3. tree[f] = Empty
        BY <4>1, <4>2, MigratedForm, EmptyFile
      <4> QED BY <3>1, <3>2, <3>3, <4>3 DEF Emptied
    <3>4. CASE g # f
      <4>1. Meant(g)' = tree[g]
        BY <1>2, <3>1, <3>4, OpenTypes DEF Meant
      <4> QED BY <3>1, <3>2, <4>1 DEF Emptied
    <3> QED BY <3>3, <3>4
  <2> QED BY <1>1, <2>1, <2>2
<1>3. CASE MigrateWrite
  <2>1. pending # Nothing /\ pending' = Nothing /\ kills' = kills /\ wrote' = wrote
    BY <1>3 DEF MigrateWrite, bounds
  <2>2. ASSUME NEW g \in Emptied'  PROVE g \in Emptied
    <3>1. g \in DOMAIN tree /\ tree'[g] = Empty /\ wrote[g] # Empty
      BY <1>3, <2>1, <2>2, WriteTypes DEF Emptied, Meant
    <3>2. tree'[g] = Meant(g)
      BY <1>3, <2>1, <3>1, WriteTypes DEF Meant
    <3> QED BY <3>1, <3>2 DEF Emptied
  <2> QED BY <1>1, <2>1, <2>2
<1>8. ASSUME NEW f \in Classes, ExpandOpen(f)  PROVE EmptiedInv'
  <2>1. pending = Nothing /\ kills' = kills /\ wrote' = wrote
    BY <1>8 DEF ExpandOpen, bounds, history
  <2>2. ASSUME NEW g \in Emptied'  PROVE g \in Emptied
    <3>1. g \in DOMAIN tree /\ Meant(g)' = Empty /\ wrote[g] # Empty
      BY <1>8, <2>1, <2>2, ExpandTypes DEF Emptied
    <3>2. g # f
      BY <1>8, <3>1, ExpandTypes, EmptyFile DEF Meant
    <3>3. Meant(g)' = tree[g] /\ Meant(g) = tree[g]
      BY <1>8, <2>1, <3>1, <3>2, ExpandTypes DEF Meant
    <3> QED BY <3>1, <3>3 DEF Emptied
  <2> QED BY <1>1, <2>1, <2>2
<1>9. CASE ExpandWrite
  <2>1. pending # Nothing /\ pending' = Nothing /\ kills' = kills /\ wrote' = wrote
    BY <1>9 DEF ExpandWrite, bounds, history
  <2>2. ASSUME NEW g \in Emptied'  PROVE g \in Emptied
    <3>1. g \in DOMAIN tree /\ tree'[g] = Empty /\ wrote[g] # Empty
      BY <1>9, <2>1, <2>2, ExpandWriteTypes DEF Emptied, Meant
    <3>2. tree'[g] = Meant(g)
      BY <1>9, <2>1, <3>1, ExpandWriteTypes DEF Meant
    <3> QED BY <3>1, <3>2 DEF Emptied
  <2> QED BY <1>1, <2>1, <2>2
<1>4. CASE SameFiles /\ kills' \in Nat /\ kills' >= kills
  BY <1>1, <1>4 DEF SameFiles, Emptied, Meant
<1>5. CASE KillProcess
  <2>1. pending' = Nothing /\ UNCHANGED <<tree, wrote>> /\ kills' = kills + 1
    BY <1>5 DEF KillProcess, Idle, history
  <2>2. ASSUME NEW g \in Emptied'  PROVE g \in Emptied \cup {pending.file}
    BY <2>1, <2>2 DEF Emptied, Meant
  <2>3. /\ IsFiniteSet(Emptied \cup {pending.file}) /\ Cardinality(Emptied) \in Nat
        /\ Cardinality(Emptied \cup {pending.file}) <= Cardinality(Emptied) + 1
        /\ Cardinality(Emptied \cup {pending.file}) \in Nat
    <3> DEFINE p == pending.file
    <3> HIDE DEF p
    <3>1. /\ IsFiniteSet(Emptied \cup {p})
          /\ Cardinality(Emptied \cup {p}) \in {Cardinality(Emptied), Cardinality(Emptied) + 1}
      BY FS_AddElement
    <3>2. Cardinality(Emptied) \in Nat
      BY FS_CardinalityType
    <3> QED BY <3>1, <3>2 DEF p
  <2>4. /\ IsFiniteSet(Emptied') /\ Cardinality(Emptied') \in Nat
        /\ Cardinality(Emptied') <= Cardinality(Emptied \cup {pending.file})
    BY <2>2, <2>3, FS_Subset, FS_CardinalityType
  <2> QED BY <2>1, <2>3, <2>4 DEF EmptiedInv
<1>6. ASSUME NEW f \in Files, DeleteFile(f)  PROVE EmptiedInv'
  <2>1. /\ pending' = pending /\ kills' = kills /\ wrote' = wrote
        /\ tree' = [g \in DOMAIN tree \ {f} |-> tree[g]]
    BY <1>6 DEF DeleteFile, process, history
  <2>2. ASSUME NEW g \in Emptied'  PROVE g \in Emptied
    BY <2>1, <2>2 DEF Emptied, Meant
  <2> QED BY <1>1, <2>1, <2>2
<1>7. ASSUME NEW f \in Files, NEW classes \in ClassLists, NEW form \in Written,
             WriteFile(f, classes, form)
      PROVE  EmptiedInv'
  <2>1. pending = Nothing /\ pending' = Nothing /\ kills' = kills
    BY <1>7 DEF WriteFile, process, PendingInv
  <2>2. Edited(f, form) /\ DOMAIN tree \subseteq Files
    BY <1>7, EditTypes DEF InventoryTypeOK
  <2>3. ASSUME NEW g \in Emptied'  PROVE g \in Emptied
    <3>1. g \in DOMAIN tree' /\ tree'[g] = Empty /\ wrote'[g] # Empty
      BY <2>1, <2>3 DEF Emptied, Meant
    <3>2. g # f /\ g \in DOMAIN tree /\ tree[g] = Empty /\ wrote[g] # Empty
      BY <2>2, <3>1 DEF Edited
    <3> QED BY <2>1, <3>2 DEF Emptied, Meant
  <2> QED BY <1>1, <2>1, <2>3
<1> QED BY <1>2, <1>3, <1>4, <1>5, <1>6, <1>7, <1>8, <1>9, OthersLeaveFiles
        DEF InventoryNext, Proceed

-----------------------------------------------------------------------------
(* Rendering *)

LEMMA ExpandedTargets ==
  Discovered(Expanded(tree)) = Discovered(tree)
BY DEF Discovered, Expanded

LEMMA RenderStep ==
  ASSUME RenderInv, NEW t \in TargetFiles, Render(t)  PROVE RenderInv'
<1>1. /\ stage = "render" /\ stage' = stage /\ t \in left /\ left' = left \ {t}
      /\ UNCHANGED <<tree, args, view, lost>>
  BY DEF Render
<1>2. CASE Renders(view, t) /\ bad' = bad /\
           shared' = [u \in DOMAIN shared \cup {t} |->
                        IF u = t THEN Merged(Loads(view, t)) ELSE shared[u]]
  <2>1. DOMAIN shared' \cup bad' \cup lost' \cup left' = Discovered(tree)
    BY <1>1, <1>2 DEF RenderInv
  <2>2. \A u \in DOMAIN shared' :
          Renders(view, u) /\ shared'[u] = Merged(Loads(view, u))
    BY <1>1, <1>2 DEF RenderInv
  <2> QED BY <1>1, <2>1, <2>2 DEF RenderInv
<1>3. CASE shared' = shared /\ bad' = bad \cup {t}
  BY <1>1, <1>3 DEF RenderInv
<1> QED BY <1>2, <1>3 DEF Render

LEMMA RenderInvStep ==
  ASSUME RenderInv, [InventoryNext]_inventoryVars  PROVE RenderInv'
<1>1. CASE \/ MigrateFails \/ MigrateEnds \/ MigrateWrite
           \/ \E f \in Files : MigrateOpen(f)
           \/ ExpandWrite \/ \E f \in Classes : ExpandOpen(f)
           \/ \E wildcards, compose, migrate \in BOOLEAN : Start(wildcards, compose, migrate)
  <2>1. stage \in {"off", "migrate", "load"} /\ stage' \in {"migrate", "load", "failed"}
    BY <1>1 DEF MigrateFails, MigrateEnds, MigrateWrite, MigrateOpen, ExpandWrite, ExpandOpen, Start
  <2>2. UNCHANGED <<shared, bad, lost>>
    BY <1>1 DEF MigrateFails, MigrateEnds, MigrateWrite, MigrateOpen, ExpandWrite, ExpandOpen, Start
  <2> QED BY <2>1, <2>2 DEF RenderInv
<1>2. CASE Load
  <2>1. stage = "load" /\ UNCHANGED <<tree, args, shared, bad, lost>>
    BY <1>2 DEF Load
  <2>2. \/ stage' = "failed"
        \/ /\ stage' = "render" /\ view' = IF args.wildcards THEN Expanded(tree) ELSE tree
           /\ left' = Discovered(tree)
    BY <1>2, ExpandedTargets DEF Load
  <2> QED BY <2>1, <2>2 DEF RenderInv
<1>3. CASE \E t \in TargetFiles : RendererDies(t)
  <2>1. PICK t \in TargetFiles : RendererDies(t)
    BY <1>3
  <2>2. /\ stage = "render" /\ stage' = stage /\ t \in left
        /\ left' = left \ {t} /\ lost' = lost \cup {t}
        /\ UNCHANGED <<tree, args, view, shared, bad>>
    BY <2>1 DEF RendererDies
  <2> QED BY <2>2 DEF RenderInv
<1>4. CASE Collect
  <2>1. /\ stage = "render" /\ left = {} /\ lost = {}
        /\ UNCHANGED <<tree, args, left, view, shared, bad, lost>>
        /\ stage' = "failed" \/ (stage' = "ready" /\ bad = {} /\ targets' = shared)
    BY <1>4 DEF Collect
  <2> QED BY <2>1 DEF RenderInv
<1>5. CASE Exit \/ KillProcess
  BY <1>5 DEF Exit, KillProcess, Idle, RenderInv, NoFiles
<1>6. CASE \E f \in Files : \/ DeleteFile(f)
                            \/ \E classes \in ClassLists, form \in Written :
                                 WriteFile(f, classes, form)
  <2>1. stage = "off" /\ UNCHANGED process
    BY <1>6 DEF DeleteFile, WriteFile
  <2> QED BY <2>1 DEF RenderInv, process
<1>7. CASE UNCHANGED inventoryVars
  BY <1>7 DEF inventoryVars, process, RenderInv
<1> QED BY <1>1, <1>2, <1>3, <1>4, <1>5, <1>6, <1>7, RenderStep DEF InventoryNext, Proceed

-----------------------------------------------------------------------------
(* The invariant and what follows *)

LEMMA InventoryInvInit ==
  ASSUME InventoryAssumption, InventoryInit  PROVE InventoryInv
<1>1. InventoryTypeOK
  BY FileInitTypes
<1>2. PendingInv /\ RenderInv
  BY DEF InventoryInit, PendingInv, RenderInv, NoFiles
<1>3. pending = Nothing /\ tree = FirstTree /\ migrated = [f \in Files |-> 0]
      /\ DOMAIN tree \subseteq Files
      /\ wrote = [f \in Files |-> IF f \in DOMAIN FirstTree THEN FirstTree[f] ELSE Empty]
  BY DEF InventoryInit, InventoryAssumption
<1>4. \A f \in DOMAIN tree : wrote[f] = tree[f] /\ migrated[f] = 0
  BY <1>3
<1>5. FormInv
  <2>1. \A f \in DOMAIN tree : tree[f].form \in Written
    BY <1>3 DEF InventoryAssumption
  <2>2. \A f \in Linked : migrated[f] = 0
    BY <1>3 DEF InventoryAssumption, Files
  <2> QED BY <1>3, <1>4, <2>1, <2>2 DEF FormInv
<1>6. EmptiedInv
  <2>1. Emptied = {}
    BY <1>3, <1>4 DEF Emptied, Meant
  <2>2. kills = 0
    BY DEF InventoryInit
  <2> QED BY <2>1, <2>2, FS_EmptySet DEF EmptiedInv
<1> QED BY <1>1, <1>2, <1>5, <1>6 DEF InventoryInv

LEMMA InventoryStep ==
  ASSUME InventoryAssumption, InventoryInv, [InventoryNext]_inventoryVars  PROVE InventoryInv'
BY FileTypeStep, PendingStep, FormStep, EmptiedStep, RenderInvStep DEF InventoryInv

LEMMA InventoryInvariance ==
  ASSUME InventoryAssumption  PROVE InventorySpec => []InventoryInv
<1>1. InventoryInit => InventoryInv
  BY InventoryInvInit
<1>2. InventoryInv /\ [InventoryNext]_inventoryVars => InventoryInv'
  BY InventoryStep
<1> QED BY <1>1, <1>2, PTL DEF InventorySpec

\* Every variable has its type, whatever the tree, its edits and the kills.
THEOREM InventoryTypeCorrect ==
  ASSUME InventoryAssumption  PROVE InventorySpec => []InventoryTypeOK
<1>1. InventoryInv => InventoryTypeOK
  BY DEF InventoryInv
<1> QED BY <1>1, InventoryInvariance, PTL

\* Whatever a user writes and however often kapitan is run and killed: a migration breaks an
\* interpolation only if it was migrated before or held a resolver, and a kill costs one file.
THEOREM MigrationLossHasACauseHolds ==
  ASSUME InventoryAssumption  PROVE InventorySpec => []MigrationLossHasACause
<1>1. ASSUME InventoryInv  PROVE MigrationLossHasACause
  <2>1. ASSUME NEW f \in DOMAIN tree, tree[f].form \in {"broken", "overquoted"},
               wrote[f].form # "escape"
        PROVE  migrated[f] >= 2
    <3>1. migrated[f] \in Nat
      BY <1>1 DEF InventoryInv, InventoryTypeOK
    <3>2. migrated[f] # 0 /\ migrated[f] # 1
      BY <1>1, <2>1 DEF InventoryInv, FormInv, Written
    <3> QED BY <3>1, <3>2
  <2> DEFINE cut == {f \in DOMAIN tree : tree[f] = Empty /\ wrote[f] # Empty}
  <2>2. Cardinality(cut) <= kills + IF pending = Nothing THEN 0 ELSE 1
    <3>1. /\ kills \in Nat /\ IsFiniteSet(Emptied) /\ Cardinality(Emptied) <= kills
          /\ Cardinality(Emptied) \in Nat
      BY <1>1, FS_CardinalityType DEF InventoryInv, EmptiedInv, InventoryTypeOK
    <3>2. CASE pending = Nothing
      <4>1. cut = Emptied
        BY <3>2 DEF Emptied, Meant
      <4> HIDE DEF cut
      <4> QED BY <3>1, <3>2, <4>1
    <3>3. CASE pending # Nothing
      <4> DEFINE p == pending.file
      <4>1. cut \subseteq Emptied \cup {p}
        BY DEF Emptied, Meant
      <4> HIDE DEF cut, p
      <4>2. /\ IsFiniteSet(Emptied \cup {p})
            /\ Cardinality(Emptied \cup {p}) \in {Cardinality(Emptied), Cardinality(Emptied) + 1}
        BY <3>1, FS_AddElement
      <4>3. Cardinality(cut) <= Cardinality(Emptied \cup {p}) /\ Cardinality(cut) \in Nat
        BY <4>1, <4>2, FS_Subset, FS_CardinalityType
      <4> QED BY <3>1, <3>3, <4>2, <4>3
    <3> QED BY <3>2, <3>3
  <2> QED BY <2>1, <2>2 DEF MigrationLossHasACause
<1>2. InventoryInv => MigrationLossHasACause
  BY <1>1
<1> QED BY <1>2, InventoryInvariance, PTL

\* Kapitan changes a user's file only by writing it, and what it writes is the file's own
\* list of classes when migrating, and in a linked directory that list with only patterns taken
\* out, when expanding; whatever is linked, killed or run again.
THEOREM ClassesAreKeptHolds ==
  ASSUME InventoryAssumption  PROVE InventorySpec => ClassesAreKept
<1> DEFINE Kept(f) ==
      /\ tree'[f] # tree[f] => \E p \in {pending, pending'} : p # Nothing /\ p.file = f
      /\ \/ kills' # kills \/ Holds(f)' = Holds(f)
         \/ /\ stage = "migrate" /\ f \notin Linked
            /\ Holds(f)'.classes = Holds(f).classes
         \/ /\ stage = "load" /\ args.wildcards /\ f \in Linked
            /\ Holds(f)'.form = Holds(f).form
            /\ Keeps(Holds(f).classes, Holds(f)'.classes)
<1>1. ASSUME InventoryInv, [InventoryNext]_inventoryVars,
             NEW f \in DOMAIN tree, f \in DOMAIN tree', edits' = edits
      PROVE  Kept(f)
  <2>1. ASSUME NEW g \in Files, MigrateOpen(g)  PROVE Kept(f)
    <3>1. stage = "migrate" /\ g \notin Linked /\ pending = Nothing
      BY <1>1, <2>1 DEF InventoryInv, MigrateOpen, PendingInv
    <3>2. f # g => Holds(f)' = Holds(f) /\ tree'[f] = tree[f]
      BY <1>1, <2>1, <3>1, OpenTypes DEF InventoryInv, Holds
    <3>3. f = g => Holds(f)'.classes = Holds(f).classes /\ pending' # Nothing /\ pending'.file = f
      BY <1>1, <2>1, <3>1, OpenTypes DEF InventoryInv, Holds
    <3> QED BY <3>1, <3>2, <3>3
  <2>2. CASE MigrateWrite
    <3>1. pending # Nothing
      BY <2>2 DEF MigrateWrite
    <3> QED BY <1>1, <2>2, <3>1, WriteTypes DEF InventoryInv, Holds
  <2>3. CASE SameFiles \/ KillProcess
    <3>1. tree' = tree /\ (pending' = pending \/ kills' # kills)
      BY <1>1, <2>3 DEF SameFiles, KillProcess, InventoryInv, InventoryTypeOK
    <3> QED BY <3>1 DEF Holds
  <2>4. edits' # edits + 1
    BY <1>1 DEF InventoryInv, InventoryTypeOK
  <2>5. CASE \E g \in Files : \/ DeleteFile(g)
                              \/ \E classes \in ClassLists, form \in Written :
                                   WriteFile(g, classes, form)
    BY <2>4, <2>5 DEF DeleteFile, WriteFile
  <2>6. ASSUME NEW g \in Classes, ExpandOpen(g)  PROVE Kept(f)
    <3>1. stage = "load" /\ args.wildcards /\ g \in Linked /\ pending = Nothing
      BY <2>6 DEF ExpandOpen
    <3>2. f # g => Holds(f)' = Holds(f) /\ tree'[f] = tree[f]
      BY <1>1, <2>6, <3>1, ExpandTypes DEF InventoryInv, Holds
    <3>3. f = g => /\ Holds(f)'.form = Holds(f).form /\ Keeps(Holds(f).classes, Holds(f)'.classes)
                   /\ pending' # Nothing /\ pending'.file = f
      BY <1>1, <2>6, <3>1, ExpandTypes DEF InventoryInv, Holds
    <3> QED BY <3>1, <3>2, <3>3
  <2>7. CASE ExpandWrite
    BY <1>1, <2>7, ExpandWriteTypes DEF InventoryInv, Holds
  <2> HIDE DEF Kept
  <2> QED BY <1>1, <2>1, <2>2, <2>3, <2>5, <2>6, <2>7, OthersLeaveFiles
          DEF InventoryInv, InventoryNext, Proceed
<1>2. InventoryInv /\ [InventoryNext]_inventoryVars =>
        [\A f \in DOMAIN tree : f \in DOMAIN tree' /\ edits' = edits => Kept(f)]_inventoryVars
  <2> HIDE DEF Kept
  <2> QED BY <1>1
<1> QED BY <1>2, InventoryInvariance, PTL DEF InventorySpec, ClassesAreKept

\* An inventory is handed out only when all of its targets have been rendered, from the tree
\* as the user has left it or its expansion.
THEOREM HandedOutWholeHolds ==
  ASSUME InventoryAssumption  PROVE InventorySpec => []HandedOutWhole
<1>1. InventoryInv => HandedOutWhole
  BY DEF InventoryInv, RenderInv, HandedOutWhole
<1> QED BY <1>1, InventoryInvariance, PTL

-----------------------------------------------------------------------------
(* What is read *)

LEMMA PatternsMeant ==
  ASSUME InventoryAssumption, InventoryTypeOK,
         stage \in {"render", "ready"} => view = IF args.wildcards THEN Expanded(tree) ELSE tree
  PROVE  PatternsMeanTheirMatches
<1> SUFFICES ASSUME args.wildcards, view = Expanded(tree),
                    NEW f \in DOMAIN tree, HasWildcard(tree, f)
             PROVE  InOrder(tree, f, view[f].classes)
  BY DEF PatternsMeanTheirMatches, InOrder
<1>1. view[f].classes = ExpandClassPatterns(tree, tree[f].classes)
  BY ExpandedFile
<1>2. InOrder(tree, f, ExpandClassPatterns(tree, tree[f].classes))
  <2>1. tree[f].classes \in Seq(Classes \cup Entries)
    BY TreeOfFiles
  <2> QED BY <2>1, ExpansionMeans
<1> QED BY <1>1, <1>2

LEMMA ViewOfFiles ==
  ASSUME InventoryAssumption, InventoryTypeOK,
         view = IF args.wildcards THEN Expanded(tree) ELSE tree
  PROVE  /\ IsTree(view) /\ DOMAIN view = DOMAIN tree
         /\ \A f \in DOMAIN tree : view[f].form = tree[f].form
<1>1. IsTree(tree)
  BY TreeOfFiles
<1>2. CASE ~ args.wildcards
  BY <1>1, <1>2
<1>3. CASE args.wildcards
  <2>1. view = Expanded(tree)
    BY <1>3
  <2>2. DOMAIN view = DOMAIN tree /\ DOMAIN tree \subseteq Files
    BY <2>1 DEF Expanded, InventoryTypeOK
  <2>3. ASSUME NEW f \in DOMAIN tree
        PROVE  view[f].classes \in Seq(Files \cup Entries) /\ view[f].form = tree[f].form
    <3>1. /\ tree[f].classes \in Seq(Classes \cup Entries)
          /\ tree[f].classes \in Seq(Files \cup Entries)
      BY TreeOfFiles DEF IsTree
    <3>2. ExpandClassPatterns(tree, tree[f].classes) \in Seq(Classes \cup Entries)
      BY <3>1, ExpansionMeans
    <3>3. Seq(Classes \cup Entries) \subseteq Seq(Files \cup Entries)
      <4>1. Classes \subseteq Files
        BY DEF Files
      <4> QED BY <4>1
    <3> QED BY <2>1, <3>1, <3>2, <3>3, ExpandedFile
  <2> QED BY <2>2, <2>3 DEF IsTree
<1> QED BY <1>2, <1>3

LEMMA WholeWhenReady ==
  ASSUME InventoryAssumption, InventoryTypeOK,
         stage = "ready" =>
           /\ view = IF args.wildcards THEN Expanded(tree) ELSE tree
           /\ DOMAIN targets = Discovered(tree)
           /\ \A t \in DOMAIN targets : Renders(view, t) /\ targets[t] = Merged(Loads(view, t))
  PROVE  ReadyIsWhole
<1> SUFFICES ASSUME stage = "ready"
             PROVE  /\ DOMAIN targets = Discovered(tree)
                    /\ \A t \in DOMAIN targets :
                         /\ ToSet(targets[t].list) = Reached(view, t)
                         /\ \A f \in Reached(view, t) : Resolves(tree[f].form)
                         /\ t \in Setters => targets[t].key = t
  BY DEF ReadyIsWhole
<1>1. /\ IsTree(view) /\ DOMAIN view = DOMAIN tree
      /\ \A f \in DOMAIN tree : view[f].form = tree[f].form
  BY ViewOfFiles
<1>2. ASSUME NEW t \in DOMAIN targets
      PROVE  /\ ToSet(targets[t].list) = Reached(view, t)
             /\ \A f \in Reached(view, t) : Resolves(tree[f].form)
             /\ t \in Setters => targets[t].key = t
  <2> DEFINE s == Loads(view, t)
  <2>1. t \in Files
    BY DEF Discovered, Files
  <2>2. Nothing \notin ToSet(s) /\ \A f \in ToSet(s) : Resolves(view[f].form)
    BY DEF Renders
  <2>3. /\ s \in Seq(Files \cup {Nothing}) /\ ToSet(s) = Reached(view, t)
        /\ ToSet(s) \subseteq DOMAIN view /\ Len(s) \in DOMAIN s /\ s[Len(s)] = t
    BY <1>1, <2>1, <2>2, LoadsMeans
  <2>4. targets[t] = Merged(s)
    OBVIOUS
  <2> HIDE DEF s
  <2>5. ToSet(Merged(s).list) = ToSet(s) /\ (t \in Setters => Merged(s).key = t)
    BY <2>3, MergedMeans
  <2> QED BY <1>1, <2>2, <2>3, <2>4, <2>5
<1> QED BY <1>2

-----------------------------------------------------------------------------
(* The inventory *)

\* An inventory is handed out whole: every target that exists, with exactly the classes it
\* reaches, whatever wildcards they are listed by, every interpolation resolved and the target's
\* own value on top.
THEOREM ReadyIsWholeHolds ==
  ASSUME InventoryAssumption  PROVE InventorySpec => []ReadyIsWhole
<1>1. ASSUME InventoryInv  PROVE ReadyIsWhole
  <2>1. InventoryTypeOK /\ HandedOutWhole
    BY <1>1 DEF InventoryInv, RenderInv, HandedOutWhole
  <2> QED BY <2>1, WholeWhenReady DEF HandedOutWhole
<1>2. InventoryInv => ReadyIsWhole
  BY <1>1
<1> QED BY <1>2, InventoryInvariance, PTL

\* A file with wildcards is read as listing what it names and what its patterns match, each
\* once, in the order of its entries and then of the names, whatever the file and the tree.
THEOREM PatternsMeanTheirMatchesHolds ==
  ASSUME InventoryAssumption  PROVE InventorySpec => []PatternsMeanTheirMatches
<1>1. ASSUME InventoryInv  PROVE PatternsMeanTheirMatches
  <2>1. InventoryTypeOK /\
        (stage \in {"render", "ready"} => view = IF args.wildcards THEN Expanded(tree) ELSE tree)
    BY <1>1 DEF InventoryInv, RenderInv
  <2> QED BY <2>1, PatternsMeant
<1>2. InventoryInv => PatternsMeanTheirMatches
  BY <1>1
<1> QED BY <1>2, InventoryInvariance, PTL
=============================================================================
