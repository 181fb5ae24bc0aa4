---------------------------- MODULE Fetch_proofs ----------------------------
(***************************************************************************)
(* For any dependencies, sources and flags: what is saved is a revision    *)
(* some dependency of a selected target asks for at that path, the user's  *)
(* files are overwritten only where that was asked for, and what was to be *)
(* fetched is at its place, but for the two kinds that are let go.         *)
(* For any helm tasks, charts and versions: what a helm task saves is the  *)
(* version it was asked for, although the directory that helm unpacks in   *)
(* is named after the chart alone.                                         *)
(***************************************************************************)
EXTENDS Fetch, HelmCharts, FiniteSetTheorems, TLAPS

-----------------------------------------------------------------------------
(* The inductive invariant, in parts *)

\* Target t is to be visited: it is selected, and has a dependency with force_fetch if
\* neither flag asks to fetch.
ToVisit(t) ==
  /\ t \in chosen
  /\ Fetching(flags) \/ (~ Forcing(flags) /\ \E j \in Forced : Owner[j] = t)

\* What is grouped belongs to targets that are to be visited.
GroupInv ==
  /\ \A t \in Targets : visits[t] # 0 => ToVisit(t)
  /\ \A i \in rest : ToVisit(Owner[i])
  /\ \A s \in Sources : \A i \in deps[s] : Source[i] = s /\ ToVisit(Owner[i])
  /\ \A s \in Sources : left[s] \subseteq deps[s]

\* Before the flags are read nothing is grouped or fetched; then they decide on force.
PlanInv ==
  /\ stage = "plan" => /\ \A t \in Targets : visits[t] = 0
                       /\ rest = {}
                       /\ \A i \in Items : joins[i] = 0
                       /\ seen = {}
                       /\ \A s \in Sources : deps[s] = {} /\ task[s] = "none"
  /\ stage = "plan" => \A p \in DOMAIN files : /\ files[p] \in {Absent, Empty, Local}
                                               /\ p[2] # 1 => files[p] = Absent
  /\ stage \in Kinds \cup {"group"} => force = (Fetching(flags) => Forcing(flags))

\* A clone is at a revision that one of its dependencies asks for, or as it was made.
HeadInv == \A s \in Sources : task[s] = "fetched" => head[s] \in Checkouts(s)

IInv == TypeOK /\ GroupInv /\ PlanInv /\ HeadInv /\ RightRevision

-----------------------------------------------------------------------------
(* Types *)

LEMMA CountType ==
  ASSUME FetchAssumption, NEW t \in Targets
  PROVE  /\ Cardinality(ItemsOf(t) \cap Forced) \in Nat
         /\ Cardinality(ItemsOf(t) \cap Forced) # 0 <=> \E j \in Forced : Owner[j] = t
         /\ Cardinality(Forced) \in Nat
         /\ Cardinality(ItemsOf(t) \cap Forced) <= Cardinality(Forced)
<1>1. IsFiniteSet(Forced)
  BY FS_Subset DEF FetchAssumption
<1>2. ItemsOf(t) \cap Forced # {} <=> \E j \in Forced : Owner[j] = t
  BY DEF FetchAssumption, ItemsOf
<1>3. IsFiniteSet(ItemsOf(t) \cap Forced) /\ Cardinality(ItemsOf(t) \cap Forced) <= Cardinality(Forced)
  BY <1>1, FS_Subset
<1> QED BY <1>1, <1>2, <1>3, FS_CardinalityType, FS_EmptySet

LEMMA VisitsType ==
  ASSUME FetchAssumption, NEW given, NEW objs, NEW t \in Targets
  PROVE  /\ Visits(given, objs, t) \in Depths /\ Visits(given, objs, t) \in Nat
         /\ Visits(given, objs, t) # 0 <=>
              /\ t \in objs
              /\ Fetching(given) \/ (~ Forcing(given) /\ \E j \in Forced : Owner[j] = t)
BY CountType DEF Visits, Depths

LEMMA ToFetchIsToVisit ==
  ASSUME FetchAssumption, NEW i \in Items  PROVE ToFetch(i) <=> ToVisit(Owner[i])
BY DEF FetchAssumption, ToFetch, ToVisit, ItemsOf

LEMMA WantedType ==
  ASSUME FetchAssumption, NEW i \in Items, head[Source[i]] \in Refs
  PROVE  /\ Wanted(i) \in Refs /\ Source[i] \in Sources
         /\ <<Source[i], Wanted(i)>> \in Contents
         /\ <<Source[i], Wanted(i)>> \notin {Absent, Empty, Local}
<1>1. Wanted(i) \in Refs /\ Source[i] \in Sources
  BY DEF FetchAssumption, Wanted
<1> QED BY <1>1 DEF FetchAssumption, Contents

LEMMA CheckoutType ==
  ASSUME FetchAssumption, NEW s \in Sources  PROVE Checkouts(s) \subseteq Refs
BY DEF Checkouts, FetchAssumption

LEMMA PlaceType ==
  ASSUME FetchAssumption, NEW i \in Items, NEW n \in Nat
  PROVE  PlaceAfter(i, n) \in Places /\ PlaceAfter(i, n)[1] = Path[i]
BY DEF FetchAssumption, PlaceAfter, Places

\* Saving dependency i changes its place only: to what is wanted, or to a directory.
LEMMA SavedType ==
  ASSUME FetchAssumption, NEW i \in Items, files \in [Paths \X Depths -> Contents],
         head[Source[i]] \in Refs, NEW new \in {files, DirMade(i), Saved(i)}
  PROVE  /\ new \in [Paths \X Depths -> Contents]
         /\ \A p \in Paths \X Depths :
              \/ new[p] = files[p]
              \/ /\ p = Place(i)
                 /\ \/ new[p] = <<Source[i], Wanted(i)>> /\ (force \/ files[p] # Local)
                    \/ new[p] = Empty /\ files[p] = Absent
<1>1. DirMade(i) \in [Paths \X Depths -> Contents] /\ Written(i) \in [Paths \X Depths -> Contents]
  BY WantedType DEF DirMade, Written, Contents
<1>2. \A p \in Paths \X Depths :
        /\ DirMade(i)[p] = files[p] \/ (p = Place(i) /\ files[p] = Absent /\ DirMade(i)[p] = Empty)
        /\ Written(i)[p] = files[p] \/ (p = Place(i) /\ Written(i)[p] = <<Source[i], Wanted(i)>>)
  BY DEF DirMade, Written
<1>3. Saved(i) \in {files, DirMade(i)} \/ (Saved(i) = Written(i) /\ (force \/ files[Place(i)] # Local))
  BY DEF Saved, Kept
<1> QED BY <1>1, <1>2, <1>3

LEMMA TypeInit ==
  ASSUME FetchAssumption, Init  PROVE TypeOK
<1>1. files \in [Paths \X Depths -> Contents]
  BY DEF Init, Contents
<1> QED BY <1>1 DEF Init, TypeOK, Kinds, Over, Flags

\* A dependency being saved is one of its source's, which is cloned.
LEMMA BeingSaved ==
  ASSUME FetchAssumption, TypeOK, GroupInv, HeadInv, NEW s \in Sources, NEW i \in left[s],
         task[s] = "fetched"
  PROVE  /\ i \in Items /\ Source[i] = s /\ ToVisit(Owner[i])
         /\ head[s] \in Refs /\ Wanted(i) \in Checkouts(s) /\ Wanted(i) \in Refs
<1>1. i \in Items /\ Source[i] = s /\ ToVisit(Owner[i])
  BY DEF GroupInv, TypeOK
<1>2. head[s] \in Checkouts(s) /\ Checkouts(s) \subseteq Refs
  BY CheckoutType DEF HeadInv
<1>3. Wanted(i) \in Checkouts(s)
  BY <1>1, <1>2 DEF Wanted, Checkouts, ToVisit
<1> QED BY <1>1, <1>2, <1>3

LEMMA TypeStep ==
  ASSUME FetchAssumption, TypeOK, GroupInv, HeadInv, [Next]_vars  PROVE TypeOK'
<1> USE DEF TypeOK, planning, grouping, tasks
<1>1. ASSUME NEW given \in SUBSET Flags, NEW objs \in SUBSET Targets, Plan(given, objs)
      PROVE  TypeOK'
  <2>1. visits' \in [Targets -> Nat]
    BY <1>1, VisitsType DEF Plan
  <2>2. stage' \in {"group", "skipped"} /\ force' \in BOOLEAN
    BY <1>1 DEF Plan
  <2> QED BY <1>1, <2>1, <2>2 DEF Plan, Over
<1>2. ASSUME NEW t \in Targets, Visit(t)  PROVE TypeOK'
  BY <1>2 DEF Visit, ItemsOf
<1>3. ASSUME NEW i \in Items, Collect(i)  PROVE TypeOK'
  <2>1. PlaceAfter(i, joins[i] + 1) \in Places /\ Source[i] \in Sources
    BY PlaceType DEF FetchAssumption
  <2>2. joins' \in [Items -> Nat] /\ rest' \subseteq Items
    BY <1>3 DEF Collect
  <2>3. seen' = seen \/ seen' = seen \cup {<<Uri[Source[i]], PlaceAfter(i, joins[i] + 1)>>}
    BY <1>3 DEF Collect
  <2>4. <<Uri[Source[i]], PlaceAfter(i, joins[i] + 1)>> \in {Uri[s] : s \in Sources} \X Places
    BY <2>1
  <2>5. seen' \subseteq {Uri[s] : s \in Sources} \X Places
    BY <2>3, <2>4
  <2>6. deps' = deps \/ deps' = [deps EXCEPT ![Source[i]] = @ \cup {i}]
    BY <1>3 DEF Collect
  <2>7. deps' \in [Sources -> SUBSET Items]
    BY <2>1, <2>6
  <2> QED BY <1>3, <2>2, <2>5, <2>7 DEF Collect
<1>4. CASE StartPool
  BY <1>4 DEF StartPool, Kinds
<1>5. ASSUME NEW s \in Sources, Download(s)  PROVE TypeOK'
  BY <1>5 DEF Download, FetchAssumption
<1>6. ASSUME NEW s \in Sources, NEW i \in Items, Save(s, i)  PROVE TypeOK'
  <2>1. files' \in [Paths \X Depths -> Contents] /\ Wanted(i) \in Refs
    BY <1>6, BeingSaved, SavedType DEF Save
  <2> QED BY <1>6, <2>1 DEF Save
<1>7. ASSUME NEW s \in Sources, SaveFails(s)  PROVE TypeOK'
  <2>1. PICK i \in left[s] : files' \in {files, DirMade(i), Saved(i)}
    BY <1>7 DEF SaveFails
  <2>2. i \in Items /\ head[Source[i]] \in Refs
    BY <1>7, BeingSaved DEF SaveFails
  <2>3. files' \in [Paths \X Depths -> Contents]
    BY <2>1, <2>2, SavedType
  <2> QED BY <1>7, <2>3 DEF SaveFails
<1>8. ASSUME NEW s \in Sources, TaskEnds(s)  PROVE TypeOK'
  BY <1>8 DEF TaskEnds
<1>9. CASE NextStage
  BY <1>9 DEF NextStage, After, Kinds, Over
<1>10. CASE Abort \/ Raises
  BY <1>10 DEF Abort, Raises, Over
<1>11. CASE Ended \/ UNCHANGED vars
  BY <1>11 DEF Ended, vars
<1> HIDE DEF TypeOK, planning, grouping, tasks
<1> QED BY <1>1, <1>2, <1>3, <1>4, <1>5, <1>6, <1>7, <1>8, <1>9, <1>10, <1>11
        DEF Next, Parent, Group, Task
-----------------------------------------------------------------------------
(* Every step keeps the rest of the invariant *)

\* Only Plan reads the flags; every other step leaves the selection alone.
LEMMA Planned ==
  ASSUME [Next]_vars
  PROVE  \/ \E given \in SUBSET Flags, objs \in SUBSET Targets : Plan(given, objs)
         \/ /\ UNCHANGED planning
            /\ stage' = stage \/ (stage = "group" /\ stage' = "http")
                 \/ stage \in Kinds \/ stage' = "failed"
            /\ stage' = "plan" => stage = "plan"
<1> USE DEF planning
<1>1. ASSUME NEW s \in Sources, Task(s)  PROVE UNCHANGED planning /\ stage' = stage
  BY <1>1 DEF Task, Download, Save, SaveFails, TaskEnds
<1>2. CASE Group
  BY <1>2 DEF Group, StartPool, Visit, Collect
<1>5. CASE NextStage
  <2>1. stage \in Kinds /\ stage' = After[stage] /\ UNCHANGED planning
    BY <1>5 DEF NextStage
  <2>2. After[stage] # "plan"
    BY <2>1 DEF After, Kinds
  <2> QED BY <2>1, <2>2
<1>3. CASE Abort \/ Raises
  BY <1>3 DEF Abort, Raises
<1>4. CASE Ended \/ UNCHANGED vars
  BY <1>4 DEF Ended, vars
<1> QED BY <1>1, <1>2, <1>3, <1>4, <1>5 DEF Next, Parent

LEMMA GroupStep ==
  ASSUME FetchAssumption, TypeOK, GroupInv, PlanInv, [Next]_vars  PROVE GroupInv'
<1> USE DEF GroupInv, ToVisit, planning, grouping, tasks
<1>1. ASSUME NEW given \in SUBSET Flags, NEW objs \in SUBSET Targets, Plan(given, objs)
      PROVE  GroupInv'
  <2>1. /\ stage = "plan" /\ flags' = given /\ chosen' = objs
        /\ visits' = [t \in Targets |-> Visits(given, objs, t)]
        /\ UNCHANGED <<rest, deps, left>>
    BY <1>1 DEF Plan
  <2>2. rest = {} /\ \A s \in Sources : deps[s] = {}
    BY <2>1 DEF PlanInv
  <2>3. \A t \in Targets : visits'[t] # 0 => ToVisit(t)'
    BY <2>1, VisitsType DEF Fetching, Forcing
  <2> QED BY <2>1, <2>2, <2>3
<1>2. ASSUME NEW t \in Targets, Visit(t)  PROVE GroupInv'
  <2>1. \A u \in Targets : visits'[u] # 0 => visits[u] # 0
    BY <1>2 DEF Visit, TypeOK
  <2>2. \A i \in rest' : Owner[i] = t
    BY <1>2 DEF Visit, ItemsOf
  <2>3. visits[t] # 0
    BY <1>2 DEF Visit
  <2> QED BY <1>2, <2>1, <2>2, <2>3 DEF Visit, Fetching, Forcing
<1>3. ASSUME NEW i \in Items, Collect(i)  PROVE GroupInv'
  <2>1. /\ i \in rest /\ rest' = rest \ {i} /\ UNCHANGED <<visits, chosen, flags, left>>
        /\ deps' = deps \/ deps' = [deps EXCEPT ![Source[i]] = deps[Source[i]] \cup {i}]
    BY <1>3 DEF Collect
  <2>2. \A s \in Sources : \A j \in deps'[s] : j \in deps[s] \/ (j = i /\ s = Source[i])
    BY <2>1 DEF TypeOK
  <2>3. \A s \in Sources : deps[s] \subseteq deps'[s]
    BY <2>1 DEF TypeOK
  <2> QED BY <2>1, <2>2, <2>3 DEF Fetching, Forcing
<1>4. CASE StartPool
  BY <1>4 DEF StartPool, Fetching, Forcing
<1>5. ASSUME NEW s \in Sources, NEW i \in Items, Save(s, i)  PROVE GroupInv'
  BY <1>5 DEF Save, Fetching, Forcing, TypeOK
<1>6. ASSUME NEW s \in Sources, Download(s) \/ SaveFails(s) \/ TaskEnds(s)
      PROVE  GroupInv'
  BY <1>6 DEF Download, SaveFails, TaskEnds, Fetching, Forcing
<1>7. CASE NextStage \/ Raises \/ Abort \/ Ended \/ UNCHANGED vars
  BY <1>7 DEF NextStage, Raises, Abort, Ended, vars, Fetching, Forcing
<1> HIDE DEF GroupInv, ToVisit, planning, grouping, tasks
<1> QED BY <1>1, <1>2, <1>3, <1>4, <1>5, <1>6, <1>7 DEF Next, Parent, Group, Task

\* A file is written, or a directory made for it, by a task that saves a dependency
\* grouped under its source.
LEMMA FileStep ==
  ASSUME FetchAssumption, TypeOK, GroupInv, HeadInv, [Next]_vars, NEW p \in DOMAIN files
  PROVE  \/ files'[p] = files[p]
         \/ \E i \in Items :
              /\ p = Place(i) /\ ToVisit(Owner[i]) /\ stage \in Kinds /\ UNCHANGED planning
              /\ \/ /\ files'[p] = <<Source[i], Wanted(i)>> /\ (force \/ files[p] # Local)
                    /\ Wanted(i) \in Refs \cap Checkouts(Source[i])
                 \/ files'[p] = Empty /\ files[p] = Absent
<1>1. ASSUME NEW s \in Sources, NEW i \in left[s], task[s] = "fetched", stage = Kind[s],
             UNCHANGED planning, files' \in {files, DirMade(i), Saved(i)}
      PROVE  \/ files'[p] = files[p]
             \/ /\ i \in Items
                /\ p = Place(i) /\ ToVisit(Owner[i]) /\ stage \in Kinds /\ UNCHANGED planning
                /\ \/ /\ files'[p] = <<Source[i], Wanted(i)>> /\ (force \/ files[p] # Local)
                      /\ Wanted(i) \in Refs \cap Checkouts(Source[i])
                   \/ files'[p] = Empty /\ files[p] = Absent
  <2>1. p \in Paths \X Depths /\ files \in [Paths \X Depths -> Contents]
    BY DEF TypeOK
  <2>2. /\ i \in Items /\ Source[i] = s /\ ToVisit(Owner[i])
        /\ head[Source[i]] \in Refs /\ Wanted(i) \in Refs \cap Checkouts(Source[i])
    BY <1>1, BeingSaved
  <2>3. stage \in Kinds
    BY <1>1 DEF FetchAssumption
  <2> QED BY <1>1, <2>1, <2>2, <2>3, SavedType
<1>2. ASSUME NEW s \in Sources, Download(s) \/ TaskEnds(s)
      PROVE  files' = files
  BY <1>2 DEF Download, TaskEnds
<1>3. ASSUME NEW s \in Sources, SaveFails(s)
      PROVE  \E i \in left[s] : /\ task[s] = "fetched" /\ stage = Kind[s] /\ UNCHANGED planning
                                /\ files' \in {files, DirMade(i), Saved(i)}
  BY <1>3 DEF SaveFails
<1>4. ASSUME NEW s \in Sources, NEW i \in Items, Save(s, i)
      PROVE  /\ i \in left[s] /\ task[s] = "fetched" /\ stage = Kind[s] /\ UNCHANGED planning
             /\ files' \in {files, DirMade(i), Saved(i)}
  BY <1>4 DEF Save
<1>5. ASSUME \/ \E given \in SUBSET Flags, objs \in SUBSET Targets : Plan(given, objs)
             \/ Group \/ NextStage \/ Raises \/ Abort \/ Ended \/ UNCHANGED vars
      PROVE  files' = files
  BY <1>5 DEF Plan, Group, StartPool, Visit, Collect, NextStage, Raises, Abort, Ended, vars
<1> QED BY <1>1, <1>2, <1>3, <1>4, <1>5 DEF Next, Parent, Task

LEMMA StillPlanning ==
  ASSUME FetchAssumption, [Next]_vars, stage = "plan", stage' = "plan"
  PROVE  UNCHANGED <<visits, rest, joins, seen, deps, task, files>>
<1>1. ASSUME NEW s \in Sources, Task(s)  PROVE FALSE
  BY <1>1 DEF Task, Download, Save, SaveFails, TaskEnds, FetchAssumption, Kinds
<1>2. ASSUME NEW given \in SUBSET Flags, NEW objs \in SUBSET Targets, Plan(given, objs)
      PROVE  FALSE
  BY <1>2 DEF Plan
<1>3. CASE Group \/ NextStage \/ Raises \/ Abort \/ Ended
  BY <1>3 DEF Group, StartPool, Visit, Collect, NextStage, Raises, Abort, Ended, Kinds, Over
<1> QED BY <1>1, <1>2, <1>3 DEF Next, Parent, vars

LEMMA PlanStep ==
  ASSUME FetchAssumption, TypeOK, GroupInv, PlanInv, [Next]_vars  PROVE PlanInv'
<1>1. ASSUME NEW given \in SUBSET Flags, NEW objs \in SUBSET Targets, Plan(given, objs)
      PROVE  PlanInv'
  <2>1. stage' \in {"group", "skipped"} /\ force' = (Fetching(given) => Forcing(given)) /\ flags' = given
    BY <1>1 DEF Plan
  <2> QED BY <2>1 DEF PlanInv, Fetching, Forcing
<1>2. ASSUME UNCHANGED planning,
             \/ stage' = stage \/ (stage = "group" /\ stage' = "http")
             \/ stage \in Kinds \/ stage' = "failed",
             stage' = "plan" => stage = "plan"
      PROVE  PlanInv'
  <2>1. stage' \in Kinds \cup {"group"} => force' = (Fetching(flags') => Forcing(flags'))
    <3>1. stage' \in Kinds \cup {"group"} => stage \in Kinds \cup {"group"}
      BY <1>2 DEF Kinds
    <3> QED BY <1>2, <3>1 DEF PlanInv, planning
  <2>2. ASSUME stage' = "plan"
        PROVE  /\ visits' = visits /\ rest' = rest /\ joins' = joins /\ seen' = seen
               /\ deps' = deps /\ task' = task /\ files' = files
    <3>1. stage = "plan"
      BY <1>2, <2>2
    <3> QED BY <2>2, <3>1, StillPlanning
  <2> QED BY <1>2, <2>1, <2>2 DEF PlanInv, Fetching, Forcing
<1> QED BY <1>1, <1>2, Planned

LEMMA HeadStep ==
  ASSUME FetchAssumption, TypeOK, GroupInv, PlanInv, HeadInv, [Next]_vars  PROVE HeadInv'
<1> USE DEF HeadInv, planning, grouping, tasks
<1>1. ASSUME NEW given \in SUBSET Flags, NEW objs \in SUBSET Targets, Plan(given, objs)
      PROVE  HeadInv'
  BY <1>1 DEF Plan, PlanInv
<1>2. ASSUME chosen' = chosen  PROVE \A s \in Sources : Checkouts(s)' = Checkouts(s)
  BY <1>2 DEF Checkouts
<1>3. CASE Group
  <2>1. /\ chosen' = chosen /\ head' = head
        /\ \A s \in Sources : task'[s] = "fetched" => task[s] = "fetched"
    BY <1>3 DEF Group, StartPool, Visit, Collect
  <2> QED BY <1>2, <2>1
<1>4. ASSUME NEW s \in Sources, NEW c \in Checkouts(s), task \in [Sources -> STRING],
             chosen' = chosen, head' = [head EXCEPT ![s] = c] \/ head' = head,
             \A u \in Sources : task'[u] = "fetched" =>
               task[u] = "fetched" \/ (u = s /\ head' = [head EXCEPT ![s] = c])
      PROVE  HeadInv'
  BY <1>2, <1>4 DEF TypeOK
<1>5. ASSUME NEW s \in Sources, Download(s)  PROVE HeadInv'
  <2>1. Head[s] \in Checkouts(s)
    BY DEF Checkouts
  <2>2. task'[s] \in {"fetched", "error"} /\ \A u \in Sources \ {s} : task'[u] = task[u]
    BY <1>5 DEF Download, TypeOK
  <2>3. chosen' = chosen /\ head' = [head EXCEPT ![s] = Head[s]]
    BY <1>5 DEF Download
  <2> QED BY <1>2, <2>1, <2>2, <2>3 DEF TypeOK
<1>6. ASSUME NEW s \in Sources, NEW i \in Items, Save(s, i)  PROVE HeadInv'
  <2>1. Wanted(i) \in Checkouts(s)
    BY <1>6, BeingSaved DEF Save
  <2>2. chosen' = chosen /\ task' = task /\ head' = [head EXCEPT ![s] = Wanted(i)]
    BY <1>6 DEF Save
  <2> QED BY <1>2, <2>1, <2>2 DEF TypeOK
<1>7. ASSUME NEW s \in Sources, SaveFails(s) \/ TaskEnds(s)  PROVE HeadInv'
  <2>1. /\ chosen' = chosen /\ head' = head
        /\ \A u \in Sources : task'[u] = "fetched" => task[u] = "fetched"
    BY <1>7 DEF SaveFails, TaskEnds, TypeOK
  <2> QED BY <1>2, <2>1
<1>8. CASE NextStage \/ Raises \/ Abort \/ Ended \/ UNCHANGED vars
  <2>1. chosen' = chosen /\ head' = head /\ task' = task
    BY <1>8 DEF NextStage, Raises, Abort, Ended, vars
  <2> QED BY <1>2, <2>1
<1> HIDE DEF HeadInv, planning, grouping, tasks
<1> QED BY <1>1, <1>3, <1>5, <1>6, <1>7, <1>8 DEF Next, Parent, Task

\* A revision is saved because a dependency of a selected target asks for it.
LEMMA RightStep ==
  ASSUME FetchAssumption, TypeOK, GroupInv, PlanInv, HeadInv, RightRevision, [Next]_vars, TypeOK'
  PROVE  RightRevision'
<1> DEFINE Asked(p, c) ==
      \E i \in Items, r \in Refs :
        /\ Owner[i] \in chosen /\ Path[i] = p[1]
        /\ c = <<Source[i], r>>
        /\ IF Ref[i] # None THEN r = Ref[i]
           ELSE IF Source[i] \in Detached THEN r \in Checkouts(Source[i])
           ELSE r = Head[Source[i]]
<1>1. ASSUME NEW p, NEW i \in Items, p = Place(i), files'[p] = <<Source[i], Wanted(i)>>,
             Wanted(i) \in Refs \cap Checkouts(Source[i]),
             ToVisit(Owner[i]), UNCHANGED planning
      PROVE  chosen' = chosen /\ Asked(p, files'[p])
  <2>1. Owner[i] \in chosen /\ chosen' = chosen /\ Path[i] = p[1]
    BY <1>1 DEF ToVisit, planning, Place, PlaceAfter
  <2>2. IF Ref[i] # None THEN Wanted(i) = Ref[i]
        ELSE IF Source[i] \in Detached THEN Wanted(i) \in Checkouts(Source[i])
        ELSE Wanted(i) = Head[Source[i]]
    BY <1>1 DEF Wanted
  <2> QED BY <1>1, <2>1, <2>2
<1>2. ASSUME NEW p \in DOMAIN files, files'[p] \notin {Absent, Empty, Local},
             files'[p] = files[p]
      PROVE  chosen' = chosen /\ Asked(p, files'[p])
  <2>1. stage # "plan"
    BY <1>2 DEF PlanInv
  <2>2. chosen' = chosen
    BY <2>1, Planned DEF Plan, planning
  <2>3. Asked(p, files[p])
    BY <1>2 DEF RightRevision
  <2> QED BY <1>2, <2>2, <2>3
<1> HIDE DEF Asked
<1>3. ASSUME NEW p \in DOMAIN files, files'[p] \notin {Absent, Empty, Local}
      PROVE  chosen' = chosen /\ Asked(p, files'[p])
  BY <1>1, <1>2, <1>3, FileStep DEF FetchAssumption
<1>4. DOMAIN files' = DOMAIN files
  BY DEF TypeOK
<1>5. ASSUME chosen' = chosen  PROVE \A s : Checkouts(s)' = Checkouts(s)
  BY <1>5 DEF Checkouts
<1>6. ASSUME NEW p \in DOMAIN files', files'[p] \notin {Absent, Empty, Local}
      PROVE  \E i \in Items, r \in Refs :
               /\ Owner[i] \in chosen' /\ Path[i] = p[1]
               /\ files'[p] = <<Source[i], r>>
               /\ IF Ref[i] # None THEN r = Ref[i]
                  ELSE IF Source[i] \in Detached THEN r \in Checkouts(Source[i])'
                  ELSE r = Head[Source[i]]
  <2>1. chosen' = chosen /\ Asked(p, files'[p])
    BY <1>3, <1>4, <1>6
  <2> QED BY <1>5, <2>1 DEF Asked
<1> QED BY <1>6 DEF RightRevision

LEMMA OverwriteStep ==
  ASSUME FetchAssumption, IInv, [Next]_vars
  PROVE  [\A p \in DOMAIN files : files[p] = Local /\ files'[p] # Local => AskedFor(p)]_vars
<1> SUFFICES ASSUME NEW p \in DOMAIN files, files[p] = Local, files'[p] # Local
             PROVE  AskedFor(p)
  OBVIOUS
<1>1. PICK i \in Items : /\ p = Place(i) /\ ToVisit(Owner[i]) /\ stage \in Kinds
                         /\ force \/ files[p] # Local \/ files[p] = Absent
  BY FileStep DEF IInv
<1>2. force
  BY <1>1 DEF FetchAssumption
<1>3. Fetching(flags) => Forcing(flags)
  BY <1>1, <1>2 DEF IInv, PlanInv, Kinds
<1>4. Path[i] = p[1] /\ Owner[i] \in chosen
  BY <1>1 DEF ToVisit, Place, PlaceAfter
<1>5. CASE ~ Fetching(flags)
  <2>1. PICK j \in Forced : Owner[j] = Owner[i]
    BY <1>1, <1>5 DEF ToVisit
  <2> QED BY <1>4, <1>5, <2>1 DEF AskedFor
<1> QED BY <1>3, <1>5 DEF AskedFor
-----------------------------------------------------------------------------
(* What was to be fetched is stored at its place *)

Past == [http |-> {}, git |-> {"http"}, helm |-> {"http", "git"},
         oci |-> {"http", "git", "helm"}, done |-> Kinds]

\* While targets are visited, each visit still to come is a rewriting still to come.
JoinsInv ==
  /\ stage \in Kinds \cup {"group"} =>
       \A i \in Items :
         joins[i] + visits[Owner[i]] + (IF i \in rest THEN 1 ELSE 0)
           = Visits(flags, chosen, Owner[i])
  /\ stage \in Kinds \cup {"done"} => rest = {} /\ \A t \in Targets : visits[t] = 0

\* What is to be fetched is still to be met, or has a twin that is listed.
ListedInv ==
  /\ stage \in Kinds \cup {"group", "done"} =>
       \A i \in Items : ToVisit(Owner[i]) =>
         \/ visits[Owner[i]] > 0 \/ i \in rest
         \/ \E s \in Sources : \E j \in deps[s] : Path[j] = Path[i] /\ Uri[s] = Uri[Source[i]]
  /\ \A x \in seen : \E s \in Sources : \E j \in deps[s] : x[1] = Uri[s] /\ x[2][1] = Path[j]

\* A dependency may be left with an empty directory.
MayBeEmpty(i) == i \in Ignored \/ (Kind[Source[i]] = "helm" /\ ~ force)

\* The sources of the kinds that are past are through, and what is not left is saved.
TaskInv ==
  stage \in Kinds \cup {"done"} =>
    \A s \in Sources :
      /\ task[s] = "none" => deps[s] = {}
      /\ task[s] = "ok" => left[s] = {}
      /\ Kind[s] \in Past[stage] => task[s] \in {"none", "ok"}
      /\ \A i \in deps[s] \ left[s] : /\ files[Goes(i)] # Absent
                                      /\ files[Goes(i)] = Empty => MayBeEmpty(i)

NowhereElse ==
  \A p \in DOMAIN files : p[2] # 1 /\ files[p] # Absent =>
    \E i \in Items : ToVisit(Owner[i]) /\ p = Goes(i)

Stored == IInv /\ JoinsInv /\ ListedInv /\ TaskInv /\ NowhereElse

LEMMA GoesType ==
  ASSUME FetchAssumption, NEW i \in Items  PROVE Goes(i) \in Paths \X Depths
<1>1. 1 \in Depths
  <2>1. Cardinality(Forced) \in Nat
    BY FS_Subset, FS_CardinalityType DEF FetchAssumption
  <2> QED BY <2>1 DEF Depths
<1> QED BY <1>1, VisitsType DEF Goes, PlaceAfter, FetchAssumption

\* Once the targets have been visited, a dependency is saved where it goes.
LEMMA PlaceIsGoes ==
  ASSUME FetchAssumption, TypeOK, JoinsInv, stage \in Kinds, NEW i \in Items
  PROVE  Place(i) = Goes(i) /\ Place(i) \in DOMAIN files
<1>1. Owner[i] \in Targets
  BY DEF FetchAssumption
<1>2. joins[i] = Visits(flags, chosen, Owner[i])
  BY <1>1 DEF JoinsInv, TypeOK
<1> QED BY <1>2, GoesType DEF Place, Goes, TypeOK

LEMMA JoinsStep ==
  ASSUME FetchAssumption, TypeOK, PlanInv, JoinsInv, [Next]_vars  PROVE JoinsInv'
<1> USE DEF JoinsInv, planning, grouping, tasks
<1>0. \A i \in Items : Owner[i] \in Targets
  BY DEF FetchAssumption
<1>1. ASSUME NEW given \in SUBSET Flags, NEW objs \in SUBSET Targets, Plan(given, objs)
      PROVE  JoinsInv'
  <2>1. /\ stage = "plan" /\ flags' = given /\ chosen' = objs /\ stage' \in {"group", "skipped"}
        /\ visits' = [t \in Targets |-> Visits(given, objs, t)] /\ UNCHANGED <<joins, rest>>
    BY <1>1 DEF Plan
  <2>2. rest = {} /\ \A i \in Items : joins[i] = 0
    BY <2>1 DEF PlanInv
  <2>3. \A t \in Targets : Visits(given, objs, t) \in Nat
    BY VisitsType
  <2> QED BY <1>0, <2>1, <2>2, <2>3 DEF Kinds
<1>2. ASSUME NEW t \in Targets, Visit(t)  PROVE JoinsInv'
  <2>1. /\ stage = "group" /\ stage' = "group" /\ rest = {} /\ rest' = ItemsOf(t)
        /\ visits[t] > 0 /\ visits' = [visits EXCEPT ![t] = @ - 1]
        /\ UNCHANGED <<flags, chosen, joins>>
    BY <1>2 DEF Visit
  <2>2. \A i \in Items : i \in rest' <=> Owner[i] = t
    BY <2>1 DEF ItemsOf
  <2>3. \A i \in Items : joins[i] + visits[Owner[i]] = Visits(flags, chosen, Owner[i])
    BY <1>0, <2>1 DEF TypeOK
  <2>4. \A i \in Items : joins'[i] + visits'[Owner[i]] + (IF i \in rest' THEN 1 ELSE 0)
                           = Visits(flags, chosen, Owner[i])
    BY <1>0, <2>1, <2>2, <2>3 DEF TypeOK
  <2> QED BY <2>1, <2>4 DEF Kinds, Visits, Fetching, Forcing
<1>3. ASSUME NEW i \in Items, Collect(i)  PROVE JoinsInv'
  <2>1. /\ stage = "group" /\ stage' = "group" /\ i \in rest /\ rest' = rest \ {i}
        /\ joins' = [joins EXCEPT ![i] = @ + 1]
        /\ UNCHANGED <<flags, chosen, visits>>
    BY <1>3 DEF Collect
  <2>2. \A k \in Items : joins'[k] + visits'[Owner[k]] + (IF k \in rest' THEN 1 ELSE 0)
                           = Visits(flags, chosen, Owner[k])
    <3> SUFFICES ASSUME NEW k \in Items
                 PROVE  joins'[k] + visits[Owner[k]] + (IF k \in rest' THEN 1 ELSE 0)
                          = Visits(flags, chosen, Owner[k])
      BY <2>1
    <3>1. joins[k] + visits[Owner[k]] + (IF k \in rest THEN 1 ELSE 0)
            = Visits(flags, chosen, Owner[k])
      BY <2>1
    <3>2. joins[k] \in Nat /\ visits[Owner[k]] \in Nat
      BY <1>0 DEF TypeOK
    <3>3. CASE k = i
      <4>1. joins'[k] = joins[k] + 1 /\ k \in rest /\ k \notin rest'
        BY <2>1, <3>3 DEF TypeOK
      <4> QED BY <3>1, <3>2, <4>1
    <3>4. CASE k # i
      <4>1. joins'[k] = joins[k] /\ (k \in rest' <=> k \in rest)
        BY <2>1, <3>4 DEF TypeOK
      <4> QED BY <3>1, <3>2, <4>1
    <3> QED BY <3>3, <3>4
  <2> QED BY <2>1, <2>2 DEF Kinds, Visits, Fetching, Forcing
<1>4. CASE StartPool
  <2>1. /\ stage = "group" /\ stage' = "http" /\ rest = {} /\ \A t \in Targets : visits[t] = 0
        /\ UNCHANGED <<flags, chosen, visits, rest, joins>>
    BY <1>4 DEF StartPool
  <2> QED BY <2>1 DEF Visits, Fetching, Forcing, Kinds
<1>5. ASSUME UNCHANGED <<flags, chosen, visits, rest, joins>>,
             \/ stage' = stage \/ stage' = "failed"
             \/ stage \in Kinds /\ stage' \in Kinds \cup {"done"}
      PROVE  JoinsInv'
  BY <1>5 DEF Visits, Fetching, Forcing, Kinds
<1>6. ASSUME NEW s \in Sources, Task(s)  PROVE JoinsInv'
  BY <1>5, <1>6 DEF Task, Download, Save, SaveFails, TaskEnds
<1>7. CASE NextStage
  BY <1>5, <1>7 DEF NextStage, After, Kinds
<1>8. CASE Raises \/ Abort \/ Ended \/ UNCHANGED vars
  BY <1>5, <1>8 DEF Raises, Abort, Ended, vars
<1> HIDE DEF JoinsInv, planning, grouping, tasks
<1> QED BY <1>1, <1>2, <1>3, <1>4, <1>6, <1>7, <1>8 DEF Next, Parent, Group

LEMMA ListedStep ==
  ASSUME FetchAssumption, TypeOK, PlanInv, ListedInv, [Next]_vars  PROVE ListedInv'
<1> USE DEF ListedInv, planning, grouping, tasks
<1>0. \A i \in Items : Owner[i] \in Targets
  BY DEF FetchAssumption
<1>1. ASSUME NEW given \in SUBSET Flags, NEW objs \in SUBSET Targets, Plan(given, objs)
      PROVE  ListedInv'
  <2>1. /\ stage = "plan" /\ flags' = given /\ chosen' = objs
        /\ visits' = [t \in Targets |-> Visits(given, objs, t)]
        /\ seen' = seen
    BY <1>1 DEF Plan
  <2>2. seen = {}
    BY <2>1 DEF PlanInv
  <2>3. \A t \in Targets : ToVisit(t)' => visits'[t] # 0 /\ visits'[t] \in Nat
    BY <2>1, VisitsType DEF ToVisit, Fetching, Forcing
  <2> QED BY <1>0, <2>1, <2>2, <2>3
<1>2. ASSUME UNCHANGED <<flags, chosen>>
      PROVE  \A t : ToVisit(t)' = ToVisit(t)
  BY <1>2 DEF ToVisit, Fetching, Forcing
<1>3. ASSUME NEW t \in Targets, Visit(t)  PROVE ListedInv'
  <2>1. /\ stage = "group" /\ stage' = "group" /\ rest = {} /\ rest' = ItemsOf(t)
        /\ UNCHANGED <<flags, chosen, seen, deps>>
        /\ \A u \in Targets \ {t} : visits'[u] = visits[u]
    BY <1>3 DEF Visit, TypeOK
  <2>2. \A i \in Items : Owner[i] = t => i \in rest'
    BY <2>1 DEF ItemsOf
  <2>3. \A i \in Items : Owner[i] # t => visits'[Owner[i]] = visits[Owner[i]]
    BY <1>0, <2>1
  <2> QED BY <1>2, <2>1, <2>2, <2>3 DEF Kinds
<1>4. ASSUME NEW i \in Items, Collect(i)  PROVE ListedInv'
  <2> DEFINE place == PlaceAfter(i, joins[i] + 1)
  <2>1. /\ stage = "group" /\ stage' = "group" /\ rest' = rest \ {i}
        /\ UNCHANGED <<flags, chosen, visits>>
    BY <1>4 DEF Collect
  <2>2. \A s \in Sources : deps[s] \subseteq deps'[s]
    <3>1. deps' = deps \/ deps' = [deps EXCEPT ![Source[i]] = deps[Source[i]] \cup {i}]
      BY <1>4 DEF Collect
    <3>2. deps \in [Sources -> SUBSET Items]
      BY DEF TypeOK
    <3> QED BY <3>1, <3>2
  <2>3. Source[i] \in Sources /\ place[1] = Path[i]
    BY DEF FetchAssumption, PlaceAfter
  <2>4. \/ <<Uri[Source[i]], place>> \in seen /\ seen' = seen
        \/ i \in deps'[Source[i]] /\ seen' = seen \cup {<<Uri[Source[i]], place>>}
    BY <1>4, <2>3 DEF Collect, TypeOK
  <2> HIDE DEF place
  <2>5. \E s \in Sources : \E j \in deps'[s] : Path[j] = Path[i] /\ Uri[s] = Uri[Source[i]]
    BY <2>2, <2>3, <2>4
  <2>6. \A x \in seen' : \E s \in Sources : \E j \in deps'[s] : x[1] = Uri[s] /\ x[2][1] = Path[j]
    BY <2>2, <2>3, <2>4
  <2> QED BY <1>2, <2>1, <2>2, <2>5, <2>6 DEF Kinds
<1>5. CASE StartPool
  <2>1. /\ stage = "group" /\ UNCHANGED <<flags, chosen, visits, rest, seen, deps>>
    BY <1>5 DEF StartPool
  <2> QED BY <1>2, <2>1
<1>6. ASSUME UNCHANGED <<flags, chosen, visits, rest, seen, deps>>,
             \/ stage' = stage \/ stage' = "failed" \/ stage \in Kinds
      PROVE  ListedInv'
  BY <1>2, <1>6 DEF Kinds
<1>7. ASSUME NEW s \in Sources, Task(s)  PROVE ListedInv'
  BY <1>6, <1>7 DEF Task, Download, Save, SaveFails, TaskEnds
<1>8. CASE NextStage
  BY <1>6, <1>8 DEF NextStage
<1>9. CASE Raises \/ Abort \/ Ended \/ UNCHANGED vars
  BY <1>6, <1>9 DEF Raises, Abort, Ended, vars
<1> HIDE DEF ListedInv, planning, grouping, tasks
<1> QED BY <1>1, <1>3, <1>4, <1>5, <1>7, <1>8, <1>9 DEF Next, Parent, Group

\* What has been written stays written; only a directory is made where nothing was.
LEMMA FilesStay ==
  ASSUME FetchAssumption, TypeOK, GroupInv, HeadInv, [Next]_vars, NEW p \in DOMAIN files
  PROVE  /\ files'[p] = Absent => files[p] = Absent
         /\ files'[p] = Empty => files[p] \in {Absent, Empty}
<1>1. ASSUME NEW i \in Items, Wanted(i) \in Refs
      PROVE  <<Source[i], Wanted(i)>> \notin {Absent, Empty}
  BY <1>1 DEF FetchAssumption
<1>2. Absent # Empty
  BY DEF FetchAssumption
<1> QED BY <1>1, <1>2, FileStep

LEMMA TaskStep ==
  ASSUME FetchAssumption, TypeOK, GroupInv, HeadInv, JoinsInv, TaskInv, [Next]_vars
  PROVE  TaskInv'
<1> USE DEF planning, grouping, tasks
<1> DEFINE Good(i, content) == content # Absent /\ (content = Empty => MayBeEmpty(i))
           Fine(s) == /\ task[s] = "none" => deps[s] = {}
                      /\ task[s] = "ok" => left[s] = {}
                      /\ \A i \in deps[s] \ left[s] : Good(i, files[Goes(i)])
           Through(s) == task[s] \in {"none", "ok"}
<1>0. ASSUME UNCHANGED planning
      PROVE  \A i : Goes(i)' = Goes(i) /\ MayBeEmpty(i)' = MayBeEmpty(i)
  BY <1>0 DEF Goes, MayBeEmpty, PlaceAfter, Visits, Fetching, Forcing
<1>1. CASE Group
  <2>1. CASE StartPool
    BY <2>1 DEF StartPool, TaskInv, Past, TypeOK
  <2>2. CASE (\E t \in Targets : Visit(t)) \/ (\E i \in Items : Collect(i))
    BY <2>2 DEF Visit, Collect, TaskInv, Kinds
  <2> QED BY <1>1, <2>1, <2>2 DEF Group
<1>2. CASE NextStage
  <2>1. /\ stage \in Kinds /\ stage' = After[stage] /\ UNCHANGED <<deps, left, task, files>>
        /\ \A s \in Sources : Kind[s] = stage => Through(s)
        /\ UNCHANGED planning
    BY <1>2 DEF NextStage
  <2>2. Past[After[stage]] = Past[stage] \cup {stage}
    BY <2>1 DEF Past, After, Kinds
  <2>3. \A s \in Sources : Fine(s) /\ (Kind[s] \in Past[stage] => Through(s))
    BY <2>1 DEF TaskInv
  <2> QED BY <1>0, <2>1, <2>2, <2>3 DEF TaskInv
<1>3. ASSUME NEW s \in Sources, Task(s), stage \in Kinds  PROVE TaskInv'
  <2>0. UNCHANGED planning
    BY <1>3 DEF Task, Download, Save, SaveFails, TaskEnds
  <2>1. /\ stage' = stage /\ deps' = deps /\ Kind[s] = stage
        /\ task[s] \in {"queued", "fetched"}
        /\ \A u \in Sources \ {s} : task'[u] = task[u] /\ left'[u] = left[u]
        /\ task'[s] # "none" /\ left'[s] \subseteq left[s]
        /\ task'[s] = "ok" => left'[s] = {}
    BY <1>3 DEF Task, Download, Save, SaveFails, TaskEnds, TypeOK
  <2>2. stage \notin Past[stage]
    BY <1>3 DEF Past, Kinds
  <2>3. \A u \in Sources : Fine(u) /\ (Kind[u] \in Past[stage] => Through(u))
    BY <1>3 DEF TaskInv
  <2>4. \A u \in Sources : \A i \in deps[u] \ left[u] : Good(i, files'[Goes(i)])
    <3> SUFFICES ASSUME NEW u \in Sources, NEW i \in deps[u] \ left[u]
                 PROVE  Good(i, files'[Goes(i)])
      OBVIOUS
    <3>1. i \in Items /\ Good(i, files[Goes(i)])
      BY <2>3 DEF TypeOK
    <3>2. Goes(i) \in DOMAIN files
      BY <3>1, GoesType DEF TypeOK
    <3> QED BY <3>1, <3>2, FilesStay
  <2>5. \A i \in left[s] \ left'[s] : Good(i, files'[Goes(i)])
    <3>1. ASSUME NEW i \in Items, Save(s, i)  PROVE Good(i, files'[Goes(i)])
      <4>1. files' = Saved(i) /\ Place(i) = Goes(i) /\ Place(i) \in DOMAIN files
        BY <1>3, <3>1, PlaceIsGoes DEF Save
      <4>2. <<Source[i], Wanted(i)>> \notin {Absent, Empty} /\ Absent # Empty
        BY <3>1, BeingSaved DEF Save, FetchAssumption
      <4>3. \A r : r \in Sources \X Refs => r \notin {Absent, Empty}
        BY DEF FetchAssumption
      <4>4. Local \notin {Absent, Empty}
        BY DEF FetchAssumption
      <4>5. files[Place(i)] \in Contents
        BY <4>1 DEF TypeOK
      <4>6. CASE i \in Ignored
        BY <4>1, <4>2, <4>6 DEF Saved, DirMade, MayBeEmpty
      <4>7. CASE i \notin Ignored /\ (force \/ ~ Kept(i))
        BY <4>1, <4>2, <4>7 DEF Saved, Written
      <4>8. CASE i \notin Ignored /\ ~ force /\ Kept(i)
        BY <4>1, <4>2, <4>3, <4>4, <4>8 DEF Saved, Kept, MayBeEmpty
      <4> QED BY <4>6, <4>7, <4>8
    <3>2. ASSUME NEW i \in Items, Save(s, i)  PROVE left'[s] = left[s] \ {i}
      BY <3>2 DEF Save, TypeOK
    <3>3. CASE Download(s) \/ SaveFails(s) \/ TaskEnds(s)
      BY <3>3 DEF Download, SaveFails, TaskEnds
    <3> HIDE DEF Good
    <3> QED BY <1>3, <3>1, <3>2, <3>3 DEF Task
  <2>6. \A u \in Sources : Fine(u)'
    <3> SUFFICES ASSUME NEW u \in Sources  PROVE Fine(u)'
      OBVIOUS
    <3>1. /\ task'[u] = "none" => deps'[u] = {}
          /\ task'[u] = "ok" => left'[u] = {}
      BY <2>1, <2>3
    <3>2. \A i \in deps'[u] \ left'[u] : Good(i, files'[Goes(i)])
      BY <2>1, <2>4, <2>5
    <3>3. \A i : Goes(i)' = Goes(i) /\ MayBeEmpty(i)' = MayBeEmpty(i)
      BY <1>0, <2>0
    <3> QED BY <3>1, <3>2, <3>3
  <2>7. \A u \in Sources : Kind[u] \in Past[stage] => Through(u)'
    BY <2>1, <2>2, <2>3
  <2> HIDE DEF Fine, Through
  <2>8. \A u \in Sources : Fine(u)' /\ (Kind[u] \in Past[stage'] => Through(u)')
    BY <2>1, <2>6, <2>7
  <2> QED BY <2>8 DEF TaskInv, Fine, Through, Good
<1>4. ASSUME NEW s \in Sources, Task(s)  PROVE stage \in Kinds
  BY <1>4 DEF Task, Download, Save, SaveFails, TaskEnds, FetchAssumption
<1>5. CASE \/ \E given \in SUBSET Flags, objs \in SUBSET Targets : Plan(given, objs)
           \/ Raises \/ Abort
  BY <1>5 DEF Plan, Raises, Abort, TaskInv, Kinds
<1>6. CASE Ended \/ UNCHANGED vars
  <2>1. UNCHANGED <<planning, stage, deps, left, task, files>>
    BY <1>6 DEF Ended, vars
  <2> QED BY <1>0, <2>1 DEF TaskInv
<1> HIDE DEF planning, grouping, tasks, Fine, Through
<1> QED BY <1>1, <1>2, <1>3, <1>4, <1>5, <1>6 DEF Next, Parent

LEMMA NowhereStep ==
  ASSUME FetchAssumption, TypeOK, GroupInv, PlanInv, HeadInv, JoinsInv, NowhereElse,
         [Next]_vars, TypeOK'
  PROVE  NowhereElse'
<1> SUFFICES ASSUME NEW p \in DOMAIN files, p[2] # 1, files'[p] # Absent
             PROVE  \E i \in Items : ToVisit(Owner[i])' /\ p = Goes(i)'
  BY DEF NowhereElse, TypeOK
<1>1. ASSUME UNCHANGED planning, NEW i
      PROVE  ToVisit(Owner[i])' = ToVisit(Owner[i]) /\ Goes(i)' = Goes(i)
  BY <1>1 DEF Goes, ToVisit, PlaceAfter, Visits, Fetching, Forcing, planning
<1>2. ASSUME files'[p] = files[p], NEW given \in SUBSET Flags, NEW objs \in SUBSET Targets,
             Plan(given, objs)
      PROVE  FALSE
  BY <1>2 DEF Plan, PlanInv
<1>3. CASE files'[p] = files[p]
  <2>1. UNCHANGED planning
    BY <1>2, <1>3, Planned
  <2>2. PICK i \in Items : ToVisit(Owner[i]) /\ p = Goes(i)
    BY <1>3 DEF NowhereElse
  <2> QED BY <1>1, <2>1, <2>2
<1>4. ASSUME NEW i \in Items, p = Place(i), ToVisit(Owner[i]), stage \in Kinds, UNCHANGED planning
      PROVE  ToVisit(Owner[i])' /\ p = Goes(i)'
  BY <1>1, <1>4, PlaceIsGoes
<1> QED BY <1>3, <1>4, FileStep

LEMMA StoredIsThere ==
  ASSUME FetchAssumption, Stored  PROVE StoredAtPath
<1>1. ASSUME stage = "done", NEW i \in Items, ToFetch(i)
      PROVE  \E j \in Twins(i) :
               /\ files[Goes(j)] # Absent
               /\ files[Goes(j)] = Empty => j \in Ignored \/ (Kind[Source[j]] = "helm" /\ ~ force)
  <2>1. Owner[i] \in Targets /\ ToVisit(Owner[i])
    BY <1>1, ToFetchIsToVisit DEF FetchAssumption
  <2>2. PICK s \in Sources : \E j \in deps[s] : Path[j] = Path[i] /\ Uri[s] = Uri[Source[i]]
    BY <1>1, <2>1 DEF Stored, ListedInv, JoinsInv
  <2>3. PICK j \in deps[s] : Path[j] = Path[i] /\ Uri[s] = Uri[Source[i]]
    BY <2>2
  <2>4. j \in Items /\ Source[j] = s /\ ToVisit(Owner[j])
    BY <2>3 DEF Stored, IInv, GroupInv, TypeOK
  <2>5. j \in Twins(i)
    BY <2>3, <2>4, ToFetchIsToVisit DEF Twins
  <2>6. task[s] \in {"none", "ok"}
    BY <1>1 DEF Stored, TaskInv, Past, FetchAssumption
  <2>7. j \in deps[s] \ left[s]
    BY <1>1, <2>3, <2>6 DEF Stored, TaskInv
  <2>8. files[Goes(j)] # Absent /\ (files[Goes(j)] = Empty => MayBeEmpty(j))
    BY <1>1, <2>7 DEF Stored, TaskInv
  <2> QED BY <2>5, <2>8 DEF MayBeEmpty
<1>2. \A p \in DOMAIN files : p[2] # 1 /\ files[p] # Absent =>
        \E i \in Items : ToFetch(i) /\ p = Goes(i)
  BY ToFetchIsToVisit DEF Stored, NowhereElse
<1> QED BY <1>1, <1>2 DEF StoredAtPath

-----------------------------------------------------------------------------
(* The theorems *)

LEMMA InvInit ==
  ASSUME FetchAssumption, Init  PROVE IInv
<1>1. TypeOK
  BY TypeInit
<1>2. GroupInv /\ HeadInv
  BY DEF Init, GroupInv, HeadInv
<1>3. PlanInv
  BY DEF Init, PlanInv, Kinds
<1>4. RightRevision
  BY DEF Init, RightRevision
<1> QED BY <1>1, <1>2, <1>3, <1>4 DEF IInv

LEMMA InvStep ==
  ASSUME FetchAssumption, IInv, [Next]_vars  PROVE IInv'
BY TypeStep, GroupStep, PlanStep, HeadStep, RightStep DEF IInv

LEMMA StoredInit ==
  ASSUME FetchAssumption, Init  PROVE Stored
<1>1. IInv
  BY InvInit
<1>2. JoinsInv /\ ListedInv /\ TaskInv
  BY DEF Init, JoinsInv, ListedInv, TaskInv, Kinds
<1>3. NowhereElse
  BY DEF Init, NowhereElse
<1> QED BY <1>1, <1>2, <1>3 DEF Stored

LEMMA StoredStep ==
  ASSUME FetchAssumption, Stored, [Next]_vars  PROVE Stored'
BY InvStep, JoinsStep, ListedStep, TaskStep, NowhereStep DEF Stored, IInv

\* Every state of the fetch phase is well-typed.
THEOREM TypeCorrect ==
  ASSUME FetchAssumption  PROVE Spec => []TypeOK
<1>1. Init => IInv
  BY InvInit
<1>2. IInv /\ [Next]_vars => IInv'
  BY InvStep
<1>3. IInv => TypeOK
  BY DEF IInv
<1> QED BY <1>1, <1>2, <1>3, PTL DEF Spec

\* What is saved at a path is a revision that a dependency of a selected target asks
\* for there, or the default branch, in whichever order a source's dependencies are
\* checked out; of a source without a default branch, any that one of them asks for.
THEOREM RightRevisionHolds ==
  ASSUME FetchAssumption  PROVE Spec => []RightRevision
<1>1. Init => IInv
  BY InvInit
<1>2. IInv /\ [Next]_vars => IInv'
  BY InvStep
<1>3. IInv => RightRevision
  BY DEF IInv
<1> QED BY <1>1, <1>2, <1>3, PTL DEF Spec

\* A file of the user's own is overwritten only where that was asked for.
THEOREM OverwritesAreForcedHolds ==
  ASSUME FetchAssumption  PROVE Spec => OverwritesAreForced
<1>1. Init => IInv
  BY InvInit
<1>2. IInv /\ [Next]_vars => IInv'
  BY InvStep
<1>3. IInv /\ [Next]_vars
        => [\A p \in DOMAIN files : files[p] = Local /\ files'[p] # Local => AskedFor(p)]_vars
  BY OverwriteStep
<1> QED BY <1>1, <1>2, <1>3, PTL DEF Spec, OverwritesAreForced

\* When fetching has ended well, everything that was to be fetched is at its place, or
\* one with its source and path is; nothing is anywhere else; and only a chart whose
\* directory was there or a download of another type is left with an empty directory.
THEOREM StoredAtPathHolds ==
  ASSUME FetchAssumption  PROVE Spec => []StoredAtPath
<1>1. Init => Stored
  BY StoredInit
<1>2. Stored /\ [Next]_vars => Stored'
  BY StoredStep
<1>3. Stored => StoredAtPath
  BY StoredIsThere
<1> QED BY <1>1, <1>2, <1>3, PTL DEF Spec

-----------------------------------------------------------------------------
(* The helm tasks of one repository, which Fetch takes as a whole *)

\* What is unpacked belongs to the one task that is about to rename it.
OneUnpacks ==
  /\ \A s \in Tasks : pc[s] = "rename" => unpacked[Chart[s]] = Version[s]
  /\ \A s, u \in Tasks :
       pc[s] = "rename" /\ pc[u] = "rename" /\ Chart[s] = Chart[u] => s = u

\* What is about to be copied is there.
Copyable == \A s \in Tasks : pc[s] = "copy" => cached[CachedPath(s)] = Version[s]

HelmInv == HelmTypeOK /\ OneUnpacks /\ Copyable

-----------------------------------------------------------------------------
LEMMA DirectoryType ==
  ASSUME HelmAssumption, NEW s \in Tasks
  PROVE  /\ CachedPath(s) \in Charts \X Versions /\ CachedPath(s)[2] = Version[s]
         /\ Chart[s] \in Charts /\ Version[s] \in Versions /\ Version[s] # NoChart
BY DEF HelmAssumption, CachedPath

LEMMA HelmInvInit ==
  ASSUME HelmAssumption, HelmInit  PROVE HelmInv
BY DEF HelmInit, HelmInv, HelmTypeOK, OneUnpacks, Copyable

LEMMA HelmStartStep ==
  ASSUME HelmInv, NEW s \in Tasks, Start(s)  PROVE HelmInv'
BY DEF Start, Goto, HelmInv, HelmTypeOK, OneUnpacks, Copyable, CachedPath

\* A directory that is there under the chart's name and version has that version.
LEMMA HelmLookupStep ==
  ASSUME HelmAssumption, HelmInv, NEW s \in Tasks, Lookup(s)  PROVE HelmInv'
<1>1. cached[CachedPath(s)] # NoChart => cached[CachedPath(s)] = Version[s]
  BY DirectoryType DEF HelmInv, HelmTypeOK
<1> QED BY <1>1 DEF Lookup, Goto, HelmInv, HelmTypeOK, OneUnpacks, Copyable, CachedPath

\* helm does not unpack over a directory, so nobody else is to rename it.
LEMMA HelmPullStep ==
  ASSUME HelmAssumption, HelmInv, NEW s \in Tasks, Pull(s)  PROVE HelmInv'
<1>1. CASE pc' = [pc EXCEPT ![s] = "error"] /\ UNCHANGED unpacked
  BY <1>1 DEF Pull, HelmInv, HelmTypeOK, OneUnpacks, Copyable, CachedPath
<1>2. CASE /\ unpacked[Chart[s]] = NoChart
           /\ unpacked' = [unpacked EXCEPT ![Chart[s]] = Version[s]]
           /\ pc' = [pc EXCEPT ![s] = "rename"]
  <2>1. HelmTypeOK'
    BY <1>2, DirectoryType DEF Pull, HelmInv, HelmTypeOK
  <2>2. \A u \in Tasks : pc[u] = "rename" => Chart[u] # Chart[s]
    BY <1>2, DirectoryType DEF HelmInv, OneUnpacks
  <2>3. OneUnpacks'
    BY <1>2, <2>2, DirectoryType DEF HelmInv, HelmTypeOK, OneUnpacks
  <2>4. Copyable'
    BY <1>2 DEF Pull, HelmInv, HelmTypeOK, Copyable, CachedPath
  <2> QED BY <2>1, <2>3, <2>4 DEF HelmInv
<1> QED BY <1>1, <1>2 DEF Pull, Goto

LEMMA HelmRenameStep ==
  ASSUME HelmAssumption, HelmInv, NEW s \in Tasks, Rename(s)  PROVE HelmInv'
<1>1. CASE pc' = [pc EXCEPT ![s] = "error"] /\ UNCHANGED <<cached, unpacked>>
  BY <1>1 DEF Rename, HelmInv, HelmTypeOK, OneUnpacks, Copyable, CachedPath
<1>2. CASE /\ cached' = [cached EXCEPT ![CachedPath(s)] = unpacked[Chart[s]]]
           /\ unpacked' = [unpacked EXCEPT ![Chart[s]] = NoChart]
           /\ pc' = [pc EXCEPT ![s] = "copy"]
  <2>1. pc[s] = "rename" /\ UNCHANGED saved
    BY DEF Rename
  <2>2. unpacked[Chart[s]] = Version[s]
    BY <2>1 DEF HelmInv, OneUnpacks
  <2>3. cached' = [cached EXCEPT ![CachedPath(s)] = Version[s]]
    BY <1>2, <2>2
  <2>4. HelmTypeOK'
    BY <1>2, <2>1, <2>3, DirectoryType DEF HelmInv, HelmTypeOK
  <2>5. \A u \in Tasks \ {s} : pc[u] = "rename" => Chart[u] # Chart[s]
    BY <2>1 DEF HelmInv, OneUnpacks
  <2>6. OneUnpacks'
    BY <1>2, <2>5, DirectoryType DEF HelmInv, HelmTypeOK, OneUnpacks
  <2>7. Copyable'
    <3>1. \A u \in Tasks :
            cached'[CachedPath(u)] = IF CachedPath(u) = CachedPath(s) THEN Version[s]
                                     ELSE cached[CachedPath(u)]
      BY <2>3, DirectoryType DEF HelmInv, HelmTypeOK
    <3>2. \A u \in Tasks : CachedPath(u) = CachedPath(s) => Version[u] = Version[s]
      BY DEF CachedPath
    <3>3. \A u \in Tasks : pc'[u] = "copy" => u = s \/ pc[u] = "copy"
      BY <1>2 DEF HelmInv, HelmTypeOK
    <3> QED BY <3>1, <3>2, <3>3 DEF Copyable, HelmInv, CachedPath
  <2> QED BY <2>4, <2>6, <2>7 DEF HelmInv
<1> QED BY <1>1, <1>2 DEF Rename, Goto

LEMMA HelmCopyStep ==
  ASSUME HelmAssumption, HelmInv, NEW s \in Tasks, Copy(s)  PROVE HelmInv'
<1>1. cached[CachedPath(s)] \in Versions \cup {NoChart}
  BY DirectoryType DEF HelmInv, HelmTypeOK
<1> QED BY <1>1 DEF Copy, Goto, HelmInv, HelmTypeOK, OneUnpacks, Copyable, CachedPath

\* Every step keeps the invariant, and saves what its task asks for.
LEMMA HelmInvStep ==
  ASSUME HelmAssumption, HelmInv, [HelmNext]_helmVars
  PROVE  HelmInv'
<1>1. CASE UNCHANGED helmVars
  BY <1>1 DEF helmVars, HelmInv, HelmTypeOK, OneUnpacks, Copyable, CachedPath
<1>2. CASE PoolOver
  BY <1>2, <1>1 DEF PoolOver
<1> QED
  BY <1>1, <1>2, HelmStartStep, HelmLookupStep, HelmPullStep, HelmRenameStep, HelmCopyStep
  DEF HelmNext

LEMMA SavedStep ==
  ASSUME HelmAssumption, HelmInv, [HelmNext]_helmVars
  PROVE  [\A s \in Tasks : saved'[s] # saved[s] => saved'[s] = Version[s]]_helmVars
<1>1. ASSUME NEW s \in Tasks, Copy(s), NEW u \in Tasks, saved'[u] # saved[u]
      PROVE  saved'[u] = Version[u]
  <2>1. u = s /\ saved'[u] = cached[CachedPath(s)]
    BY <1>1 DEF Copy, HelmInv, HelmTypeOK
  <2>2. cached[CachedPath(s)] = Version[s]
    BY <1>1 DEF Copy, HelmInv, Copyable
  <2> QED BY <2>1, <2>2
<1>2. ASSUME NEW s \in Tasks, Start(s) \/ Lookup(s) \/ Pull(s) \/ Rename(s)
      PROVE  saved' = saved
  BY <1>2 DEF Start, Lookup, Pull, Rename
<1>3. CASE PoolOver \/ UNCHANGED helmVars
  BY <1>3 DEF PoolOver, helmVars
<1> QED BY <1>1, <1>2, <1>3 DEF HelmNext

-----------------------------------------------------------------------------
\* Every state of the helm tasks of a repository is well-typed, and a directory of a
\* chart and version never holds another version.
THEOREM HelmTypeCorrect ==
  ASSUME HelmAssumption  PROVE HelmSpec => []HelmTypeOK
<1>1. HelmInit => HelmInv
  BY HelmInvInit
<1>2. HelmInv /\ [HelmNext]_helmVars => HelmInv'
  BY HelmInvStep
<1>3. HelmInv => HelmTypeOK
  BY DEF HelmInv
<1> QED BY <1>1, <1>2, <1>3, PTL DEF HelmSpec

\* A chart that is saved is the version its dependency asks for, however many tasks
\* fetch versions of that chart at a time.
THEOREM SavedAsAskedHolds ==
  ASSUME HelmAssumption  PROVE HelmSpec => SavedAsAsked
<1>1. HelmInit => HelmInv
  BY HelmInvInit
<1>2. HelmInv /\ [HelmNext]_helmVars => HelmInv'
  BY HelmInvStep
<1>3. HelmInv /\ [HelmNext]_helmVars
        => [\A s \in Tasks : saved'[s] # saved[s] => saved'[s] = Version[s]]_helmVars
  BY SavedStep
<1> QED BY <1>1, <1>2, <1>3, PTL DEF HelmSpec, SavedAsAsked
=============================================================================
