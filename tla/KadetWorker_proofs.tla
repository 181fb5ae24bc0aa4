------------------------- MODULE KadetWorker_proofs -------------------------
(***************************************************************************)
(* Proofs about KadetWorker for every set of targets, topics, components   *)
(* and workers, every inventory, and every number of runs and edits.       *)
(***************************************************************************)
EXTENDS KadetWorker, TLAPS

-----------------------------------------------------------------------------
(* The inductive invariant, in parts *)

\* The memos of the workers are functions.
Shape ==
  /\ digest = [w \in Workers |-> digest[w]]
  /\ hashed = [w \in Workers |-> hashed[w]]
  /\ missed = [w \in Workers |-> missed[w]]

\* Between runs there is no pool and nothing of the last run is looked at.
Quiet ==
  phase = "editing" =>
    /\ published = {}
    /\ current = [w \in Workers |-> None]
    /\ missed = [w \in Workers |-> None]
    /\ box = [w \in Workers |-> None]
    /\ digest = [w \in Workers |-> NoMemo]
    /\ hashed = [w \in Workers |-> NoMemo]

\* A chart's flags are its own, the defaults, or those of a kadet chart that was
\* rendered before.
FlagsCaused(c, fs, earlier) ==
  \A f \in FlagNames :
    fs[f] # Overlaid(Program[c].flags, DefaultFlags)[f] =>
      \E d \in earlier :
        /\ Program[d].kind = "kadet" /\ Program[d].chart
        /\ f \in DOMAIN Program[d].flags /\ Program[d].flags[f] = fs[f]

\* HELM_DEFAULT_FLAGS of a process differ from the defaults only as charts rendered
\* in it have set them.
FlagsInv ==
  \A w \in Workers, f \in FlagNames :
    flags[w][f] # DefaultFlags[f] =>
      \E d \in before[w] :
        /\ Program[d].kind = "kadet" /\ Program[d].chart
        /\ f \in DOMAIN Program[d].flags /\ Program[d].flags[f] = flags[w][f]

\* A lazy box was asked for in this process, in a run without --cache.
BoxInv ==
  \A w \in Workers : box[w] = "lazy" =>
    /\ ~ useCache
    /\ \E d \in before[w] : Program[d].reads = "lazy"

\* What a process remembers of inventory and files is what they are.
MemoInv ==
  \A w \in Workers :
    /\ \A t \in DOMAIN digest[w] : digest[w][t] = inv[t]
    /\ \A c \in DOMAIN hashed[w] : c \in raced \/ hashed[w][c] = source[c].text

\* An output agrees with the key it is stored under.
Agrees(k, out) ==
  /\ out.own # "empty"
  /\ out.own = "set" => k.own.key = "set"
  /\ DOMAIN out.views \subseteq DOMAIN k.topics
  /\ \A n \in DOMAIN out.views : out.views[n] = k.topics[n]
  /\ k.comp \in raced \/ out.text = k.text
  /\ Program[k.comp].chart => FlagsCaused(k.comp, out.flags, out.after)

StoreInv == \A e \in store : Agrees(e.key, e.out)

\* The key of a component at hand that was not found.
MissedInv ==
  \A w \in Workers : missed[w] # None =>
    /\ phase = "running" /\ useCache
    /\ box[w] = "strict"
    /\ current[w] \in Targets /\ done[w] < Len(Inputs[current[w]])
    /\ missed[w].own = inv[current[w]]
    /\ missed[w].topics = TopicsDigest(current[w])
    /\ missed[w].comp = Inputs[current[w]][done[w] + 1]
    /\ missed[w].comp \in raced \/ missed[w].text = source[missed[w].comp].text

\* What is published: the properties, for one output.
Good(p) ==
  /\ p.comp \in raced \/ p.out.text = source[p.comp].text
  /\ p.out.own = "set" => inv[p.target].key = "set"
  /\ p.out.own = "empty" =>
       /\ inv[p.target].key = None /\ ~ useCache
       /\ \E d \in p.out.after \cup {p.comp} : Program[d].reads = "lazy"
  /\ DOMAIN p.out.views \subseteq inv[p.target].consume
  /\ \A n \in DOMAIN p.out.views : p.out.views[n] = TopicView(n)
  /\ Program[p.comp].chart => FlagsCaused(p.comp, p.out.flags, p.out.after)

PublishedInv == \A p \in published : Good(p)

IInv ==
  /\ TypeOK /\ Shape /\ Quiet /\ FlagsInv /\ BoxInv /\ MemoInv /\ StoreInv /\ MissedInv
  /\ PublishedInv

-----------------------------------------------------------------------------
(* Types *)

LEMMA DefaultsAreFlags ==
  ASSUME WorkerAssumption  PROVE DefaultFlags \in Flags
BY DEF WorkerAssumption, Flags, FlagValues

LEMMA ChartFlagsType ==
  ASSUME WorkerAssumption, NEW w \in Workers, NEW c \in Components, flags[w] \in Flags
  PROVE  ChartFlags(w, c) \in Flags
<1>1. ASSUME NEW f \in FlagNames PROVE ChartFlags(w, c)[f] \in FlagValues
  <2>1. CASE f \in DOMAIN Program[c].flags
    BY <2>1 DEF ChartFlags, Overlaid, FlagValues
  <2>2. CASE f \notin DOMAIN Program[c].flags
    BY <2>2 DEF ChartFlags, Overlaid, Flags
  <2> QED BY <2>1, <2>2
<1> QED BY <1>1 DEF ChartFlags, Overlaid, Flags

LEMMA EditedType ==
  ASSUME inv \in [Targets -> TargetInv], NEW t \in Targets, NEW new \in EditedTarget(t)
  PROVE  new \in TargetInv
<1>1. CASE \E k \in {"set", None} : new = [inv[t] EXCEPT !.key = k]
  BY <1>1 DEF TargetInv
<1>2. CASE \E s \in SUBSET Topics : new = [inv[t] EXCEPT !.consume = s]
  BY <1>2 DEF TargetInv
<1>3. CASE \E n \in Topics, v \in Params \cup {None} : new = [inv[t] EXCEPT !.gives[n] = v]
  BY <1>3 DEF TargetInv
<1> QED BY <1>1, <1>2, <1>3 DEF EditedTarget

LEMMA TypeInit ==
  ASSUME WorkerAssumption, Init  PROVE TypeOK
<1>1. FirstVersion \in Versions
  BY DEF WorkerAssumption, FirstVersion
<1>2. source \in [Components -> [text : Versions, names : Versions]]
  BY <1>1 DEF Init
<1>3. inv \in [Targets -> TargetInv]
  BY DEF Init, WorkerAssumption
<1>4. flags \in [Workers -> Flags]
  BY DefaultsAreFlags DEF Init
<1>5. runs \in 0..MaxRuns /\ edits \in 0..MaxEdits
  BY DEF Init, WorkerAssumption
<1> QED BY <1>2, <1>3, <1>4, <1>5 DEF Init, TypeOK

LEMMA Counted ==
  ASSUME NEW d \in [Workers -> Nat], NEW w \in Workers
  PROVE  [d EXCEPT ![w] = @ + 1] \in [Workers -> Nat]
OBVIOUS

LEMMA TypeStep ==
  ASSUME WorkerAssumption, TypeOK, [Next]_vars
  PROVE  TypeOK'
<1> USE DEF TypeOK, user, memo, run
<1>1. ASSUME NEW b \in BOOLEAN, StartRun(b)  PROVE TypeOK'
  BY <1>1 DEF StartRun, WorkerAssumption
<1>2. ASSUME NEW w \in Workers, NEW t \in Targets, TakeTarget(w, t)  PROVE TypeOK'
  BY <1>2 DEF TakeTarget
<1>3. ASSUME NEW w \in Workers, NEW t \in Targets, FinishTarget(w, t)  PROVE TypeOK'
  BY <1>3 DEF FinishTarget
<1>4. ASSUME NEW w \in Workers, NEW t \in Targets, NEW c \in Components, Lookup(w, t, c)
      PROVE  TypeOK'
  <2>1. /\ box' \in [Workers -> {None, "strict", "lazy"}]
        /\ UNCHANGED <<inv, source, phase, useCache, todo, current, flags, failed, runs, edits,
                       before, raced>>
    BY <1>4 DEF Lookup, BoxFor
  <2>2. done' \in [Workers -> Nat]
    <3>1. done' = [done EXCEPT ![w] = @ + 1] \/ done' = done
      BY <1>4 DEF Lookup
    <3>2. done \in [Workers -> Nat]
      OBVIOUS
    <3> HIDE DEF TypeOK
    <3> QED BY <3>1, <3>2, Counted
  <2> QED BY <2>1, <2>2
<1>5. ASSUME NEW w \in Workers, NEW t \in Targets, NEW c \in Components, Evaluate(w, t, c)
      PROVE  TypeOK'
  <2>1. FlagsAfter(w, c) \in Flags
    BY ChartFlagsType DEF FlagsAfter
  <2>2. BoxAfter(w, c) \in {None, "strict", "lazy"}
    BY DEF BoxAfter, BoxFor
  <2>3. flags' \in [Workers -> Flags]
    BY <1>5, <2>1 DEF Evaluate
  <2>4. box' \in [Workers -> {None, "strict", "lazy"}]
    BY <1>5, <2>2 DEF Evaluate
  <2>5. done' \in [Workers -> Nat]
    <3>1. done' = [done EXCEPT ![w] = @ + 1]
      BY <1>5 DEF Evaluate
    <3>2. done \in [Workers -> Nat]
      OBVIOUS
    <3> HIDE DEF TypeOK
    <3> QED BY <3>1, <3>2, Counted
  <2>6. before' \in [Workers -> SUBSET Components]
    <3>1. before' = [before EXCEPT ![w] = before[w] \cup {c}]
      BY <1>5 DEF Evaluate
    <3> QED BY <3>1
  <2>7. UNCHANGED <<inv, source, phase, useCache, todo, current, failed, runs, edits, raced>>
    BY <1>5 DEF Evaluate
  <2> QED BY <2>3, <2>4, <2>5, <2>6, <2>7
<1>6. ASSUME NEW w \in Workers, NEW t \in Targets, NEW c \in Components,
             EvaluateFails(w, t, c)
      PROVE  TypeOK'
  <2>1. FlagsAfter(w, c) \in Flags
    BY ChartFlagsType DEF FlagsAfter
  <2>2. BoxAfter(w, c) \in {None, "strict", "lazy"}
    BY DEF BoxAfter, BoxFor
  <2>3. flags' \in [Workers -> Flags]
    BY <1>6, <2>1 DEF EvaluateFails
  <2>4. box' \in [Workers -> {None, "strict", "lazy"}]
    BY <1>6, <2>2 DEF EvaluateFails
  <2>5. done' \in [Workers -> Nat]
    <3>1. done \in [Workers -> Nat]
      OBVIOUS
    <3> HIDE DEF TypeOK
    <3>2. CASE done' = [done EXCEPT ![w] = 0]
      BY <3>1, <3>2
    <3>3. CASE done' = [done EXCEPT ![w] = @ + 1]
      BY <3>1, <3>3, Counted
    <3> QED BY <1>6, <3>2, <3>3 DEF EvaluateFails
  <2>6. before' \in [Workers -> SUBSET Components]
    <3>1. before' = [before EXCEPT ![w] = before[w] \cup {c}]
      BY <1>6 DEF EvaluateFails
    <3> QED BY <3>1
  <2>7. /\ UNCHANGED <<inv, source, phase, useCache, todo, runs, edits, raced>>
        /\ failed' \in BOOLEAN /\ current' \in [Workers -> Targets \cup {None}]
    BY <1>6 DEF EvaluateFails
  <2> QED BY <2>3, <2>4, <2>5, <2>6, <2>7
<1>7. ASSUME EndRun  PROVE TypeOK'
  BY <1>7, DefaultsAreFlags DEF EndRun, FreshWorkers
<1>8. ASSUME NEW t \in Targets, EditInventory(t)  PROVE TypeOK'
  <2>1. inv' \in [Targets -> TargetInv]
    <3>1. PICK new \in EditedTarget(t) : inv' = [inv EXCEPT ![t] = new]
      BY <1>8 DEF EditInventory
    <3>2. new \in TargetInv
      BY EditedType
    <3> QED BY <3>1, <3>2
  <2> QED BY <1>8, <2>1 DEF EditInventory, WorkerAssumption
<1>9. ASSUME NEW c \in Components, EditSource(c)  PROVE TypeOK'
  <2>1. source' \in [Components -> [text : Versions, names : Versions]]
    <3>1. PICK new \in EditedSource(c) : source' = [source EXCEPT ![c] = new]
      BY <1>9 DEF EditSource
    <3>2. new \in [text : Versions, names : Versions]
      <4>1. source[c] \in [text : Versions, names : Versions]
        OBVIOUS
      <4>2. CASE \E v \in Versions : new = [source[c] EXCEPT !.text = v]
        BY <4>1, <4>2
      <4>3. CASE \E v \in Versions : new = [source[c] EXCEPT !.names = v]
        BY <4>1, <4>3
      <4> QED BY <4>2, <4>3 DEF EditedSource
    <3> QED BY <3>1, <3>2
  <2> QED BY <1>9, <2>1 DEF EditSource, WorkerAssumption
<1>10. CASE UNCHANGED vars
  BY <1>10 DEF vars
<1> HIDE DEF TypeOK, user, memo, run
<1> QED BY <1>1, <1>2, <1>3, <1>4, <1>5, <1>6, <1>7, <1>8, <1>9, <1>10 DEF Next

\* Every value has its type, for every inventory and pool.
THEOREM TypeCorrect == ASSUME WorkerAssumption PROVE Spec => []TypeOK
<1>1. Init => TypeOK
  BY TypeInit
<1>2. TypeOK /\ [Next]_vars => TypeOK'
  BY TypeStep
<1> QED BY <1>1, <1>2, PTL DEF Spec

-----------------------------------------------------------------------------
(* What a process remembers *)

LEMMA ShapeStep ==
  ASSUME Shape, [Next]_vars
  PROVE  Shape'
<1> USE DEF Shape, user, memo, run
<1>1. ASSUME NEW w \in Workers, NEW t \in Targets, NEW c \in Components, Lookup(w, t, c)
      PROVE  Shape'
  BY <1>1 DEF Lookup
<1>2. ASSUME NEW w \in Workers, NEW t \in Targets, NEW c \in Components,
             Evaluate(w, t, c) \/ EvaluateFails(w, t, c)
      PROVE  Shape'
  BY <1>2 DEF Evaluate, EvaluateFails
<1>3. ASSUME EndRun  PROVE Shape'
  BY <1>3 DEF EndRun, FreshWorkers
<1>4. CASE UNCHANGED <<digest, hashed, missed>>
  BY <1>4
<1>5. ASSUME NEW w \in Workers, NEW t \in Targets, TakeTarget(w, t) \/ FinishTarget(w, t)
      PROVE  UNCHANGED <<digest, hashed, missed>>
  BY <1>5 DEF TakeTarget, FinishTarget
<1>6. ASSUME NEW b \in BOOLEAN, StartRun(b)  PROVE UNCHANGED <<digest, hashed, missed>>
  BY <1>6 DEF StartRun
<1>7. ASSUME NEW t \in Targets, EditInventory(t)  PROVE UNCHANGED <<digest, hashed, missed>>
  BY <1>7 DEF EditInventory
<1>8. ASSUME NEW c \in Components, EditSource(c)  PROVE UNCHANGED <<digest, hashed, missed>>
  BY <1>8 DEF EditSource
<1>9. CASE UNCHANGED vars
  BY <1>9 DEF vars
<1> HIDE DEF Shape, user, memo, run
<1> QED BY <1>1, <1>2, <1>3, <1>4, <1>5, <1>6, <1>7, <1>8, <1>9 DEF Next

LEMMA QuietStep ==
  ASSUME TypeOK, Quiet, [Next]_vars
  PROVE  Quiet'
<1> USE DEF Quiet, user, memo, run
<1>1. ASSUME NEW b \in BOOLEAN, StartRun(b)  PROVE Quiet'
  BY <1>1 DEF StartRun
<1>2. ASSUME NEW w \in Workers, NEW t \in Targets, TakeTarget(w, t)  PROVE Quiet'
  BY <1>2 DEF TakeTarget
<1>3. ASSUME NEW w \in Workers, NEW t \in Targets, FinishTarget(w, t)  PROVE Quiet'
  BY <1>3 DEF FinishTarget, TypeOK
<1>4. ASSUME NEW w \in Workers, NEW t \in Targets, NEW c \in Components, Lookup(w, t, c)
      PROVE  Quiet'
  BY <1>4 DEF Lookup, AtComponent
<1>5. ASSUME NEW w \in Workers, NEW t \in Targets, NEW c \in Components,
             Evaluate(w, t, c) \/ EvaluateFails(w, t, c)
      PROVE  Quiet'
  BY <1>5 DEF Evaluate, EvaluateFails, ToEvaluate, AtComponent
<1>6. ASSUME EndRun  PROVE Quiet'
  BY <1>6 DEF EndRun, FreshWorkers
<1>7. ASSUME NEW t \in Targets, EditInventory(t)  PROVE Quiet'
  BY <1>7 DEF EditInventory
<1>8. ASSUME NEW c \in Components, EditSource(c)  PROVE Quiet'
  BY <1>8 DEF EditSource
<1>9. CASE UNCHANGED vars
  BY <1>9 DEF vars
<1> HIDE DEF Quiet, user, memo, run
<1> QED BY <1>1, <1>2, <1>3, <1>4, <1>5, <1>6, <1>7, <1>8, <1>9 DEF Next

\* A kadet chart leaves its own flags, or what was there before.
LEMMA FlagsAfterCaused ==
  ASSUME WorkerAssumption, TypeOK, FlagsInv, NEW w \in Workers, NEW c \in Components,
         NEW f \in FlagNames, FlagsAfter(w, c)[f] # DefaultFlags[f]
  PROVE  \E d \in before[w] \cup {c} :
           /\ Program[d].kind = "kadet" /\ Program[d].chart
           /\ f \in DOMAIN Program[d].flags /\ Program[d].flags[f] = FlagsAfter(w, c)[f]
<1>1. CASE Program[c].kind = "kadet" /\ Program[c].chart /\ f \in DOMAIN Program[c].flags
  BY <1>1 DEF FlagsAfter, ChartFlags, Overlaid
<1>2. CASE ~ (Program[c].kind = "kadet" /\ Program[c].chart /\ f \in DOMAIN Program[c].flags)
  <2>1. FlagsAfter(w, c)[f] = flags[w][f]
    BY <1>2 DEF FlagsAfter, ChartFlags, Overlaid
  <2> QED BY <2>1 DEF FlagsInv
<1> QED BY <1>1, <1>2

LEMMA FlagsStep ==
  ASSUME WorkerAssumption, TypeOK, FlagsInv, [Next]_vars
  PROVE  FlagsInv'
<1> USE DEF user, memo, run
<1>1. ASSUME NEW w \in Workers, NEW t \in Targets, NEW c \in Components,
             Evaluate(w, t, c) \/ EvaluateFails(w, t, c)
      PROVE  FlagsInv'
  <2>1. PICK own \in {flags[w], FlagsAfter(w, c)} :
        /\ flags' = [flags EXCEPT ![w] = own]
        /\ before' = [before EXCEPT ![w] = @ \cup {c}]
    BY <1>1 DEF Evaluate, EvaluateFails
  <2>2. ASSUME NEW v \in Workers, NEW f \in FlagNames, flags'[v][f] # DefaultFlags[f]
        PROVE  \E d \in before'[v] :
                 /\ Program[d].kind = "kadet" /\ Program[d].chart
                 /\ f \in DOMAIN Program[d].flags /\ Program[d].flags[f] = flags'[v][f]
    <3>1. CASE v = w
      <4>1. flags'[v] = own /\ before'[v] = before[w] \cup {c}
        BY <2>1, <3>1 DEF TypeOK
      <4>2. CASE own = flags[w]
        BY <2>2, <3>1, <4>1, <4>2 DEF FlagsInv
      <4>3. CASE own = FlagsAfter(w, c)
        BY <2>2, <4>1, <4>3, FlagsAfterCaused
      <4> QED BY <4>2, <4>3
    <3>2. CASE v # w
      <4>1. flags'[v] = flags[v] /\ before'[v] = before[v]
        BY <2>1, <3>2 DEF TypeOK
      <4> QED BY <2>2, <4>1 DEF FlagsInv
    <3> QED BY <3>1, <3>2
  <2> QED BY <2>2 DEF FlagsInv
<1>3. ASSUME EndRun  PROVE FlagsInv'
  BY <1>3 DEF EndRun, FreshWorkers, FlagsInv
<1>4. CASE UNCHANGED <<flags, before>>
  BY <1>4 DEF FlagsInv
<1>5. ASSUME NEW w \in Workers, NEW t \in Targets,
             \/ TakeTarget(w, t) \/ FinishTarget(w, t)
             \/ \E c \in Components : Lookup(w, t, c)
      PROVE  UNCHANGED <<flags, before>>
  BY <1>5 DEF TakeTarget, FinishTarget, Lookup
<1>6. ASSUME NEW b \in BOOLEAN, StartRun(b)  PROVE UNCHANGED <<flags, before>>
  BY <1>6 DEF StartRun
<1>7. ASSUME NEW t \in Targets, EditInventory(t)  PROVE UNCHANGED <<flags, before>>
  BY <1>7 DEF EditInventory
<1>8. ASSUME NEW c \in Components, EditSource(c)  PROVE UNCHANGED <<flags, before>>
  BY <1>8 DEF EditSource
<1>9. CASE UNCHANGED vars
  BY <1>9 DEF vars, FlagsInv
<1> HIDE DEF user, memo, run
<1> QED BY <1>1, <1>3, <1>4, <1>5, <1>6, <1>7, <1>8, <1>9 DEF Next

\* With --cache a component is only evaluated after the box was made strict.
LEMMA BoxAfterCaused ==
  ASSUME WorkerAssumption, TypeOK, BoxInv, MissedInv,
         NEW w \in Workers, NEW t \in Targets, NEW c \in Components,
         ToEvaluate(w, t, c), BoxAfter(w, c) = "lazy"
  PROVE  /\ ~ useCache
         /\ \E d \in before[w] \cup {c} : Program[d].reads = "lazy"
<1>1. CASE box[w] = "lazy"
  BY <1>1 DEF BoxInv
<1>2. CASE box[w] # "lazy"
  <2>1. Program[c].kind = "kadet" /\ box[w] = None /\ Program[c].reads = "lazy"
    BY <1>2 DEF BoxAfter, BoxFor
  <2>2. ~ useCache
    <3>1. SUFFICES ASSUME useCache PROVE FALSE
      OBVIOUS
    <3>2. missed[w] # None
      BY <2>1, <3>1 DEF ToEvaluate, Cacheable
    <3>3. box[w] = "strict"
      BY <3>2 DEF MissedInv
    <3> QED BY <2>1, <3>3 DEF WorkerAssumption
  <2> QED BY <2>1, <2>2
<1> QED BY <1>1, <1>2

LEMMA BoxStep ==
  ASSUME WorkerAssumption, TypeOK, Quiet, BoxInv, MissedInv, [Next]_vars
  PROVE  BoxInv'
<1> USE DEF user, memo, run
<1>1. ASSUME NEW w \in Workers, NEW t \in Targets, NEW c \in Components, Lookup(w, t, c)
      PROVE  BoxInv'
  BY <1>1 DEF Lookup, BoxFor, BoxInv, TypeOK
<1>2. ASSUME NEW w \in Workers, NEW t \in Targets, NEW c \in Components,
             Evaluate(w, t, c) \/ EvaluateFails(w, t, c)
      PROVE  BoxInv'
  <2>1. /\ ToEvaluate(w, t, c)
        /\ box' = [box EXCEPT ![w] = BoxAfter(w, c)]
        /\ before' = [before EXCEPT ![w] = @ \cup {c}]
        /\ useCache' = useCache
    BY <1>2 DEF Evaluate, EvaluateFails
  <2>2. ASSUME NEW v \in Workers, box'[v] = "lazy"
        PROVE  ~ useCache' /\ \E d \in before'[v] : Program[d].reads = "lazy"
    <3>1. CASE v = w
      BY <2>1, <2>2, <3>1, BoxAfterCaused DEF TypeOK
    <3>2. CASE v # w
      BY <2>1, <2>2, <3>2 DEF TypeOK, BoxInv
    <3> QED BY <3>1, <3>2
  <2> QED BY <2>2 DEF BoxInv
<1>3. ASSUME NEW b \in BOOLEAN, StartRun(b)  PROVE BoxInv'
  <2>1. box' = [w \in Workers |-> None]
    BY <1>3 DEF StartRun, Quiet
  <2> QED BY <2>1, <1>3 DEF StartRun, BoxInv, WorkerAssumption
<1>4. ASSUME EndRun  PROVE BoxInv'
  BY <1>4 DEF EndRun, FreshWorkers, BoxInv, WorkerAssumption
<1>5. CASE UNCHANGED <<box, before, useCache>>
  BY <1>5 DEF BoxInv
<1>6. ASSUME NEW w \in Workers, NEW t \in Targets, TakeTarget(w, t) \/ FinishTarget(w, t)
      PROVE  UNCHANGED <<box, before, useCache>>
  BY <1>6 DEF TakeTarget, FinishTarget
<1>7. ASSUME NEW t \in Targets, EditInventory(t)  PROVE UNCHANGED <<box, before, useCache>>
  BY <1>7 DEF EditInventory
<1>8. ASSUME NEW c \in Components, EditSource(c)  PROVE UNCHANGED <<box, before, useCache>>
  BY <1>8 DEF EditSource
<1>9. CASE UNCHANGED vars
  BY <1>9 DEF vars, BoxInv
<1> HIDE DEF user, memo, run
<1> QED BY <1>1, <1>2, <1>3, <1>4, <1>5, <1>6, <1>7, <1>8, <1>9 DEF Next

\* Hashing gives what is there, remembered or not.
LEMMA KeyIsCurrent ==
  ASSUME MemoInv, NEW w \in Workers, NEW t \in Targets, NEW c \in Components
  PROVE  /\ InventoryDigest(w, t) = inv[t]
         /\ c \in raced \/ PathHash(w, c) = source[c].text
BY DEF MemoInv, InventoryDigest, PathHash

LEMMA MemoStep ==
  ASSUME TypeOK, Shape, Quiet, MemoInv, [Next]_vars
  PROVE  MemoInv'
<1> USE DEF user, memo, run
<1>1. ASSUME NEW w \in Workers, NEW t \in Targets, NEW c \in Components, Lookup(w, t, c)
      PROVE  MemoInv'
  <2>1. /\ digest' = [digest EXCEPT ![w] = Remember(digest[w], t, InventoryDigest(w, t))]
        /\ hashed' = [hashed EXCEPT ![w] = Remember(hashed[w], c, PathHash(w, c))]
        /\ UNCHANGED <<inv, source, raced>>
    BY <1>1 DEF Lookup, InputsHash
  <2>2. ASSUME NEW v \in Workers, NEW u \in DOMAIN digest'[v]  PROVE digest'[v][u] = inv[u]
    <3>1. CASE v = w /\ u = t
      <4>1. digest'[v][u] = InventoryDigest(w, t)
        BY <2>1, <3>1 DEF Shape, Remember
      <4> QED BY <3>1, <4>1, KeyIsCurrent
    <3>2. CASE ~ (v = w /\ u = t)
      <4>1. u \in DOMAIN digest[v] /\ digest'[v][u] = digest[v][u]
        BY <2>1, <2>2, <3>2 DEF Shape, Remember
      <4> QED BY <4>1 DEF MemoInv
    <3> QED BY <3>1, <3>2
  <2>3. ASSUME NEW v \in Workers, NEW d \in DOMAIN hashed'[v]
        PROVE  d \in raced \/ hashed'[v][d] = source[d].text
    <3>1. CASE v = w /\ d = c
      <4>1. hashed'[v][d] = PathHash(w, c)
        BY <2>1, <3>1 DEF Shape, Remember
      <4> QED BY <3>1, <4>1, KeyIsCurrent
    <3>2. CASE ~ (v = w /\ d = c)
      <4>1. d \in DOMAIN hashed[v] /\ hashed'[v][d] = hashed[v][d]
        BY <2>1, <2>3, <3>2 DEF Shape, Remember
      <4> QED BY <4>1 DEF MemoInv
    <3> QED BY <3>1, <3>2
  <2> QED BY <2>1, <2>2, <2>3 DEF MemoInv
<1>2. ASSUME EndRun  PROVE MemoInv'
  BY <1>2 DEF EndRun, FreshWorkers, MemoInv, NoMemo
<1>3. ASSUME NEW t \in Targets, EditInventory(t)  PROVE MemoInv'
  BY <1>3 DEF EditInventory, Quiet, MemoInv, NoMemo
<1>4. ASSUME NEW c \in Components, EditSource(c)  PROVE MemoInv'
  <2>1. /\ UNCHANGED <<inv, digest, hashed, phase>>
        /\ \A d \in Components : d # c => source'[d] = source[d]
        /\ raced \subseteq raced'
        /\ phase = "running" => c \in raced'
    BY <1>4 DEF EditSource, TypeOK
  <2>2. CASE phase = "editing"
    BY <2>1, <2>2 DEF Quiet, MemoInv, NoMemo
  <2>3. CASE phase = "running"
    <3>1. ASSUME NEW w \in Workers, NEW d \in DOMAIN hashed[w]
          PROVE  d \in raced' \/ hashed[w][d] = source'[d].text
      <4>1. CASE d = c
        BY <2>1, <2>3, <4>1
      <4>2. CASE d # c
        <5>1. source'[d] = source[d]
          BY <1>4, <4>2 DEF EditSource, TypeOK
        <5> QED BY <2>1, <5>1 DEF MemoInv
      <4> QED BY <4>1, <4>2
    <3> QED BY <2>1, <3>1 DEF MemoInv
  <2> QED BY <2>2, <2>3 DEF TypeOK
<1>5. CASE UNCHANGED <<digest, hashed, inv, source, raced>>
  BY <1>5 DEF MemoInv
<1>6. ASSUME NEW w \in Workers, NEW t \in Targets,
             \/ TakeTarget(w, t) \/ FinishTarget(w, t)
             \/ \E c \in Components : Evaluate(w, t, c) \/ EvaluateFails(w, t, c)
      PROVE  UNCHANGED <<digest, hashed, inv, source, raced>>
  BY <1>6 DEF TakeTarget, FinishTarget, Evaluate, EvaluateFails
<1>7. ASSUME NEW b \in BOOLEAN, StartRun(b)
      PROVE  UNCHANGED <<digest, hashed, inv, source, raced>>
  BY <1>7 DEF StartRun
<1>8. CASE UNCHANGED vars
  BY <1>8 DEF vars, MemoInv
<1> HIDE DEF user, memo, run
<1> QED BY <1>1, <1>2, <1>3, <1>4, <1>5, <1>6, <1>7, <1>8 DEF Next

-----------------------------------------------------------------------------
(* Keys, the store and what is published *)

\* An edit of a component's text or file names counts as a race if a run is going on.
LEMMA RacedEdit ==
  ASSUME TypeOK, NEW c \in Components, EditSource(c), phase = "running",
         NEW d \in Components, NEW text, d \in raced \/ text = source[d].text
  PROVE  d \in raced' \/ text = source'[d].text
<1>1. CASE d = c
  BY <1>1 DEF EditSource
<1>2. CASE d # c
  BY <1>2 DEF EditSource, TypeOK
<1> QED BY <1>1, <1>2

LEMMA MissedStep ==
  ASSUME WorkerAssumption, TypeOK, Shape, Quiet, BoxInv, MemoInv, MissedInv, [Next]_vars
  PROVE  MissedInv'
<1> USE DEF user, memo, run
<1>1. ASSUME NEW w \in Workers, NEW t \in Targets, NEW c \in Components, Lookup(w, t, c)
      PROVE  MissedInv'
  <2> DEFINE k == InputsHash(w, t, c)
  <2>1. /\ UNCHANGED <<inv, source, raced, phase, useCache, current>>
        /\ phase = "running" /\ useCache /\ current[w] = t
        /\ done[w] < Len(Inputs[t]) /\ c = Inputs[t][done[w] + 1]
        /\ missed[w] = None
        /\ box' = [box EXCEPT ![w] = BoxFor(w, "strict")]
    BY <1>1 DEF Lookup, AtComponent, Cacheable
  <2>2. \/ missed' = [missed EXCEPT ![w] = k] /\ done' = done
        \/ missed' = missed /\ done' = [done EXCEPT ![w] = @ + 1]
    BY <1>1 DEF Lookup
  <2>3. box'[w] = "strict"
    BY <2>1 DEF BoxFor, BoxInv, TypeOK
  <2>4. /\ k.own = inv[t] /\ k.topics = TopicsDigest(t) /\ k.comp = c
        /\ c \in raced \/ k.text = source[c].text
    BY KeyIsCurrent DEF InputsHash
  <2>5. TopicsDigest(t)' = TopicsDigest(t)
    BY <2>1 DEF TopicsDigest, TopicView, Declared
  <2>6. ASSUME NEW v \in Workers, v # w
        PROVE  missed'[v] = missed[v] /\ done'[v] = done[v] /\ box'[v] = box[v]
    BY <2>1, <2>2, <2>6 DEF Shape, TypeOK
  <2>7. ASSUME NEW v \in Workers, missed'[v] # None
        PROVE  /\ phase' = "running" /\ useCache'
               /\ box'[v] = "strict"
               /\ current'[v] \in Targets /\ done'[v] < Len(Inputs[current'[v]])
               /\ missed'[v].own = inv'[current'[v]]
               /\ missed'[v].topics = TopicsDigest(current[v])'
               /\ missed'[v].comp = Inputs[current'[v]][done'[v] + 1]
               /\ missed'[v].comp \in raced'
                    \/ missed'[v].text = source'[missed'[v].comp].text
    <3>1. CASE v = w
      <4>1. missed'[w] = k /\ done' = done
        BY <2>1, <2>2, <2>7, <3>1 DEF Shape
      <4>2. TopicsDigest(current[w])' = TopicsDigest(t)
        BY <2>1, <2>5
      <4> HIDE DEF k
      <4> QED BY <2>1, <2>3, <2>4, <3>1, <4>1, <4>2
    <3>2. CASE v # w
      <4>1. missed[v] # None
        BY <2>6, <2>7, <3>2
      <4>2. TopicsDigest(current[v])' = TopicsDigest(current[v])
        BY <2>1 DEF TopicsDigest, TopicView, Declared
      <4> QED BY <2>1, <2>6, <3>2, <4>1, <4>2 DEF MissedInv
    <3> QED BY <3>1, <3>2
  <2> QED BY <2>7 DEF MissedInv
<1>2. ASSUME NEW w \in Workers, NEW t \in Targets, NEW c \in Components,
             Evaluate(w, t, c) \/ EvaluateFails(w, t, c)
      PROVE  MissedInv'
  <2>1. /\ UNCHANGED <<inv, source, raced, phase, useCache>>
        /\ missed'[w] = None
        /\ \A v \in Workers : v # w => missed'[v] = missed[v] /\ done'[v] = done[v]
                                       /\ box'[v] = box[v] /\ current'[v] = current[v]
    BY <1>2 DEF Evaluate, EvaluateFails, Shape, TypeOK
  <2>2. \A v \in Workers : v # w => TopicsDigest(current[v])' = TopicsDigest(current[v])
    BY <2>1 DEF TopicsDigest, TopicView, Declared
  <2> QED BY <2>1, <2>2 DEF MissedInv
<1>3. ASSUME NEW w \in Workers, NEW t \in Targets, TakeTarget(w, t)
      PROVE  MissedInv'
  <2>1. /\ UNCHANGED <<inv, source, raced, phase, useCache, missed, done, box>>
        /\ current[w] = None
        /\ \A v \in Workers : v # w => current'[v] = current[v]
    BY <1>3 DEF TakeTarget, TypeOK
  <2>2. missed[w] = None
    BY <2>1 DEF MissedInv, WorkerAssumption
  <2>3. \A v \in Workers : v # w => TopicsDigest(current[v])' = TopicsDigest(current[v])
    BY <2>1 DEF TopicsDigest, TopicView, Declared
  <2> QED BY <2>1, <2>2, <2>3 DEF MissedInv
<1>4. ASSUME NEW w \in Workers, NEW t \in Targets, FinishTarget(w, t)
      PROVE  MissedInv'
  <2>1. /\ UNCHANGED <<inv, source, raced, phase, useCache, missed, box>>
        /\ current[w] = t /\ done[w] = Len(Inputs[t])
        /\ \A v \in Workers : v # w => current'[v] = current[v] /\ done'[v] = done[v]
    BY <1>4 DEF FinishTarget, TypeOK
  <2>2. missed[w] = None
    <3>1. ~ (done[w] < Len(Inputs[current[w]]))
      BY <2>1 DEF TypeOK
    <3> QED BY <3>1 DEF MissedInv
  <2>3. \A v \in Workers : v # w => TopicsDigest(current[v])' = TopicsDigest(current[v])
    BY <2>1 DEF TopicsDigest, TopicView, Declared
  <2> QED BY <2>1, <2>2, <2>3 DEF MissedInv
<1>5. ASSUME NEW c \in Components, EditSource(c), phase = "running"
      PROVE  MissedInv'
  <2>1. /\ UNCHANGED <<inv, phase, useCache, current, missed, done, box>>
    BY <1>5 DEF EditSource
  <2>2. \A v \in Workers : TopicsDigest(current[v])' = TopicsDigest(current[v])
    BY <2>1 DEF TopicsDigest, TopicView, Declared
  <2>3. ASSUME NEW v \in Workers, missed[v] # None
        PROVE  missed[v].comp \in raced' \/ missed[v].text = source'[missed[v].comp].text
    <3>1. /\ missed[v].comp = Inputs[current[v]][done[v] + 1]
          /\ current[v] \in Targets /\ done[v] < Len(Inputs[current[v]])
          /\ missed[v].comp \in raced \/ missed[v].text = source[missed[v].comp].text
      BY <2>3 DEF MissedInv
    <3>2. missed[v].comp \in Components
      BY <3>1 DEF WorkerAssumption, TypeOK
    <3> QED BY <1>5, <3>1, <3>2, RacedEdit
  <2> QED BY <2>1, <2>2, <2>3 DEF MissedInv
<1>6. CASE missed' = [w \in Workers |-> None]
  BY <1>6 DEF MissedInv
<1>7. ASSUME phase = "editing", UNCHANGED missed  PROVE missed' = [w \in Workers |-> None]
  BY <1>7 DEF Quiet
<1>8. ASSUME EndRun  PROVE missed' = [w \in Workers |-> None]
  BY <1>8 DEF EndRun
<1>9. ASSUME NEW b \in BOOLEAN, StartRun(b)  PROVE phase = "editing" /\ UNCHANGED missed
  BY <1>9 DEF StartRun
<1>10. ASSUME NEW t \in Targets, EditInventory(t)
       PROVE  phase = "editing" /\ UNCHANGED missed
  BY <1>10 DEF EditInventory
<1>11. ASSUME NEW c \in Components, EditSource(c)  PROVE UNCHANGED missed
  BY <1>11 DEF EditSource
<1>12. CASE UNCHANGED vars
  <2>1. UNCHANGED <<inv, current>>
    BY <1>12 DEF vars
  <2>2. \A v \in Workers : TopicsDigest(current[v])' = TopicsDigest(current[v])
    BY <2>1 DEF TopicsDigest, TopicView, Declared
  <2> QED BY <1>12, <2>2 DEF vars, MissedInv
<1>13. phase \in {"editing", "running"}
  BY DEF TypeOK
<1>14. ASSUME NEW c \in Components, EditSource(c)  PROVE MissedInv'
  BY <1>5, <1>6, <1>7, <1>11, <1>13, <1>14
<1> HIDE DEF user, memo, run
<1> QED BY <1>1, <1>2, <1>3, <1>4, <1>6, <1>7, <1>8, <1>9, <1>10, <1>12, <1>14 DEF Next

-----------------------------------------------------------------------------
\* A missing key shows as empty only through a lazy box.
LEMMA EmptyIsLazy ==
  ASSUME WorkerAssumption, TypeOK, NEW w \in Workers, NEW t \in Targets,
         NEW c \in Components, ~ Fails(w, t, c), Output(w, t, c).own = "empty"
  PROVE  inv[t].key = None /\ BoxAfter(w, c) = "lazy"
<1>1. Program[c].reads # "nothing" /\ inv[t].key = None
  BY DEF Output
<1>2. BoxAfter(w, c) # "strict"
  BY <1>1 DEF Fails
<1>3. Program[c].kind = "kadet"
  BY <1>1 DEF WorkerAssumption, Kinds
<1>4. BoxAfter(w, c) \in {"strict", "lazy"}
  BY <1>1, <1>3 DEF BoxAfter, BoxFor, TypeOK
<1> QED BY <1>1, <1>2, <1>4

LEMMA SetIsSet ==
  ASSUME TypeOK, NEW w \in Workers, NEW t \in Targets, NEW c \in Components,
         Output(w, t, c).own = "set"
  PROVE  inv[t].key = "set"
BY DEF Output, TypeOK, TargetInv

\* A component that does not fail shows declared topics only.
LEMMA ViewsAreDeclared ==
  ASSUME NEW w \in Workers, NEW t \in Targets, NEW c \in Components, ~ Fails(w, t, c)
  PROVE  /\ DOMAIN Output(w, t, c).views \subseteq inv[t].consume
         /\ \A n \in DOMAIN Output(w, t, c).views : Output(w, t, c).views[n] = TopicView(n)
BY DEF Output, ViewsFor, Fails, Undeclared, Declared

LEMMA ChartIsCaused ==
  ASSUME FlagsInv, NEW w \in Workers, NEW t \in Targets, NEW c \in Components,
         Program[c].chart
  PROVE  FlagsCaused(c, Output(w, t, c).flags, Output(w, t, c).after)
BY DEF FlagsInv, FlagsCaused, Output, ChartFlags, Overlaid

LEMMA StoreStep ==
  ASSUME WorkerAssumption, TypeOK, FlagsInv, BoxInv, MissedInv, StoreInv, [Next]_vars
  PROVE  StoreInv'
<1> USE DEF user, memo, run
<1>1. ASSUME NEW w \in Workers, NEW t \in Targets, NEW c \in Components, Evaluate(w, t, c)
      PROVE  StoreInv'
  <2> DEFINE out == Output(w, t, c)
  <2>1. /\ ToEvaluate(w, t, c) /\ ~ Fails(w, t, c) /\ raced' = raced
        /\ store' = IF Cacheable(c) THEN store \cup {[key |-> missed[w], out |-> out]}
                    ELSE store
    BY <1>1 DEF Evaluate
  <2>2. ASSUME Cacheable(c)  PROVE Agrees(missed[w], out)
    <3>1. missed[w] # None /\ current[w] = t /\ c = Inputs[t][done[w] + 1]
      BY <2>1, <2>2 DEF ToEvaluate, AtComponent
    <3>2. /\ box[w] = "strict" /\ useCache
          /\ missed[w].own = inv[t] /\ missed[w].topics = TopicsDigest(t)
          /\ missed[w].comp = c
          /\ c \in raced \/ missed[w].text = source[c].text
      BY <3>1 DEF MissedInv
    <3>3. out.own # "empty"
      BY <2>1, <3>2, EmptyIsLazy, BoxAfterCaused
    <3>4. out.own = "set" => missed[w].own.key = "set"
      BY <3>2, SetIsSet
    <3>5. /\ DOMAIN out.views \subseteq DOMAIN missed[w].topics
          /\ \A n \in DOMAIN out.views : out.views[n] = missed[w].topics[n]
      BY <2>1, <3>2, ViewsAreDeclared DEF TopicsDigest, Declared
    <3>6. out.text = source[c].text
      BY DEF Output
    <3>7. Program[c].chart => FlagsCaused(c, out.flags, out.after)
      BY ChartIsCaused
    <3> HIDE DEF out
    <3> QED BY <3>2, <3>3, <3>4, <3>5, <3>6, <3>7 DEF Agrees
  <2>3. ASSUME NEW e \in store'  PROVE Agrees(e.key, e.out)
    BY <2>1, <2>2 DEF StoreInv
  <2> QED BY <2>1, <2>3 DEF StoreInv, Agrees
<1>2. ASSUME NEW c \in Components, EditSource(c)  PROVE StoreInv'
  <2>1. store' = store /\ raced \subseteq raced'
    BY <1>2 DEF EditSource
  <2> QED BY <2>1 DEF StoreInv, Agrees
<1>3. CASE UNCHANGED <<store, raced>>
  BY <1>3 DEF StoreInv, Agrees
<1>4. ASSUME NEW w \in Workers, NEW t \in Targets,
             \/ TakeTarget(w, t) \/ FinishTarget(w, t)
             \/ \E c \in Components : Lookup(w, t, c) \/ EvaluateFails(w, t, c)
      PROVE  UNCHANGED <<store, raced>>
  BY <1>4 DEF TakeTarget, FinishTarget, Lookup, EvaluateFails
<1>5. ASSUME NEW b \in BOOLEAN, StartRun(b)  PROVE UNCHANGED <<store, raced>>
  BY <1>5 DEF StartRun
<1>6. ASSUME EndRun  PROVE UNCHANGED <<store, raced>>
  BY <1>6 DEF EndRun
<1>7. ASSUME NEW t \in Targets, EditInventory(t)  PROVE UNCHANGED <<store, raced>>
  BY <1>7 DEF EditInventory
<1>8. CASE UNCHANGED vars
  BY <1>8 DEF vars, StoreInv, Agrees
<1> HIDE DEF user, memo, run
<1> QED BY <1>1, <1>2, <1>3, <1>4, <1>5, <1>6, <1>7, <1>8 DEF Next

-----------------------------------------------------------------------------
\* What the cache serves agrees with a key that was hashed just now.
LEMMA ServedIsGood ==
  ASSUME TypeOK, MemoInv, BoxInv, StoreInv, NEW w \in Workers, NEW t \in Targets,
         NEW c \in Components, NEW e \in store, e.key = InputsHash(w, t, c)
  PROVE  Good([target |-> t, comp |-> c, out |-> e.out, served |-> TRUE])
<1>1. /\ e.key.own = inv[t] /\ e.key.topics = TopicsDigest(t) /\ e.key.comp = c
      /\ c \in raced \/ e.key.text = source[c].text
  BY KeyIsCurrent DEF InputsHash
<1>2. Agrees(e.key, e.out)
  BY DEF StoreInv
<1>3. /\ DOMAIN e.out.views \subseteq inv[t].consume
      /\ \A n \in DOMAIN e.out.views : e.out.views[n] = TopicView(n)
  BY <1>1, <1>2 DEF Agrees, TopicsDigest, Declared
<1> QED BY <1>1, <1>2, <1>3 DEF Agrees, Good

LEMMA ComputedIsGood ==
  ASSUME WorkerAssumption, TypeOK, FlagsInv, BoxInv, MissedInv, NEW w \in Workers,
         NEW t \in Targets, NEW c \in Components, ToEvaluate(w, t, c), ~ Fails(w, t, c)
  PROVE  Good([target |-> t, comp |-> c, out |-> Output(w, t, c), served |-> FALSE])
<1> DEFINE out == Output(w, t, c)
<1>1. out.text = source[c].text /\ out.after = before[w]
  BY DEF Output
<1>2. out.own = "empty" =>
        /\ inv[t].key = None /\ ~ useCache
        /\ \E d \in out.after \cup {c} : Program[d].reads = "lazy"
  BY <1>1, EmptyIsLazy, BoxAfterCaused
<1>3. out.own = "set" => inv[t].key = "set"
  BY SetIsSet
<1>4. /\ DOMAIN out.views \subseteq inv[t].consume
      /\ \A n \in DOMAIN out.views : out.views[n] = TopicView(n)
  BY ViewsAreDeclared
<1>5. Program[c].chart => FlagsCaused(c, out.flags, out.after)
  BY ChartIsCaused
<1>6. Good([target |-> t, comp |-> c, out |-> out, served |-> FALSE])
  <2> HIDE DEF out
  <2> QED BY <1>1, <1>2, <1>3, <1>4, <1>5 DEF Good
<1> QED BY <1>6

\* What is published stays good while nothing it rests on changes.
LEMMA GoodStays ==
  ASSUME UNCHANGED <<inv, source, raced, useCache>>, NEW p, Good(p)
  PROVE  Good(p)'
BY DEF Good, TopicView, FlagsCaused

LEMMA PublishedStep ==
  ASSUME WorkerAssumption, TypeOK, Quiet, FlagsInv, BoxInv, MemoInv, StoreInv, MissedInv,
         PublishedInv, [Next]_vars
  PROVE  PublishedInv'
<1> USE DEF user, memo, run
<1>1. ASSUME NEW w \in Workers, NEW t \in Targets, NEW c \in Components, Lookup(w, t, c)
      PROVE  PublishedInv'
  <2>1. /\ UNCHANGED <<inv, source, raced, useCache>>
        /\ \/ published' = published
           \/ \E e \in store :
                /\ e.key = InputsHash(w, t, c)
                /\ published' = published \cup
                     {[target |-> t, comp |-> c, out |-> e.out, served |-> TRUE]}
    BY <1>1 DEF Lookup, Publish
  <2>2. \A p \in published' : Good(p)
    BY <2>1, ServedIsGood DEF PublishedInv
  <2> QED BY <2>1, <2>2, GoodStays DEF PublishedInv
<1>2. ASSUME NEW w \in Workers, NEW t \in Targets, NEW c \in Components, Evaluate(w, t, c)
      PROVE  PublishedInv'
  <2>1. /\ UNCHANGED <<inv, source, raced, useCache>>
        /\ ToEvaluate(w, t, c) /\ ~ Fails(w, t, c)
        /\ published' = published \cup
             {[target |-> t, comp |-> c, out |-> Output(w, t, c), served |-> FALSE]}
    BY <1>2 DEF Evaluate, Publish
  <2>2. \A p \in published' : Good(p)
    BY <2>1, ComputedIsGood DEF PublishedInv
  <2> QED BY <2>1, <2>2, GoodStays DEF PublishedInv
<1>3. ASSUME NEW c \in Components, EditSource(c), phase = "running"
      PROVE  PublishedInv'
  <2>1. UNCHANGED <<inv, useCache, published>>
    BY <1>3 DEF EditSource
  <2>2. ASSUME NEW p \in published
        PROVE  p.comp \in raced' \/ p.out.text = source'[p.comp].text
    <3>1. p.comp \in raced \/ p.out.text = source[p.comp].text
      BY DEF PublishedInv, Good
    <3>2. CASE p.comp = c
      BY <1>3, <3>2 DEF EditSource
    <3>3. CASE p.comp # c
      BY <1>3, <3>1, <3>3 DEF EditSource, TypeOK
    <3> QED BY <3>2, <3>3
  <2>3. ASSUME NEW p \in published  PROVE Good(p)'
    <3>1. Good(p)
      BY DEF PublishedInv
    <3> QED BY <2>1, <2>2, <3>1 DEF Good, TopicView, FlagsCaused
  <2> QED BY <2>1, <2>3 DEF PublishedInv
<1>4. CASE published' = {}
  BY <1>4 DEF PublishedInv
<1>5. ASSUME phase = "editing", UNCHANGED published  PROVE published' = {}
  BY <1>5 DEF Quiet
<1>6. ASSUME EndRun  PROVE published' = {}
  BY <1>6 DEF EndRun
<1>7. ASSUME NEW b \in BOOLEAN, StartRun(b)  PROVE phase = "editing" /\ UNCHANGED published
  BY <1>7 DEF StartRun
<1>8. ASSUME NEW t \in Targets, EditInventory(t)
      PROVE  phase = "editing" /\ UNCHANGED published
  BY <1>8 DEF EditInventory
<1>9. ASSUME NEW c \in Components, EditSource(c)  PROVE PublishedInv'
  <2>1. UNCHANGED published
    BY <1>9 DEF EditSource
  <2> QED BY <1>3, <1>4, <1>5, <1>9, <2>1 DEF TypeOK
<1>10. CASE UNCHANGED <<published, inv, source, raced, useCache>>
  BY <1>10, GoodStays DEF PublishedInv
<1>11. ASSUME NEW w \in Workers, NEW t \in Targets,
              \/ TakeTarget(w, t) \/ FinishTarget(w, t)
              \/ \E c \in Components : EvaluateFails(w, t, c)
       PROVE  UNCHANGED <<published, inv, source, raced, useCache>>
  BY <1>11 DEF TakeTarget, FinishTarget, EvaluateFails
<1>12. ASSUME UNCHANGED vars  PROVE UNCHANGED <<published, inv, source, raced, useCache>>
  BY <1>12 DEF vars
<1> HIDE DEF user, memo, run
<1> QED BY <1>1, <1>2, <1>4, <1>5, <1>6, <1>7, <1>8, <1>9, <1>10, <1>11, <1>12 DEF Next

-----------------------------------------------------------------------------
(* The theorems *)

LEMMA IInvInit ==
  ASSUME WorkerAssumption, Init  PROVE IInv
<1>1. TypeOK
  BY TypeInit
<1>2. Shape /\ Quiet /\ StoreInv /\ PublishedInv /\ FlagsInv /\ MissedInv
  BY DEF Init, Shape, Quiet, StoreInv, PublishedInv, FlagsInv, MissedInv
<1>3. BoxInv /\ MemoInv
  BY DEF Init, BoxInv, MemoInv, NoMemo, WorkerAssumption
<1> QED BY <1>1, <1>2, <1>3 DEF IInv

LEMMA IInvStep ==
  ASSUME WorkerAssumption, IInv, [Next]_vars  PROVE IInv'
BY TypeStep, ShapeStep, QuietStep, FlagsStep, BoxStep, MemoStep, StoreStep, MissedStep,
   PublishedStep DEF IInv

LEMMA IInvImplies ==
  ASSUME WorkerAssumption, IInv
  PROVE  HashedIsCurrent /\ TopicsWereDeclared /\ EmptyHasACause /\ FlagsHaveACause
<1>1. ASSUME NEW p \in published  PROVE Good(p)
  BY DEF IInv, PublishedInv
<1>2. HashedIsCurrent /\ TopicsWereDeclared /\ EmptyHasACause
  BY <1>1 DEF Good, HashedIsCurrent, TopicsWereDeclared, EmptyHasACause
<1>3. ASSUME NEW p \in published, Program[p.comp].chart, NEW f \in FlagNames,
             p.out.flags[f] # Overlaid(Program[p.comp].flags, DefaultFlags)[f]
      PROVE  \E d \in p.out.after :
               /\ Program[d].kind = "kadet" /\ Program[d].chart
               /\ f \in DOMAIN Program[d].flags /\ Program[d].flags[f] = p.out.flags[f]
  <2>1. FlagsCaused(p.comp, p.out.flags, p.out.after)
    BY <1>1, <1>3 DEF Good
  <2> QED BY <1>3, <2>1 DEF FlagsCaused
<1> QED BY <1>2, <1>3 DEF FlagsHaveACause

LEMMA Invariance == ASSUME WorkerAssumption PROVE Spec => []IInv
<1>1. Init => IInv
  BY IInvInit
<1>2. IInv /\ [Next]_vars => IInv'
  BY IInvStep
<1> QED BY <1>1, <1>2, PTL DEF Spec

\* An output, computed or served by the cache, is never out of date in what goes
\* into its key (kapitan/inputs/kadet.py, inputs_hash).
THEOREM HashedIsCurrentHolds == ASSUME WorkerAssumption PROVE Spec => []HashedIsCurrent
<1>1. IInv => HashedIsCurrent
  BY IInvImplies
<1> QED BY <1>1, Invariance, PTL

\* No output shows a topic that its target does not declare (kapitan/topics.py).
THEOREM TopicsWereDeclaredHolds ==
  ASSUME WorkerAssumption PROVE Spec => []TopicsWereDeclared
<1>1. IInv => TopicsWereDeclared
  BY IInvImplies
<1> QED BY <1>1, Invariance, PTL

\* A missing key reads as empty only after a lazy reader, and never with --cache.
THEOREM EmptyHasACauseHolds == ASSUME WorkerAssumption PROVE Spec => []EmptyHasACause
<1>1. IInv => EmptyHasACause
  BY IInvImplies
<1> QED BY <1>1, Invariance, PTL

\* A flag that a chart was not given was left by a kadet chart rendered before it in
\* the same process (kapitan/inputs/helm.py, HELM_DEFAULT_FLAGS).
THEOREM FlagsHaveACauseHolds == ASSUME WorkerAssumption PROVE Spec => []FlagsHaveACause
<1>1. IInv => FlagsHaveACause
  BY IInvImplies
<1> QED BY <1>1, Invariance, PTL
=============================================================================
