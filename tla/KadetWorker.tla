---------------------------- MODULE KadetWorker ----------------------------
(***************************************************************************)
(* What one worker process of the compile pool carries from one component  *)
(* to the next, and what the compile cache's key says about a component:   *)
(* kadet and helm inputs (kapitan/inputs/kadet.py, kapitan/inputs/helm.py),*)
(* topics (kapitan/topics.py), the process-wide state in kapitan/cached.py *)
(* and in the modules' globals.                                            *)
(*                                                                         *)
(* A worker compiles targets one after the other and is never reset        *)
(* between them.  It keeps: the kadet view of the inventory (a box, strict *)
(* or lazy, made by whoever asks first), the digests of inventories and    *)
(* files it has hashed, and HELM_DEFAULT_FLAGS, a dictionary that a chart  *)
(* rendered from kadet writes its own flags into.                          *)
(*                                                                         *)
(* The store is the disk cache as CacheSpec promises it: the first output  *)
(* stored under a key stays.  A hash is modelled by what goes into it, so  *)
(* two keys are equal exactly when the hashed inputs are.                  *)
(***************************************************************************)
EXTENDS Naturals, Sequences, FiniteSets

CONSTANTS
  Targets,
  Topics,
  Workers,        \* the processes of the compile pool
  Components,     \* input paths: kadet components and helm charts
  Inputs,         \* Inputs[t]: the components target t compiles, in order
  Program,        \* Program[c]: what component c is and what it asks for
  Params,         \* what a target can give to a topic
  Versions,       \* versions of a component's text, and of its file names
  FlagNames,
  DefaultFlags,   \* HELM_DEFAULT_FLAGS as the module is imported
  FirstInventory, \* the inventory before any edit
  None,           \* nothing given, no flag, no target, no box
  MaxRuns,        \* bound: compile runs
  MaxEdits        \* bound: edits of the user's files

Kinds == {"kadet", "helm"}
Reads == {"nothing", "strict", "lazy"}
Asks == {"named", "all"}
TargetInv == [key : {"set", None}, gives : [Topics -> Params \cup {None}],
              consume : SUBSET Topics]

ASSUME WorkerAssumption ==
  /\ Inputs \in [Targets -> Seq(Components)]
  /\ \A c \in Components :
       /\ Program[c].kind \in Kinds      \* input_type
       /\ Program[c].reads \in Reads     \* a key the inventory may lack
       /\ Program[c].others \in BOOLEAN  \* reads inventory_global()
       /\ Program[c].asks \in Asks       \* topics(name) for names, or topics()
       /\ Program[c].names \in SUBSET Topics
       /\ Program[c].chart \in BOOLEAN   \* renders a helm chart
       /\ DOMAIN Program[c].flags \subseteq FlagNames
       /\ Program[c].kind = "helm" => Program[c].reads = "nothing"
  /\ DefaultFlags = [f \in FlagNames |-> DefaultFlags[f]]
  /\ FirstInventory \in [Targets -> TargetInv]
  /\ Versions # {}
  /\ None \notin Params /\ None \notin Targets /\ None \notin {"set", "strict", "lazy"}
  /\ MaxRuns \in Nat /\ MaxEdits \in Nat

VARIABLES
  inv,        \* inv[t]: the value of the optional key, topic parameters, consume
  source,     \* source[c]: the versions of its text and of its file names
  store,      \* the disk cache: a set of [key, out]
  phase,      \* "editing" between runs, "running" in one
  useCache,   \* --cache of this run
  todo,       \* targets no worker has taken yet
  current,    \* current[w]: the target worker w compiles, or None
  done,       \* done[w]: how many of its inputs are compiled
  missed,     \* missed[w]: the key the worker looked up in vain, or None
  box,        \* box[w]: cached.inventory_global_kadet: None, "strict", "lazy"
  digest,     \* digest[w]: the memo of inventory_digest
  hashed,     \* hashed[w]: kv_cache, the hash of every path read so far
  flags,      \* flags[w]: HELM_DEFAULT_FLAGS in this process
  published,  \* what this run wrote: a set of [target, comp, out, served]
  failed,     \* a target of this run failed
  runs, edits,
  \* History, read by no guard: components evaluated so far in a process, and
  \* components edited while a run was going on.
  before,
  raced

user == <<inv, source>>
memo == <<box, digest, hashed, flags>>
run == <<phase, useCache, todo, failed, runs>>
vars == <<user, store, run, current, done, missed, memo, published, edits,
          before, raced>>

FlagValues == {DefaultFlags[f] : f \in FlagNames} \cup
              (UNION {{Program[c].flags[f] : f \in DOMAIN Program[c].flags} : c \in Components})
Flags == [FlagNames -> FlagValues]

TypeOK ==
  /\ inv \in [Targets -> TargetInv]
  /\ source \in [Components -> [text : Versions, names : Versions]]
  /\ phase \in {"editing", "running"} /\ useCache \in BOOLEAN
  /\ todo \subseteq Targets
  /\ current \in [Workers -> Targets \cup {None}]
  /\ done \in [Workers -> Nat]
  /\ box \in [Workers -> {None, "strict", "lazy"}]
  /\ flags \in [Workers -> Flags]
  /\ failed \in BOOLEAN
  /\ runs \in 0..MaxRuns /\ edits \in 0..MaxEdits
  /\ raced \subseteq Components
  /\ before \in [Workers -> SUBSET Components]

FirstVersion == CHOOSE v \in Versions : TRUE

NoMemo == [x \in {} |-> None]

FreshWorkers ==
  /\ box' = [w \in Workers |-> None]
  /\ digest' = [w \in Workers |-> NoMemo]
  /\ hashed' = [w \in Workers |-> NoMemo]
  /\ flags' = [w \in Workers |-> DefaultFlags]
  /\ before' = [w \in Workers |-> {}]

Init ==
  /\ inv = FirstInventory
  /\ source = [c \in Components |-> [text |-> FirstVersion, names |-> FirstVersion]]
  /\ store = {}
  /\ phase = "editing" /\ useCache = FALSE /\ todo = {} /\ failed = FALSE
  /\ current = [w \in Workers |-> None]
  /\ done = [w \in Workers |-> 0]
  /\ missed = [w \in Workers |-> None]
  /\ box = [w \in Workers |-> None]
  /\ digest = [w \in Workers |-> NoMemo]
  /\ hashed = [w \in Workers |-> NoMemo]
  /\ flags = [w \in Workers |-> DefaultFlags]
  /\ published = {}
  /\ runs = 0 /\ edits = 0
  /\ before = [w \in Workers |-> {}]
  /\ raced = {}

-----------------------------------------------------------------------------
(* Topics *)

\* A target that gives nothing to a topic is no contributor, only a consumer.
AllTopics == {n \in Topics : \E t \in Targets : inv[t].gives[n] # None}

\* An unknown topic is the empty view.
TopicView(n) == [t \in Targets |-> inv[t].gives[n]]

\* Mutant of Declared: what a target gives counts as declared.
DeclaredOrGiven(t) == inv[t].consume \cup {n \in Topics : inv[t].gives[n] # None}

Declared(t) == inv[t].consume

AskedBy(c) == IF Program[c].asks = "all" THEN AllTopics ELSE Program[c].names

Undeclared(t, c) == AskedBy(c) \ Declared(t)

ViewsFor(c) == [n \in AskedBy(c) |-> TopicView(n)]

\* Mutant of TopicsDigest: only the names of the consumed topics are hashed.
TopicsDigestNames(t) == [n \in Declared(t) |-> n]

\* Only what the target consumes, name and value; nothing for no topic.
TopicsDigest(t) == [n \in Declared(t) |-> TopicView(n)]
-----------------------------------------------------------------------------
(* The key of a component, and what evaluating it gives *)

Remember(f, x, v) == [y \in DOMAIN f \cup {x} |-> IF y = x THEN v ELSE f[y]]

InventoryDigest(w, t) == IF t \in DOMAIN digest[w] THEN digest[w][t] ELSE inv[t]

\* A path is hashed once per process; file names and directories are not hashed.
PathHash(w, c) == IF c \in DOMAIN hashed[w] THEN hashed[w][c] ELSE source[c].text

\* comp stands for the part of the hash that no edit changes: input_params and
\* what the component's text is about.  compile_path is injected afterwards.
InputsHash(w, t, c) ==
  [own |-> InventoryDigest(w, t), target |-> t, comp |-> c,
   text |-> PathHash(w, c), topics |-> TopicsDigest(t)]

\* The kadet box: made by the first caller, whatever later callers ask for.
BoxFor(w, asked) == IF box[w] = None THEN asked ELSE box[w]

BoxAfter(w, c) ==
  IF Program[c].kind = "kadet" /\ (Program[c].reads # "nothing" \/ Program[c].others)
  THEN BoxFor(w, IF Program[c].reads = "lazy" THEN "lazy" ELSE "strict")
  ELSE box[w]

Overlaid(own, base) == [f \in FlagNames |-> IF f \in DOMAIN own THEN own[f] ELSE base[f]]

\* render_chart: the chart's flags over HELM_DEFAULT_FLAGS of this process.
ChartFlags(w, c) == Overlaid(Program[c].flags, flags[w])

\* Mutant of FlagsAfter: the helm input does not copy the defaults either.
FlagsAfterAny(w, c) == IF Program[c].chart THEN ChartFlags(w, c) ELSE flags[w]

\* Helm.compile_file copies the defaults; HelmChart passes no flags, so
\* render_chart writes the chart's own into the module's dictionary.
FlagsAfter(w, c) ==
  IF Program[c].kind = "kadet" /\ Program[c].chart THEN ChartFlags(w, c) ELSE flags[w]

\* An undeclared topic, or a missing key of a strict box, is a CompileError.
Fails(w, t, c) ==
  \/ Undeclared(t, c) # {}
  \/ /\ Program[c].reads # "nothing"
     /\ inv[t].key = None
     /\ BoxAfter(w, c) = "strict"

Output(w, t, c) ==
  [text |-> source[c].text,
   names |-> source[c].names,
   own |-> IF Program[c].reads = "nothing" THEN "unread"
           ELSE IF inv[t].key = None THEN "empty" ELSE "set",
   others |-> IF Program[c].others THEN [u \in Targets |-> inv[u].key] ELSE None,
   views |-> ViewsFor(c),
   flags |-> IF Program[c].chart THEN ChartFlags(w, c) ELSE None,
   after |-> before[w]]

-----------------------------------------------------------------------------
(* A run *)

StartRun(cache) ==
  /\ phase = "editing" /\ runs < MaxRuns
  /\ phase' = "running" /\ useCache' = cache /\ runs' = runs + 1
  /\ todo' = Targets
  /\ UNCHANGED <<user, store, current, done, missed, memo, published, failed, edits,
                 before, raced>>

\* The pool hands the next target to a worker that has finished one.
TakeTarget(w, t) ==
  /\ phase = "running" /\ current[w] = None /\ t \in todo
  /\ todo' = todo \ {t}
  /\ current' = [current EXCEPT ![w] = t]
  /\ UNCHANGED <<user, store, phase, useCache, failed, runs, done, missed, memo,
                 published, edits, before, raced>>

AtComponent(w, t, c) ==
  /\ phase = "running" /\ current[w] = t
  /\ done[w] < Len(Inputs[t]) /\ c = Inputs[t][done[w] + 1]

Cacheable(c) == useCache /\ Program[c].kind = "kadet"

Publish(t, c, out, served) ==
  published' = published \cup {[target |-> t, comp |-> c, out |-> out, served |-> served]}

\* Mutant of Lookup: the digest is taken from a lazy view of the inventory.
LookupLazily(w, t, c) ==
  LET k == InputsHash(w, t, c) IN
  /\ AtComponent(w, t, c) /\ Cacheable(c) /\ missed[w] = None
  /\ box' = [box EXCEPT ![w] = BoxFor(w, "lazy")]
  /\ digest' = [digest EXCEPT ![w] = Remember(@, t, k.own)]
  /\ hashed' = [hashed EXCEPT ![w] = Remember(@, c, k.text)]
  /\ IF \E e \in store : e.key = k
     THEN /\ \E e \in store : e.key = k /\ Publish(t, c, e.out, TRUE)
          /\ done' = [done EXCEPT ![w] = @ + 1]
          /\ UNCHANGED missed
     ELSE missed' = [missed EXCEPT ![w] = k] /\ UNCHANGED <<published, done>>
  /\ UNCHANGED <<user, store, run, current, flags, edits, before, raced>>

\* compile_file with --cache, up to the answer of the cache.  Digesting the
\* inventory asks for the strict box, before any component can ask.
Lookup(w, t, c) ==
  LET k == InputsHash(w, t, c) IN
  /\ AtComponent(w, t, c) /\ Cacheable(c) /\ missed[w] = None
  /\ box' = [box EXCEPT ![w] = BoxFor(w, "strict")]
  /\ digest' = [digest EXCEPT ![w] = Remember(@, t, k.own)]
  /\ hashed' = [hashed EXCEPT ![w] = Remember(@, c, k.text)]
  /\ IF \E e \in store : e.key = k
     THEN /\ \E e \in store : e.key = k /\ Publish(t, c, e.out, TRUE)
          /\ done' = [done EXCEPT ![w] = @ + 1]
          /\ UNCHANGED missed
     ELSE missed' = [missed EXCEPT ![w] = k] /\ UNCHANGED <<published, done>>
  /\ UNCHANGED <<user, store, run, current, flags, edits, before, raced>>

\* What is to be computed: nothing cacheable, or looked up and not found.
ToEvaluate(w, t, c) ==
  /\ AtComponent(w, t, c)
  /\ Cacheable(c) => missed[w] # None

\* main() ran, its output is stored under the key hashed before it, and written.
Evaluate(w, t, c) ==
  LET out == Output(w, t, c) IN
  /\ ToEvaluate(w, t, c) /\ ~ Fails(w, t, c)
  /\ box' = [box EXCEPT ![w] = BoxAfter(w, c)]
  /\ flags' = [flags EXCEPT ![w] = FlagsAfter(w, c)]
  /\ store' = IF Cacheable(c) THEN store \cup {[key |-> missed[w], out |-> out]} ELSE store
  /\ Publish(t, c, out, FALSE)
  /\ missed' = [missed EXCEPT ![w] = None]
  /\ done' = [done EXCEPT ![w] = @ + 1]
  /\ before' = [before EXCEPT ![w] = @ \cup {c}]
  /\ UNCHANGED <<user, run, current, digest, hashed, edits, raced>>

\* The component raises, before its chart has written its flags or after.  The
\* target is lost, the worker is not; or the config is to go on after an error.
EvaluateFails(w, t, c) ==
  /\ ToEvaluate(w, t, c) /\ Fails(w, t, c)
  /\ box' = [box EXCEPT ![w] = BoxAfter(w, c)]
  /\ \E own \in {flags[w], FlagsAfter(w, c)} : flags' = [flags EXCEPT ![w] = own]
  /\ \/ /\ failed' = TRUE
        /\ current' = [current EXCEPT ![w] = None]
        /\ done' = [done EXCEPT ![w] = 0]
     \/ /\ done' = [done EXCEPT ![w] = @ + 1]
        /\ UNCHANGED <<failed, current>>
  /\ missed' = [missed EXCEPT ![w] = None]
  /\ before' = [before EXCEPT ![w] = @ \cup {c}]
  /\ UNCHANGED <<user, store, phase, useCache, todo, runs, digest, hashed,
                 published, edits, raced>>

FinishTarget(w, t) ==
  /\ current[w] = t /\ done[w] = Len(Inputs[t])
  /\ current' = [current EXCEPT ![w] = None]
  /\ done' = [done EXCEPT ![w] = 0]
  /\ UNCHANGED <<user, store, run, missed, memo, published, edits, before, raced>>

\* All targets are through, or one failed; the pool is gone with what it remembered.
EndRun ==
  /\ phase = "running"
  /\ failed \/ (todo = {} /\ \A w \in Workers : current[w] = None)
  /\ phase' = "editing" /\ todo' = {} /\ failed' = FALSE
  /\ current' = [w \in Workers |-> None]
  /\ missed' = [w \in Workers |-> None]
  /\ done' = [w \in Workers |-> 0]
  /\ published' = {}
  /\ FreshWorkers
  /\ UNCHANGED <<user, store, useCache, runs, edits, raced>>

-----------------------------------------------------------------------------
(* The user's edits *)

\* A target's parameters with the optional key, the consumed topics, or what it gives
\* to a topic changed.
EditedTarget(t) ==
  {[inv[t] EXCEPT !.key = k] : k \in {"set", None}}
    \cup {[inv[t] EXCEPT !.consume = s] : s \in SUBSET Topics}
    \cup {[inv[t] EXCEPT !.gives[n] = v] : n \in Topics, v \in Params \cup {None}}

\* The inventory is rendered before the pool starts: an edit in a run is one after it.
EditInventory(t) ==
  /\ phase = "editing" /\ edits < MaxEdits /\ edits' = edits + 1
  /\ \E new \in EditedTarget(t) : inv' = [inv EXCEPT ![t] = new]
  /\ inv' # inv
  /\ UNCHANGED <<source, store, run, current, done, missed, memo, published, before, raced>>

EditedSource(c) ==
  {[source[c] EXCEPT !.text = v] : v \in Versions}
    \cup {[source[c] EXCEPT !.names = v] : v \in Versions}

\* Components are read during the run.
EditSource(c) ==
  /\ edits < MaxEdits /\ edits' = edits + 1
  /\ \E new \in EditedSource(c) : source' = [source EXCEPT ![c] = new]
  /\ source' # source
  /\ raced' = IF phase = "running" THEN raced \cup {c} ELSE raced
  /\ UNCHANGED <<inv, store, run, current, done, missed, memo, published, before>>

Next ==
  \/ \E b \in BOOLEAN : StartRun(b)
  \/ \E w \in Workers, t \in Targets : TakeTarget(w, t) \/ FinishTarget(w, t)
  \/ \E w \in Workers, t \in Targets, c \in Components :
       Lookup(w, t, c) \/ Evaluate(w, t, c) \/ EvaluateFails(w, t, c)
  \/ EndRun
  \/ \E t \in Targets : EditInventory(t)
  \/ \E c \in Components : EditSource(c)

Spec == Init /\ [][Next]_vars

-----------------------------------------------------------------------------
(* Properties *)

\* What goes into the key is never out of date in an output, computed or served:
\* the component's text unless it was edited while a run was reading it, the
\* target's own inventory, and the parameters of every topic shown, although
\* those belong to other targets.
HashedIsCurrent ==
  \A p \in published :
    /\ p.comp \in raced \/ p.out.text = source[p.comp].text
    /\ p.out.own = "set" => inv[p.target].key = "set"
    /\ p.out.own = "empty" => inv[p.target].key = None
    /\ \A n \in DOMAIN p.out.views : p.out.views[n] = TopicView(n)

\* No output shows a topic its target does not declare to consume, not even one
\* that was stored when it did.
TopicsWereDeclared ==
  \A p \in published : DOMAIN p.out.views \subseteq inv[p.target].consume

\* Where a chart is rendered with a flag that is neither its own nor the default,
\* a kadet chart that sets that flag was rendered earlier in the process that
\* computed the output.
FlagsHaveACause ==
  \A p \in published : Program[p.comp].chart =>
    \A f \in FlagNames :
      p.out.flags[f] # Overlaid(Program[p.comp].flags, DefaultFlags)[f] =>
        \E d \in p.out.after :
          /\ Program[d].kind = "kadet" /\ Program[d].chart
          /\ f \in DOMAIN Program[d].flags /\ Program[d].flags[f] = p.out.flags[f]

\* A missing key reads as empty only where somebody asked the process for a lazy
\* inventory, and in no run with --cache, so that no such output is ever stored.
EmptyHasACause ==
  \A p \in published : p.out.own = "empty" =>
    /\ ~ useCache
    /\ \E d \in p.out.after \cup {p.comp} : Program[d].reads = "lazy"
=============================================================================
