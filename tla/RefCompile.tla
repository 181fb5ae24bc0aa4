----------------------------- MODULE RefCompile -----------------------------
(***************************************************************************)
(* Compiling references: Revealer.compile_obj and RefController in         *)
(* kapitan/refs/base.py, as the workers of a compile pool execute them on  *)
(* the ref files under --refs-path, which all targets share and which      *)
(* outlive the run.                                                        *)
(*                                                                         *)
(* A target's object is a dictionary.  A value of it is a string or a list *)
(* of strings, and what counts of it are the tags in it, in order.  A tag  *)
(* names the path of a ref file and where its content is to come from when *)
(* there is no such file: from nowhere, from a generator, or revealed from *)
(* the ref file at another path (a public key, say).  A ref's content is a *)
(* sequence: the number of the generator's call, and a 0 for each time it  *)
(* was revealed and derived from.  A compiled tag carries a hash of the    *)
(* content (or the content itself), so it stands for that content.         *)
(***************************************************************************)
EXTENDS Naturals, Sequences, FiniteSets

CONSTANTS
  Targets,   \* the targets; each is compiled by a worker of the pool
  Paths,     \* of ref files
  Objects,   \* Objects[t]: the objects that target t may compile
  None,      \* the tag has no function
  Generator, \* the tag's function generates the content (random, rsa, ...)
  Missing,   \* there is no file
  Broken,    \* a file that does not load: empty, or two writers' remains
  MaxRuns    \* bound: runs of kapitan

Tag == [path : Paths, from : Paths \cup {None, Generator}]
Value == [string : BOOLEAN, tags : Seq(Tag)]
Content == Seq(Nat)

ASSUME RefAssumption ==
  /\ Objects \in [Targets -> SUBSET Seq(Value)]
  /\ None \notin Paths /\ Generator \notin Paths /\ None # Generator
  /\ Missing \notin Content /\ Broken \notin Content /\ Missing # Broken
  /\ MaxRuns \in Nat

VARIABLES
  object,    \* object[t]: the object that t compiles
  files,     \* files[p]: the ref file at p
  calls,     \* calls of generators so far
  run,       \* the number of this run
  pc,        \* where t's worker is
  key,       \* key[t]: index of the dictionary's value it is at
  compiled,  \* successfully_compiled_keys
  progress,  \* compiled_any_key_this_pass
  pass,      \* _current_pass
  final,     \* final[t]: t is at _compile_remaining_keys
  content,   \* content[t]: what its function has produced
  out        \* out[t][k]: what the tags of value k have compiled to

loop == <<key, compiled, progress, pass, final>>
vars == <<object, files, calls, run, pc, key, compiled, progress, pass, final, content, out>>

PCs == {"key", "get", "make", "open", "write", "getAgain", "done", "failed"}

TypeOK ==
  /\ object \in [Targets -> Seq(Value)]
  /\ files \in [Paths -> Content \cup {Missing, Broken}]
  /\ calls \in Nat
  /\ run \in Nat
  /\ pc \in [Targets -> PCs]
  /\ key \in [Targets -> Nat]
  /\ compiled \in [Targets -> SUBSET Nat]
  /\ progress \in [Targets -> BOOLEAN]
  /\ pass \in [Targets -> Nat]
  /\ \A t \in Targets : pass[t] <= Len(object[t])
  /\ final \in [Targets -> BOOLEAN]
  /\ content \in [Targets -> Content]
  /\ out = [t \in Targets |-> out[t]]
  /\ \A t \in Targets : out[t] \in [DOMAIN object[t] -> Seq(Content)]

\* The tags of object o.
TagsIn(o) == {g \in Tag : \E k \in DOMAIN o : \E i \in DOMAIN o[k].tags : g = o[k].tags[i]}

Keys(t) == DOMAIN object[t]
TagsOf(t) == TagsIn(object[t])
PathsOf(t) == {g.path : g \in TagsOf(t)}
Nothing(t) == [k \in Keys(t) |-> <<>>]

\* Refs that are not derived may have been written before, by `kapitan refs`.
Init ==
  /\ object \in [Targets -> UNION {Objects[u] : u \in Targets}]
  /\ \A t \in Targets : object[t] \in Objects[t]
  /\ \E mine \in SUBSET Paths :
       /\ \A t \in Targets : \A g \in TagsOf(t) : g.from \in Paths => g.path \notin mine
       /\ files = [p \in Paths |-> IF p \in mine THEN <<0>> ELSE Missing]
  /\ calls = 0
  /\ run = 1
  /\ pc = [t \in Targets |-> "key"]
  /\ key = [t \in Targets |-> 1]
  /\ compiled = [t \in Targets |-> {}]
  /\ progress = [t \in Targets |-> FALSE]
  /\ pass = [t \in Targets |-> 0]
  /\ final = [t \in Targets |-> FALSE]
  /\ content = [t \in Targets |-> <<>>]
  /\ out = [t \in Targets |-> Nothing(t)]

-----------------------------------------------------------------------------
Goto(t, where) == pc' = [pc EXCEPT ![t] = where]

ValueAt(t) == object[t][key[t]]
TagAt(t) == ValueAt(t).tags[Len(out[t][key[t]]) + 1]

(* The passes over the dictionary *)

\* The keys that the loop still comes to in this pass.
Ahead(t) == {k \in Keys(t) \ compiled[t] : k >= key[t]}

\* Value k is compiled.
Completes(t, k) ==
  /\ compiled' = [compiled EXCEPT ![t] = @ \cup {k}]
  /\ progress' = [progress EXCEPT ![t] = TRUE]
  /\ Goto(t, "key")

\* The next key that is not compiled yet.  A value without a tag is what it compiles to.
NextKey(t) ==
  /\ pc[t] = "key"
  /\ \E k \in Ahead(t) :
       /\ \A j \in Ahead(t) : k <= j
       /\ key' = [key EXCEPT ![t] = k]
       /\ IF object[t][k].tags = <<>> THEN Completes(t, k)
          ELSE Goto(t, "get") /\ UNCHANGED <<compiled, progress>>
  /\ UNCHANGED <<object, files, calls, run, pass, final, content, out>>

\* Mutant of PassEnds: keys that remain are left as they are.
PassEndsWithoutFinal(t) ==
  /\ pc[t] = "key"
  /\ Ahead(t) = {}
  /\ key' = [key EXCEPT ![t] = 1]
  /\ IF compiled[t] = Keys(t) \/ ~ progress[t] \/ pass[t] = Len(object[t])
     THEN /\ Goto(t, "done")
          /\ UNCHANGED <<progress, pass>>
     ELSE /\ pass' = [pass EXCEPT ![t] = @ + 1]
          /\ progress' = [progress EXCEPT ![t] = FALSE]
          /\ UNCHANGED pc
  /\ UNCHANGED <<object, files, calls, run, compiled, final, content, out>>

\* Mutant of PassEnds: passes go on until every key is compiled.
PassEndsNever(t) ==
  /\ pc[t] = "key"
  /\ Ahead(t) = {}
  /\ key' = [key EXCEPT ![t] = 1]
  /\ IF compiled[t] = Keys(t) THEN Goto(t, "done") ELSE UNCHANGED pc
  /\ UNCHANGED <<object, files, calls, run, compiled, progress, pass, final, content, out>>

\* A pass ends.  There is another one, len(dictionary) + 1 of them at most, if
\* this one has compiled something and not all is compiled; else the final one,
\* in which errors propagate.
PassEnds(t) ==
  /\ pc[t] = "key"
  /\ Ahead(t) = {}
  /\ key' = [key EXCEPT ![t] = 1]
  /\ \/ /\ final[t]
        /\ Goto(t, "done")
        /\ UNCHANGED <<progress, pass, final>>
     \/ /\ ~ final[t]
        /\ compiled[t] = Keys(t) \/ ~ progress[t] \/ pass[t] = Len(object[t])
        /\ final' = [final EXCEPT ![t] = TRUE]
        /\ UNCHANGED <<pc, progress, pass>>
     \/ /\ ~ final[t]
        /\ compiled[t] # Keys(t) /\ progress[t] /\ pass[t] < Len(object[t])
        /\ pass' = [pass EXCEPT ![t] = @ + 1]
        /\ progress' = [progress EXCEPT ![t] = FALSE]
        /\ UNCHANGED <<pc, final>>
  /\ UNCHANGED <<object, files, calls, run, compiled, content, out>>

\* The value at hand has compiled to these tokens so far.
Becomes(t, tokens) == out' = [out EXCEPT ![t] = [@ EXCEPT ![key[t]] = tokens]]

\* The tag at hand compiles to what is in its ref file; the last tag of a value
\* completes it.
Took(t) ==
  /\ Becomes(t, Append(out[t][key[t]], files[TagAt(t).path]))
  /\ IF Len(out[t][key[t]]) + 1 = Len(ValueAt(t).tags) THEN Completes(t, key[t])
     ELSE Goto(t, "get") /\ UNCHANGED <<compiled, progress>>
  /\ UNCHANGED <<object, files, calls, run, key, pass, final, content>>

Reveals(value) == \E i \in DOMAIN value.tags : value.tags[i].from \in Paths

\* Mutant of RefFails: no key is left for a later pass.
RefFailsAtOnce(t) ==
  /\ Goto(t, "failed")
  /\ UNCHANGED <<object, files, calls, run, loop, content, out>>

\* RefError or KeyError: a string that reveals is left for a later pass, unless
\* this is the final one; otherwise the target fails.
RefFails(t) ==
  /\ IF ValueAt(t).string /\ Reveals(ValueAt(t)) /\ ~ final[t]
     THEN /\ Goto(t, "key")
          /\ key' = [key EXCEPT ![t] = @ + 1]
          /\ Becomes(t, <<>>)
     ELSE /\ Goto(t, "failed")
          /\ UNCHANGED <<key, out>>
  /\ UNCHANGED <<object, files, calls, run, compiled, progress, pass, final, content>>

\* A file that does not load raises an error that no pass catches.
Crash(t) ==
  /\ Goto(t, "failed")
  /\ UNCHANGED <<object, files, calls, run, loop, content, out>>

-----------------------------------------------------------------------------
(* One tag: RefController.__getitem__ and __setitem__ *)

\* Mutant of Get: a ref with a function is made whether it exists or not.
GetAlwaysMakes(t) ==
  /\ pc[t] = "get"
  /\ IF TagAt(t).from # None
     THEN /\ Goto(t, "make")
          /\ UNCHANGED <<object, files, calls, run, loop, content, out>>
     ELSE IF files[TagAt(t).path] \in Content THEN Took(t) ELSE Crash(t)

\* The ref exists, or RefFromFuncError asks for it to be made.
Get(t) ==
  LET file == files[TagAt(t).path] IN
  /\ pc[t] = "get"
  /\ \/ file \in Content /\ Took(t)
     \/ file = Broken /\ Crash(t)
     \/ file = Missing /\ TagAt(t).from = None /\ RefFails(t)
     \/ /\ file = Missing /\ TagAt(t).from # None
        /\ Goto(t, "make")
        /\ UNCHANGED <<object, files, calls, run, loop, content, out>>

Generate(t) ==
  /\ TagAt(t).from = Generator
  /\ calls' = calls + 1
  /\ content' = [content EXCEPT ![t] = <<calls'>>]
  /\ Goto(t, "open")
  /\ UNCHANGED <<object, files, run, loop, out>>

\* Mutant of Derive: the function works on the data it had before.
DeriveStale(t) ==
  /\ TagAt(t).from \in Paths
  /\ IF files[TagAt(t).from] \in Content
     THEN /\ content' = [content EXCEPT ![t] = Append(@, 0)]
          /\ Goto(t, "open")
          /\ UNCHANGED <<object, files, calls, run, loop, out>>
     ELSE RefFails(t)

Derive(t) ==
  LET source == files[TagAt(t).from] IN
  /\ TagAt(t).from \in Paths
  /\ \/ /\ source \in Content
        /\ content' = [content EXCEPT ![t] = Append(source, 0)]
        /\ Goto(t, "open")
        /\ UNCHANGED <<object, files, calls, run, loop, out>>
     \/ source = Broken /\ Crash(t)
     \/ source = Missing /\ RefFails(t)

\* _eval_func_str
Make(t) == pc[t] = "make" /\ (Generate(t) \/ Derive(t))

\* open(full_ref_path, "w") truncates the file, whatever is in it by now.
Open(t) ==
  /\ pc[t] = "open"
  /\ files' = [files EXCEPT ![TagAt(t).path] = Broken]
  /\ Goto(t, "write")
  /\ UNCHANGED <<object, calls, run, loop, content, out>>

\* safe_dump writes from the start of the file.  What another worker has
\* written there since may be longer.
Write(t) ==
  LET p == TagAt(t).path IN
  /\ pc[t] = "write"
  /\ \E new \in {content[t]} \cup (IF files[p] = Broken THEN {} ELSE {Broken}) :
       files' = [files EXCEPT ![p] = new]
  /\ Goto(t, "getAgain")
  /\ UNCHANGED <<object, calls, run, loop, content, out>>

\* The ref that was made is read back.
GetAgain(t) ==
  LET file == files[TagAt(t).path] IN
  /\ pc[t] = "getAgain"
  /\ \/ file \in Content /\ Took(t)
     \/ file = Broken /\ Crash(t)

-----------------------------------------------------------------------------
\* The run ends, or is killed, wherever its workers are; kapitan is run again.
NextRun ==
  /\ run < MaxRuns
  /\ run' = run + 1
  /\ pc' = [t \in Targets |-> "key"]
  /\ key' = [t \in Targets |-> 1]
  /\ compiled' = [t \in Targets |-> {}]
  /\ progress' = [t \in Targets |-> FALSE]
  /\ pass' = [t \in Targets |-> 0]
  /\ final' = [t \in Targets |-> FALSE]
  /\ content' = [t \in Targets |-> <<>>]
  /\ out' = [t \in Targets |-> Nothing(t)]
  /\ UNCHANGED <<object, files, calls>>

Ended(t) == pc[t] \in {"done", "failed"}

Over == (\A t \in Targets : Ended(t)) /\ UNCHANGED vars

Work(t) ==
  \/ NextKey(t) \/ PassEnds(t)
  \/ Get(t) \/ Make(t) \/ Open(t) \/ Write(t) \/ GetAgain(t)

Next == (\E t \in Targets : Work(t)) \/ NextRun \/ Over

Spec == Init /\ [][Next]_vars

\* Every worker of the pool is scheduled.
FairSpec == Spec /\ \A t \in Targets : WF_vars(Work(t))

-----------------------------------------------------------------------------
(* Properties *)

\* Every tag of a target that has compiled stands for what its ref file holds:
\* revealing the output finds no hash that does not match, and no tag that was
\* passed over.
TokensAreStored ==
  \A t \in Targets : pc[t] = "done" =>
    \A k \in Keys(t) :
      out[t][k] = [i \in DOMAIN object[t][k].tags |-> files[object[t][k].tags[i].path]]

\* A derived ref belongs to the ref it was derived from: the public key that is
\* stored is the one of the private key that is stored.
DerivedMatches ==
  \A t \in Targets : \A g \in TagsOf(t) :
    g.from \in Paths /\ files[g.path] \in Content /\ files[g.from] \in Content =>
      files[g.path] = Append(files[g.from], 0)

\* S has what the tags of t make of what is in S.
Closed(t, S) == \A g \in TagsOf(t) : g.from = Generator \/ g.from \in S => g.path \in S

Existing == {p \in Paths : files[p] # Missing}

\* What the tags of t can come to: what exists, and what is made of it in turn.
Obtainable(t) ==
  {p \in Paths : \A S \in SUBSET Paths : Existing \subseteq S /\ Closed(t, S) => p \in S}

\* "When the dependency is missing but can be auto-generated, this function
\* creates it first" (refs/functions.py, reveal), "base references are created
\* first; dependent references are processed after their dependencies exist"
\* (refs/base.py, compile_obj): in whatever order its keys come, a target fails
\* only over a ref that cannot be had, or a file that does not load.
ObtainableCompiles ==
  \A t \in Targets : pc[t] = "failed" =>
    \/ \E p \in PathsOf(t) : files[p] = Broken
    \/ ~ (PathsOf(t) \subseteq Obtainable(t))

\* "if func is set and ref doesnt exist, raise RefFromFuncError to indicate new
\* ref needs to be created" (refs/base.py): a ref that exists is never replaced
\* by its function.
ExistingIsKept ==
  [][\A p \in Paths : files[p] \in Content => files'[p] = files[p]]_files

\* The passes end, also over references that wait for each other.
CompileEnds == \A t \in Targets : ~ Ended(t) ~> Ended(t)
=============================================================================
