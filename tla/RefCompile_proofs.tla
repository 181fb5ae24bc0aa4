-------------------------- MODULE RefCompile_proofs --------------------------
(***************************************************************************)
(* For any objects, paths and number of workers, runs and kills, when the  *)
(* targets have refs of their own: what has been compiled is what the ref  *)
(* files hold, a ref that exists is not made again, a derived ref belongs  *)
(* to its source, and, for objects whose values reveal with a single tag,  *)
(* what can be obtained compiles whatever the order of the keys.           *)
(***************************************************************************)
EXTENDS RefCompile, FiniteSetTheorems, TLAPS

-----------------------------------------------------------------------------
(* What the theorems ask of the objects *)

\* A ref that one target compiles is neither compiled nor revealed by another.
Apart ==
  \A t, u \in Targets : t # u =>
    \A o \in Objects[t], w \in Objects[u] : \A g \in TagsIn(o), h \in TagsIn(w) :
      g.path # h.path /\ g.path # h.from

\* An object makes a ref in one way.
OneSource ==
  \A t \in Targets : \A o \in Objects[t] : \A g, h \in TagsIn(o) :
    g.path = h.path /\ g.from # None /\ h.from # None => g.from = h.from

\* A value that reveals is a string with one tag.
Single ==
  \A t \in Targets : \A o \in Objects[t] : \A k \in DOMAIN o :
    Reveals(o[k]) => o[k].string /\ Len(o[k].tags) = 1

\* A tag without a function names a ref that the object does not make, or that is in an
\* earlier value which reveals nothing.
Given ==
  \A t \in Targets : \A o \in Objects[t] : \A k \in DOMAIN o : \A i \in DOMAIN o[k].tags :
    o[k].tags[i].from = None =>
      \/ \A h \in TagsIn(o) : h.path = o[k].tags[i].path => h.from = None
      \/ \E j \in 1 .. k - 1 : /\ ~ Reveals(o[j])
                             /\ \E m \in DOMAIN o[j].tags : o[j].tags[m].path = o[k].tags[i].path

-----------------------------------------------------------------------------
(* The inductive invariant, in parts *)

Working(t) == pc[t] \in {"get", "make", "open", "write", "getAgain"}

\* A worker in a value is at one of its tags, and the value is not compiled.
AtTag(t) ==
  Working(t) => /\ key[t] \in Keys(t) \ compiled[t]
                /\ Len(out[t][key[t]]) < Len(ValueAt(t).tags)

\* What is at the path of the ref that is being made.
MidInv(t) ==
  /\ pc[t] \in {"make", "open", "write"} => TagAt(t).from # None
  /\ pc[t] \in {"make", "open"} => files[TagAt(t).path] = Missing
  /\ pc[t] = "write" => files[TagAt(t).path] = Broken
  /\ pc[t] = "getAgain" => files[TagAt(t).path] \in Content

\* What has been compiled is what the files hold.
OutInv(t) ==
  \A k \in Keys(t) :
    /\ \A i \in 1 .. Len(out[t][k]) : out[t][k][i] = files[object[t][k].tags[i].path]
    /\ Len(out[t][k]) <= Len(object[t][k].tags)
    /\ k \in compiled[t] => Len(out[t][k]) = Len(object[t][k].tags)
    /\ k \notin compiled[t] /\ pc[t] # "failed" /\ (Working(t) => k # key[t]) => out[t][k] = <<>>

\* Only values that reveal are passed by, and in the final pass none is.
FinalInv(t) ==
  /\ compiled[t] \subseteq Keys(t)
  /\ ~ Ended(t) => \A k \in Keys(t) \ compiled[t] :
                      k < key[t] => ~ final[t] /\ Reveals(object[t][k])
  /\ pc[t] = "done" => compiled[t] = Keys(t)

Good(t) == AtTag(t) /\ MidInv(t) /\ OutInv(t) /\ FinalInv(t)

\* Broken files are at paths of the targets.
BrokenInv == \A p \in Paths : files[p] = Broken => \E t \in Targets : p \in PathsOf(t)

IInv ==
  /\ TypeOK
  /\ \A t \in Targets : object[t] \in Objects[t]
  /\ \A t \in Targets : Good(t)

\* A file that is derived has its source, and belongs to it.
Matches(t) ==
  /\ \A g \in TagsOf(t) : g.from \in Paths /\ files[g.path] \in Content =>
       files[g.from] \in Content /\ files[g.path] = Append(files[g.from], 0)
  /\ pc[t] \in {"open", "write"} /\ TagAt(t).from \in Paths =>
       files[TagAt(t).from] \in Content /\ content[t] = Append(files[TagAt(t).from], 0)

\* Value k waits for the ref that it reveals.
Blocked(t, k) ==
  \E g \in TagsOf(t) : /\ object[t][k].tags = <<g>> /\ g.from \in Paths
                       /\ files[g.from] = Missing /\ files[g.path] = Missing

\* Unless this pass has compiled something, the values it has passed by are waiting, and in the
\* final pass all that are left are.
BlockedInv(t) ==
  /\ /\ ~ progress[t]
     /\ pc[t] = "key" \/ (pc[t] \in {"get", "make", "open"} /\ Reveals(ValueAt(t)))
     => \A k \in Keys(t) \ compiled[t] : k < key[t] => Blocked(t, k)
  /\ final[t] => /\ pc[t] \notin {"open", "write", "getAgain"}
                 /\ pc[t] # "failed" => \A k \in Keys(t) \ compiled[t] : Blocked(t, k)

\* Every pass but the last has compiled something.
CountInv(t) ==
  /\ IsFiniteSet(compiled[t])
  /\ ~ final[t] => Cardinality(compiled[t]) >= pass[t] + (IF progress[t] THEN 1 ELSE 0)

Waiting(t) == BlockedInv(t) /\ CountInv(t)

\* Why t has failed: a file is broken, a ref has to be given, or all that is
\* made of what exists is there and something is missing.
FailInv(t) ==
  pc[t] = "failed" =>
    \/ \E p \in PathsOf(t) : files[p] = Broken
    \/ \E g \in TagsOf(t) : /\ files[g.path] = Missing
                           /\ \A h \in TagsOf(t) : h.path = g.path => h.from = None
    \/ /\ \A g \in TagsOf(t) :
            g.from = Generator \/ (g.from \in Paths /\ files[g.from] # Missing)
            => files[g.path] # Missing
       /\ \E g \in TagsOf(t) : files[g.path] = Missing
-----------------------------------------------------------------------------
(* Tags *)

\* The values and tags of an object, and what the invariant says of the tag at hand.
LEMMA ValueType ==
  ASSUME NEW o \in Seq(Value), NEW k \in DOMAIN o
  PROVE  /\ o[k].tags \in Seq(Tag) /\ o[k].string \in BOOLEAN
         /\ Len(o[k].tags) \in Nat /\ DOMAIN o[k].tags = 1 .. Len(o[k].tags)
<1>1. o[k] \in Value
  OBVIOUS
<1>2. o[k].tags \in Seq(Tag) /\ o[k].string \in BOOLEAN
  BY <1>1 DEF Value
<1> QED BY <1>2

LEMMA TagType ==
  ASSUME NEW o \in Seq(Value), NEW k \in DOMAIN o, NEW i \in DOMAIN o[k].tags
  PROVE  /\ o[k].tags[i] \in TagsIn(o)
         /\ o[k].tags[i].path \in Paths
         /\ o[k].tags[i].from \in Paths \cup {None, Generator}
<1>1. o[k].tags[i] \in Tag
  BY ValueType
<1> QED BY <1>1 DEF Tag, TagsIn

LEMMA AtHand ==
  ASSUME TypeOK, NEW t \in Targets, AtTag(t), Working(t)
  PROVE  /\ key[t] \in Keys(t) /\ key[t] \notin compiled[t]
         /\ ValueAt(t).tags \in Seq(Tag)
         /\ out[t][key[t]] \in Seq(Content)
         /\ Len(out[t][key[t]]) + 1 \in DOMAIN ValueAt(t).tags
         /\ TagAt(t) \in TagsOf(t)
         /\ TagAt(t).path \in Paths
         /\ TagAt(t).from \in Paths \cup {None, Generator}
<1> DEFINE n == Len(out[t][key[t]])
<1>1. object[t] \in Seq(Value) /\ key[t] \in DOMAIN object[t]
  BY DEF TypeOK, AtTag, Keys
<1>2. ValueAt(t).tags \in Seq(Tag)
  BY <1>1, ValueType DEF ValueAt
<1>3. out[t][key[t]] \in Seq(Content)
  BY <1>1 DEF TypeOK
<1>4. n + 1 \in DOMAIN ValueAt(t).tags
  <2>1. n \in Nat /\ n < Len(ValueAt(t).tags)
    BY <1>3 DEF AtTag
  <2> DEFINE tags == ValueAt(t).tags
  <2>2. DOMAIN tags = 1 .. Len(tags) /\ Len(tags) \in Nat
    BY <1>2
  <2> QED BY <2>1, <2>2
<1>5. /\ TagAt(t) \in TagsOf(t)
      /\ TagAt(t).path \in Paths
      /\ TagAt(t).from \in Paths \cup {None, Generator}
  BY <1>1, <1>4, TagType DEF TagAt, ValueAt, TagsOf
<1> QED BY <1>2, <1>3, <1>4, <1>5 DEF AtTag, ValueAt

-----------------------------------------------------------------------------
(* Types *)

LEMMA InitTypes ==
  ASSUME RefAssumption, Init  PROVE TypeOK
<1>1. object \in [Targets -> Seq(Value)]
  BY DEF Init, RefAssumption
<1>2. files \in [Paths -> Content \cup {Missing, Broken}]
  BY DEF Init, Content
<1>3. \A t \in Targets : Nothing(t) \in [DOMAIN object[t] -> Seq(Content)]
  BY DEF Nothing, Keys
<1>4. \A t \in Targets : Len(object[t]) \in Nat
  BY <1>1
<1> QED BY <1>1, <1>2, <1>3, <1>4 DEF Init, TypeOK, PCs, Content

LEMMA TookTypes ==
  ASSUME TypeOK, NEW t \in Targets, AtTag(t), Working(t), Took(t), files[TagAt(t).path] \in Content
  PROVE  TypeOK'
<1>1. Append(out[t][key[t]], files[TagAt(t).path]) \in Seq(Content)
  BY AtHand
<1>2. \A u \in Targets : out'[u] \in [DOMAIN object[u] -> Seq(Content)]
  BY <1>1 DEF TypeOK, Took, Becomes
<1>3. key[t] \in Nat
  BY DEF TypeOK
<1>4. compiled' \in [Targets -> SUBSET Nat]
  <2>1. \/ compiled' = [compiled EXCEPT ![t] = compiled[t] \cup {key[t]}]
        \/ compiled' = compiled
    BY DEF Took, Completes
  <2>2. compiled \in [Targets -> SUBSET Nat]
    BY DEF TypeOK
  <2> QED BY <1>3, <2>1, <2>2
<1> QED BY <1>2, <1>4 DEF TypeOK, Took, Becomes, Completes, Goto, PCs

LEMMA FailTypes ==
  ASSUME TypeOK, NEW t \in Targets, RefFails(t) \/ Crash(t)
  PROVE  TypeOK'
<1>1. CASE Crash(t)
  BY <1>1 DEF TypeOK, Crash, Goto, loop, PCs
<1>2. CASE RefFails(t)
  <2>1. CASE Goto(t, "failed") /\ UNCHANGED <<key, out>>
    BY <1>2, <2>1 DEF TypeOK, RefFails, Goto, PCs
  <2>2. CASE Goto(t, "key") /\ key' = [key EXCEPT ![t] = @ + 1] /\ Becomes(t, <<>>)
    <3>1. <<>> \in Seq(Content)
      OBVIOUS
    <3>2. \A u \in Targets : out'[u] \in [DOMAIN object[u] -> Seq(Content)]
      BY <2>2, <3>1 DEF TypeOK, Becomes
    <3>3. key' \in [Targets -> Nat] /\ pc' \in [Targets -> PCs]
      BY <2>2 DEF TypeOK, Goto, PCs
    <3> QED BY <1>2, <2>2, <3>2, <3>3 DEF TypeOK, RefFails, Becomes
  <2> QED BY <1>2, <2>1, <2>2 DEF RefFails
<1> QED BY <1>1, <1>2

LEMMA StepTypes ==
  ASSUME TypeOK, NEW t \in Targets, AtTag(t), Work(t)
  PROVE  TypeOK'
<1>1. CASE NextKey(t)
  <2>1. PICK k \in Ahead(t) : /\ key' = [key EXCEPT ![t] = k]
                              /\ IF object[t][k].tags = <<>> THEN Completes(t, k)
                                 ELSE Goto(t, "get") /\ UNCHANGED <<compiled, progress>>
    BY <1>1 DEF NextKey
  <2>2. k \in Nat
    BY DEF Ahead, Keys, TypeOK
  <2>3. pc' \in [Targets -> PCs] /\ compiled' \in [Targets -> SUBSET Nat]
        /\ progress' \in [Targets -> BOOLEAN]
    <3>1. CASE Completes(t, k)
      BY <2>2, <3>1 DEF TypeOK, Completes, Goto, PCs
    <3>2. CASE Goto(t, "get") /\ UNCHANGED <<compiled, progress>>
      BY <3>2 DEF TypeOK, Goto, PCs
    <3> QED BY <2>1, <3>1, <3>2
  <2> QED BY <1>1, <2>1, <2>2, <2>3 DEF TypeOK, NextKey
<1>2. CASE PassEnds(t)
  <2>1. pass' \in [Targets -> Nat] /\ (\A u \in Targets : pass'[u] <= Len(object[u]))
    <3>1. CASE pass[t] < Len(object[t]) /\ pass' = [pass EXCEPT ![t] = @ + 1]
      <4>1. Len(object[t]) \in Nat /\ pass[t] \in Nat
        BY DEF TypeOK
      <4> QED BY <3>1, <4>1 DEF TypeOK
    <3>2. CASE UNCHANGED pass
      BY <3>2 DEF TypeOK
    <3> QED BY <1>2, <3>1, <3>2 DEF PassEnds
  <2> QED BY <1>2, <2>1 DEF TypeOK, PassEnds, Goto, PCs
<1>3. CASE Get(t)
  <2>1. CASE Goto(t, "make") /\ UNCHANGED <<object, files, calls, run, loop, content, out>>
    BY <2>1 DEF TypeOK, Goto, loop, PCs
  <2> QED BY <1>3, <2>1, TookTypes, FailTypes DEF Get, Working
<1>4. CASE Make(t)
  <2>1. CASE Generate(t)
    <3>1. calls + 1 \in Nat /\ <<calls + 1>> \in Content
      BY DEF TypeOK, Content
    <3>2. calls' = calls + 1 /\ content' = [content EXCEPT ![t] = <<calls + 1>>]
      BY <2>1 DEF Generate
    <3> QED BY <2>1, <3>1, <3>2 DEF TypeOK, Generate, Goto, loop, PCs
  <2>2. CASE /\ files[TagAt(t).from] \in Content
             /\ content' = [content EXCEPT ![t] = Append(files[TagAt(t).from], 0)]
             /\ Goto(t, "open")
             /\ UNCHANGED <<object, files, calls, run, loop, out>>
    <3>1. Append(files[TagAt(t).from], 0) \in Content
      BY <2>2 DEF Content
    <3> QED BY <2>2, <3>1 DEF TypeOK, Goto, loop, PCs
  <2> QED BY <1>4, <2>1, <2>2, FailTypes DEF Make, Derive
<1>5. CASE Open(t)
  BY <1>5 DEF TypeOK, Open, Goto, loop, PCs
<1>6. CASE Write(t)
  <2>1. files' \in [Paths -> Content \cup {Missing, Broken}]
    BY <1>6 DEF TypeOK, Write
  <2> QED BY <1>6, <2>1 DEF TypeOK, Write, Goto, loop, PCs
<1>7. CASE GetAgain(t)
  BY <1>7, TookTypes, FailTypes DEF GetAgain, Working
<1> QED BY <1>1, <1>2, <1>3, <1>4, <1>5, <1>6, <1>7 DEF Work
-----------------------------------------------------------------------------
(* What a step of a worker leaves alone *)

\* Nothing of worker u changes.
Same(u) ==
  /\ object' = object
  /\ pc'[u] = pc[u] /\ key'[u] = key[u] /\ compiled'[u] = compiled[u]
  /\ progress'[u] = progress[u] /\ pass'[u] = pass[u] /\ final'[u] = final[u]
  /\ content'[u] = content[u] /\ out'[u] = out[u]

LEMMA ObjectStays ==
  ASSUME NEW t \in Targets, Work(t)  PROVE object' = object
BY DEF Work, NextKey, PassEnds, Get, Make, Generate, Derive, Open, Write, GetAgain, Took,
       RefFails, Crash

LEMMA OthersStay ==
  ASSUME TypeOK, NEW t \in Targets, Work(t), NEW u \in Targets, u # t
  PROVE  Same(u)
<1> USE DEF Goto
<1>1. CASE NextKey(t)
  <2>1. /\ key'[u] = key[u] /\ pc'[u] = pc[u]
        /\ compiled'[u] = compiled[u] /\ progress'[u] = progress[u]
    BY <1>1 DEF NextKey, Completes, TypeOK
  <2> QED BY <1>1, <2>1 DEF NextKey, Same
<1>2. CASE PassEnds(t)
  BY <1>2 DEF PassEnds, TypeOK, Same
<1>3. ASSUME Took(t)  PROVE Same(u)
  BY <1>3 DEF Took, Becomes, Completes, TypeOK, Same
<1>4. ASSUME RefFails(t)  PROVE Same(u)
  BY <1>4 DEF RefFails, Becomes, TypeOK, Same
<1>5. ASSUME Crash(t)  PROVE Same(u)
  BY <1>5 DEF Crash, TypeOK, Same, loop
<1>6. CASE Get(t)
  BY <1>3, <1>4, <1>5, <1>6 DEF Get, TypeOK, Same, loop
<1>7. CASE Make(t)
  BY <1>4, <1>5, <1>7 DEF Make, Generate, Derive, TypeOK, Same, loop
<1>8. CASE Open(t) \/ Write(t)
  BY <1>8 DEF Open, Write, TypeOK, Same, loop
<1>9. CASE GetAgain(t)
  BY <1>3, <1>5, <1>9 DEF GetAgain
<1> QED BY <1>1, <1>2, <1>6, <1>7, <1>8, <1>9 DEF Work

\* A worker creates the file of the ref it makes, which was not there, and fills it.
LEMMA FilesStep ==
  ASSUME TypeOK, NEW t \in Targets, MidInv(t), Work(t)
  PROVE  LET p == TagAt(t).path IN
         \/ files' = files
         \/ pc[t] = "open" /\ files[p] = Missing /\ files' = [files EXCEPT ![p] = Broken]
         \/ pc[t] = "write" /\ files[p] = Broken /\ files' = [files EXCEPT ![p] = content[t]]
<1>1. CASE Open(t)
  BY <1>1 DEF Open, MidInv
<1>2. CASE Write(t)
  BY <1>2 DEF Write, MidInv
<1>3. CASE NextKey(t) \/ PassEnds(t) \/ Get(t) \/ Make(t) \/ GetAgain(t)
  BY <1>3 DEF NextKey, PassEnds, Get, Make, Generate, Derive, GetAgain, Took, RefFails, Crash
<1> QED BY <1>1, <1>2, <1>3 DEF Work

LEMMA FileKept ==
  ASSUME RefAssumption, TypeOK, NEW t \in Targets, MidInv(t), Work(t),
         NEW p \in Paths, files'[p] # files[p]
  PROVE  p = TagAt(t).path /\ Working(t) /\ files[p] \notin Content
BY FilesStep DEF TypeOK, Working, RefAssumption

\* The refs of the other targets are not touched.
LEMMA OthersFiles ==
  ASSUME RefAssumption, Apart, IInv, NEW t \in Targets, Work(t), NEW u \in Targets, u # t,
         NEW h \in TagsOf(u)
  PROVE  /\ h.path \in Paths /\ files'[h.path] = files[h.path]
         /\ h.from \in Paths => files'[h.from] = files[h.from]
<1>1. AtTag(t) /\ MidInv(t) /\ TypeOK
  BY DEF IInv, Good
<1>2. h \in Tag
  BY DEF TagsOf, TagsIn
<1>3. Working(t) => TagAt(t).path # h.path /\ TagAt(t).path # h.from
  <2>1. Working(t) => TagAt(t) \in TagsIn(object[t])
    BY <1>1, AtHand DEF TagsOf
  <2>2. object[t] \in Objects[t] /\ object[u] \in Objects[u]
    BY DEF IInv
  <2> QED BY <2>1, <2>2 DEF Apart, TagsOf
<1>4. \A p \in Paths : files'[p] # files[p] => p = TagAt(t).path /\ Working(t)
  BY <1>1, FileKept
<1> QED BY <1>2, <1>3, <1>4 DEF Tag

LEMMA KeysSame ==
  ASSUME NEW u \in Targets, Same(u)
  PROVE  /\ Keys(u)' = Keys(u) /\ ValueAt(u)' = ValueAt(u) /\ TagAt(u)' = TagAt(u)
         /\ TagsOf(u)' = TagsOf(u) /\ PathsOf(u)' = PathsOf(u)
BY DEF Same, Keys, ValueAt, TagAt, TagsOf, TagsIn, PathsOf

LEMMA GoodFrame ==
  ASSUME TypeOK, NEW u \in Targets, Good(u), Same(u),
         \A h \in TagsOf(u) : files'[h.path] = files[h.path]
  PROVE  Good(u)'
<1>1. AtTag(u)'
  BY KeysSame DEF Good, AtTag, Same, Working
<1>2. MidInv(u)'
  <2>1. Working(u) => files'[TagAt(u).path] = files[TagAt(u).path]
    BY AtHand DEF Good
  <2> QED BY <2>1, KeysSame DEF Good, MidInv, Same, Working
<1>3. OutInv(u)'
  <2>1. \A k \in Keys(u) : \A i \in 1 .. Len(out[u][k]) :
          files'[object[u][k].tags[i].path] = files[object[u][k].tags[i].path]
    <3> SUFFICES ASSUME NEW k \in Keys(u), NEW i \in 1 .. Len(out[u][k])
                 PROVE  files'[object[u][k].tags[i].path] = files[object[u][k].tags[i].path]
      OBVIOUS
    <3>1. object[u] \in Seq(Value) /\ k \in DOMAIN object[u]
      BY DEF TypeOK, Keys
    <3>2. Len(object[u][k].tags) \in Nat /\ DOMAIN object[u][k].tags = 1 .. Len(object[u][k].tags)
      BY <3>1, ValueType
    <3>3. Len(out[u][k]) \in Nat /\ Len(out[u][k]) <= Len(object[u][k].tags)
      BY <3>1 DEF Good, OutInv, TypeOK
    <3>4. i \in DOMAIN object[u][k].tags
      BY <3>2, <3>3
    <3> QED BY <3>1, <3>4, TagType DEF TagsOf
  <2> QED BY <2>1, KeysSame DEF Good, OutInv, Same, Working
<1>4. FinalInv(u)'
  BY KeysSame DEF Good, FinalInv, Same, Ended
<1> QED BY <1>1, <1>2, <1>3, <1>4 DEF Good
-----------------------------------------------------------------------------
(* The steps of a worker keep what the invariant says of it *)

\* What is known of a value of t and of what it has compiled to.
LEMMA OutType ==
  ASSUME TypeOK, NEW t \in Targets, NEW k \in Keys(t)
  PROVE  /\ out[t][k] \in Seq(Content) /\ Len(out[t][k]) \in Nat
         /\ object[t] \in Seq(Value) /\ k \in DOMAIN object[t] /\ k \in Nat
         /\ object[t][k].tags \in Seq(Tag) /\ Len(object[t][k].tags) \in Nat
         /\ DOMAIN object[t][k].tags = 1 .. Len(object[t][k].tags)
<1>1. object[t] \in Seq(Value) /\ k \in DOMAIN object[t]
  BY DEF TypeOK, Keys
<1>2. out[t][k] \in Seq(Content)
  BY <1>1 DEF TypeOK
<1> QED BY <1>1, <1>2, ValueType

LEMMA TokenIs ==
  ASSUME TypeOK, NEW t \in Targets, Good(t), NEW k \in Keys(t), NEW i \in 1 .. Len(out[t][k])
  PROVE  out[t][k][i] \in Content /\ out[t][k][i] = files[object[t][k].tags[i].path]
<1>1. out[t][k] \in Seq(Content)
  BY OutType
<1>2. out[t][k][i] \in Content
  BY <1>1
<1>3. OutInv(t)
  BY DEF Good
<1> QED BY <1>2, <1>3 DEF OutInv

LEMMA NextKeyGood ==
  ASSUME TypeOK, NEW t \in Targets, Good(t), NextKey(t)
  PROVE  Good(t)'
<1> USE DEF Goto
<1>1. PICK k \in Ahead(t) : /\ \A j \in Ahead(t) : k <= j
                            /\ key' = [key EXCEPT ![t] = k]
                            /\ IF object[t][k].tags = <<>> THEN Completes(t, k)
                               ELSE Goto(t, "get") /\ UNCHANGED <<compiled, progress>>
  BY DEF NextKey
<1>2. /\ pc[t] = "key" /\ object' = object /\ out' = out /\ files' = files /\ final' = final
      /\ key'[t] = k /\ k \in Keys(t) /\ k \notin compiled[t] /\ Keys(t)' = Keys(t)
  BY <1>1 DEF NextKey, Ahead, Keys, TypeOK
<1>3. out[t][k] = <<>>
  BY <1>2 DEF Good, OutInv, Working
<1>4. \A j \in Keys(t) \ compiled[t] : j < k => ~ final[t] /\ Reveals(object[t][j])
  <2> SUFFICES ASSUME NEW j \in Keys(t) \ compiled[t], j < k,
                      ~ (~ final[t] /\ Reveals(object[t][j]))
               PROVE  FALSE
    OBVIOUS
  <2>1. j \in Nat /\ k \in Nat /\ key[t] \in Nat
    BY <1>2, OutType DEF TypeOK
  <2>2. ~ (j < key[t])
    BY <1>2 DEF Good, FinalInv, Ended
  <2>3. j \in Ahead(t)
    BY <2>1, <2>2 DEF Ahead
  <2> QED BY <1>1, <2>1, <2>3
<1>5. CASE object[t][k].tags = <<>>
  <2>1. pc'[t] = "key" /\ compiled'[t] = compiled[t] \cup {k}
    BY <1>1, <1>5 DEF Completes, TypeOK
  <2>2. AtTag(t)' /\ MidInv(t)'
    BY <2>1 DEF AtTag, MidInv, Working
  <2>3. OutInv(t)'
    BY <1>2, <1>3, <1>5, <2>1 DEF Good, OutInv, Working
  <2>4. FinalInv(t)'
    BY <1>2, <1>4, <2>1 DEF Good, FinalInv, Ended
  <2> QED BY <2>2, <2>3, <2>4 DEF Good
<1>6. CASE object[t][k].tags # <<>>
  <2>1. pc'[t] = "get" /\ compiled' = compiled
    BY <1>1, <1>6 DEF TypeOK
  <2>2. AtTag(t)'
    <3>1. Len(out[t][k]) < Len(object[t][k].tags)
      BY <1>2, <1>3, <1>6, OutType
    <3> QED BY <1>2, <2>1, <3>1 DEF AtTag, ValueAt
  <2>3. MidInv(t)'
    BY <2>1 DEF MidInv
  <2>4. OutInv(t)'
    BY <1>2, <2>1 DEF Good, OutInv, Working
  <2>5. FinalInv(t)'
    BY <1>2, <1>4, <2>1 DEF Good, FinalInv, Ended
  <2> QED BY <2>2, <2>3, <2>4, <2>5 DEF Good
<1> QED BY <1>5, <1>6

LEMMA PassEndsGood ==
  ASSUME TypeOK, NEW t \in Targets, Good(t), PassEnds(t)
  PROVE  Good(t)'
<1> USE DEF Goto
<1>1. /\ pc[t] = "key" /\ object' = object /\ out' = out /\ files' = files /\ compiled' = compiled
      /\ key'[t] = 1 /\ Keys(t)' = Keys(t) /\ pc'[t] \in {"key", "done"}
  BY DEF PassEnds, Keys, TypeOK
<1>2. AtTag(t)' /\ MidInv(t)'
  BY <1>1 DEF AtTag, MidInv, Working
<1>3. OutInv(t)'
  BY <1>1 DEF Good, OutInv, Working
<1>4. FinalInv(t)'
  <2>1. \A k \in Keys(t) : k \in Nat /\ ~ (k < 1)
    BY DEF Keys, TypeOK
  <2>2. CASE pc'[t] = "done"
    <3>1. final[t]
      BY <1>1, <2>2 DEF PassEnds
    <3>2. \A k \in Keys(t) \ compiled[t] : k < key[t]
      <4>1. \A k \in Keys(t) : k \in Nat /\ key[t] \in Nat
        BY OutType DEF TypeOK
      <4> QED BY <4>1 DEF PassEnds, Ahead
    <3>3. Keys(t) \subseteq compiled[t]
      BY <1>1, <3>1, <3>2 DEF Good, FinalInv, Ended
    <3> QED BY <1>1, <2>2, <3>3 DEF Good, FinalInv, Ended
  <2>3. CASE pc'[t] = "key"
    BY <1>1, <2>1, <2>3 DEF Good, FinalInv
  <2> QED BY <1>1, <2>2, <2>3
<1> QED BY <1>2, <1>3, <1>4 DEF Good
LEMMA TookGood ==
  ASSUME TypeOK, NEW t \in Targets, Good(t), Working(t), Took(t),
         files[TagAt(t).path] \in Content
  PROVE  Good(t)'
<1> USE DEF Goto
<1>k. PICK k \in Keys(t) : k = key[t]
  BY DEF Good, AtTag
<1>n. PICK n \in Nat : n = Len(out[t][k])
  BY <1>k, OutType
<1>1. /\ k \in Keys(t) /\ k \notin compiled[t] /\ n < Len(object[t][k].tags)
      /\ TagAt(t) = object[t][k].tags[n + 1]
  BY <1>k, <1>n DEF Good, AtTag, TagAt, ValueAt
<1>2. /\ object' = object /\ files' = files /\ final' = final /\ key' = key /\ key'[t] = k
      /\ Keys(t)' = Keys(t)
  BY <1>k DEF Took, Keys
<1>3. \A j \in Keys(t) :
        out'[t][j] = IF j = k THEN Append(out[t][k], files[TagAt(t).path]) ELSE out[t][j]
  BY <1>1, <1>k DEF Took, Becomes, TypeOK, Keys
<1>4. /\ Len(out'[t][k]) = n + 1
      /\ \A i \in 1 .. n : out'[t][k][i] = out[t][k][i]
      /\ out'[t][k][n + 1] = files[TagAt(t).path]
  <2>1. out[t][k] \in Seq(Content)
    BY <1>1, OutType
  <2>2. out'[t][k] = Append(out[t][k], files[TagAt(t).path])
    BY <1>1, <1>3
  <2> QED BY <1>n, <2>1, <2>2
<1>5. \/ /\ n + 1 = Len(object[t][k].tags) /\ compiled'[t] = compiled[t] \cup {k} /\ pc'[t] = "key"
      \/ /\ n + 1 # Len(object[t][k].tags) /\ compiled' = compiled /\ pc'[t] = "get"
  BY <1>k, <1>n DEF Took, Completes, ValueAt, TypeOK
<1>6. AtTag(t)' /\ MidInv(t)'
  <2>1. Len(object[t][k].tags) \in Nat
    BY <1>1, OutType
  <2>2. pc'[t] = "get" => n + 1 < Len(object[t][k].tags) /\ compiled'[t] = compiled[t]
    BY <1>1, <1>5, <2>1
  <2>3. AtTag(t)'
    BY <1>1, <1>2, <1>4, <1>5, <2>2 DEF AtTag, Working, ValueAt
  <2> QED BY <1>5, <2>3 DEF MidInv
<1>7. OutInv(t)'
  <2> SUFFICES ASSUME NEW j \in Keys(t)
               PROVE  /\ \A i \in 1 .. Len(out'[t][j]) :
                           out'[t][j][i] = files[object[t][j].tags[i].path]
                      /\ Len(out'[t][j]) <= Len(object[t][j].tags)
                      /\ j \in compiled'[t] => Len(out'[t][j]) = Len(object[t][j].tags)
                      /\ j \notin compiled'[t] /\ pc'[t] # "failed" /\ (Working(t)' => j # key'[t])
                         => out'[t][j] = <<>>
    BY <1>2 DEF OutInv
  <2>1. CASE j = k
    <3>1. Len(object[t][k].tags) \in Nat
      BY <1>1, OutType
    <3>2. \A i \in 1 .. n : out[t][k][i] = files[object[t][k].tags[i].path]
      BY <1>1, <1>n DEF Good, OutInv
    <3>3. \A i \in 1 .. n + 1 : out'[t][k][i] = files[object[t][k].tags[i].path]
      <4>1. \A i \in 1 .. n + 1 : i \in 1 .. n \/ i = n + 1
        OBVIOUS
      <4> QED BY <1>1, <1>4, <3>2, <4>1
    <3>4. /\ k \in compiled'[t] \/ pc'[t] = "get"
          /\ k \in compiled'[t] => n + 1 = Len(object[t][k].tags)
      BY <1>1, <1>5
    <3>5. n + 1 <= Len(object[t][k].tags)
      BY <1>1, <3>1
    <3>6. k \notin compiled'[t] => Working(t)' /\ k = key'[t]
      BY <1>2, <3>4 DEF Working
    <3>7. Len(out'[t][k]) = n + 1
      BY <1>4
    <3> QED BY <2>1, <3>3, <3>4, <3>5, <3>6, <3>7
  <2>2. CASE j # k
    <3>1. out'[t][j] = out[t][j] /\ (j \in compiled'[t] <=> j \in compiled[t])
      BY <1>3, <1>5, <2>2
    <3>2. pc[t] # "failed"
      BY DEF Working
    <3> QED BY <1>k, <2>2, <3>1, <3>2 DEF Good, OutInv
  <2> QED BY <2>1, <2>2
<1>8. FinalInv(t)'
  <2>1. compiled'[t] \subseteq Keys(t) /\ compiled[t] \subseteq compiled'[t]
    BY <1>1, <1>5 DEF Good, FinalInv
  <2> QED BY <1>2, <1>5, <2>1 DEF Good, FinalInv, Ended, Working
<1> QED BY <1>6, <1>7, <1>8 DEF Good

LEMMA FailGood ==
  ASSUME TypeOK, NEW t \in Targets, Good(t), Working(t), RefFails(t) \/ Crash(t)
  PROVE  Good(t)'
<1> USE DEF Goto
<1>1. /\ object' = object /\ files' = files /\ final' = final /\ compiled' = compiled
      /\ Keys(t)' = Keys(t)
  BY DEF RefFails, Crash, Keys, loop
<1>2. CASE pc'[t] = "failed" /\ out' = out
  <2>1. AtTag(t)' /\ MidInv(t)' /\ OutInv(t)'
    BY <1>1, <1>2 DEF AtTag, MidInv, Working, Good, OutInv
  <2>2. FinalInv(t)'
    BY <1>1, <1>2 DEF Good, FinalInv, Ended
  <2> QED BY <2>1, <2>2 DEF Good
<1>3. CASE /\ ~ final[t] /\ pc'[t] = "key" /\ Becomes(t, <<>>)
            /\ key'[t] = key[t] + 1 /\ Reveals(ValueAt(t))
  <2>1. AtTag(t)' /\ MidInv(t)'
    BY <1>3 DEF AtTag, MidInv, Working
  <2>2. key[t] \in Keys(t) /\ key[t] \notin compiled[t]
    BY DEF Good, AtTag
  <2>3. \A j \in Keys(t) : out'[t][j] = IF j = key[t] THEN <<>> ELSE out[t][j]
    BY <1>3, <2>2 DEF Becomes, TypeOK, Keys
  <2>4. pc[t] # "failed"
    BY DEF Working
  <2>5. OutInv(t)'
    <3> SUFFICES ASSUME NEW j \in Keys(t)
                 PROVE  /\ \A i \in 1 .. Len(out'[t][j]) :
                             out'[t][j][i] = files[object[t][j].tags[i].path]
                        /\ Len(out'[t][j]) <= Len(object[t][j].tags)
                        /\ j \in compiled[t] => Len(out'[t][j]) = Len(object[t][j].tags)
                        /\ j \notin compiled[t] => out'[t][j] = <<>>
      BY <1>1, <1>3 DEF OutInv, Working
    <3>1. CASE j = key[t]
      BY <2>2, <2>3, <3>1, OutType
    <3>2. CASE j # key[t]
      BY <2>3, <2>4, <3>2 DEF Good, OutInv
    <3> QED BY <3>1, <3>2
  <2>6. ASSUME NEW j \in Keys(t) \ compiled[t], j < key'[t]
        PROVE  Reveals(object[t][j])
    <3>1. j \in Nat /\ key[t] \in Nat
      BY <2>2, OutType
    <3>2. j = key[t] \/ j < key[t]
      BY <1>3, <2>6, <3>1
    <3> QED BY <1>3, <2>4, <3>2 DEF Good, FinalInv, ValueAt, Ended, Working
  <2>7. compiled' = compiled /\ object' = object /\ final' = final /\ Keys(t)' = Keys(t)
    BY <1>1, <1>3 DEF RefFails, Crash, Goto, loop, Keys
  <2>8. FinalInv(t)'
    BY <1>3, <2>6, <2>7 DEF Good, FinalInv
  <2> QED BY <2>1, <2>5, <2>8 DEF Good
<1> QED BY <1>2, <1>3 DEF RefFails, Crash, TypeOK

\* While a ref is made its worker stays at the tag.
LEMMA MakingGood ==
  ASSUME RefAssumption, TypeOK, NEW t \in Targets, Good(t), Working(t), Working(t)', Work(t),
         UNCHANGED <<object, loop, out>>
  PROVE  AtTag(t)' /\ OutInv(t)' /\ FinalInv(t)' /\ TagAt(t)' = TagAt(t)
<1>1. Keys(t)' = Keys(t) /\ ValueAt(t)' = ValueAt(t) /\ TagAt(t)' = TagAt(t)
  BY DEF Keys, TagAt, ValueAt, loop
<1>2. AtTag(t)'
  BY <1>1 DEF Good, AtTag, loop
<1>3. FinalInv(t)'
  BY <1>1 DEF Good, FinalInv, Ended, Working, loop
<1>4. OutInv(t)'
  <2>1. ASSUME NEW j \in Keys(t), NEW i \in 1 .. Len(out[t][j])
        PROVE  out[t][j][i] = files'[object[t][j].tags[i].path]
    <3> DEFINE p == object[t][j].tags[i].path
    <3>1. out[t][j][i] \in Content /\ out[t][j][i] = files[p]
      BY TokenIs
    <3>2. Len(out[t][j]) \in Nat /\ Len(out[t][j]) <= Len(object[t][j].tags)
      BY OutType DEF Good, OutInv
    <3>3. i \in DOMAIN object[t][j].tags
      BY <3>2, OutType
    <3>4. p \in Paths
      BY <3>3, OutType, TagType
    <3> QED BY <3>1, <3>4, FileKept DEF Good
  <2>2. \A j \in Keys(t) : j \notin compiled[t] /\ j # key[t] => out[t][j] = <<>>
    BY DEF Good, OutInv, Working
  <2> QED BY <1>1, <2>1, <2>2 DEF Good, OutInv, loop
<1> QED BY <1>1, <1>2, <1>3, <1>4
LEMMA WorkGood ==
  ASSUME RefAssumption, TypeOK, NEW t \in Targets, Good(t), Work(t)
  PROVE  Good(t)'
<1>1. CASE NextKey(t) \/ PassEnds(t)
  BY <1>1, NextKeyGood, PassEndsGood
<1>2. ASSUME Working(t), UNCHANGED <<object, loop, out>>, Working(t)', MidInv(t)'
      PROVE  Good(t)'
  BY <1>2, MakingGood DEF Good
<1>3. Working(t) => TagAt(t).path \in Paths /\ TagAt(t).from \in Paths \cup {None, Generator}
  BY AtHand DEF Good
<1>4. UNCHANGED <<object, loop, out>> => TagAt(t)' = TagAt(t)
  BY DEF TagAt, ValueAt, loop
<1>5. CASE Get(t)
  <2>1. Working(t)
    BY <1>5 DEF Get, Working
  <2>2. ASSUME files[TagAt(t).path] = Missing, TagAt(t).from # None, Goto(t, "make"),
               UNCHANGED <<object, files, calls, run, loop, content, out>>
        PROVE  Good(t)'
    <3>1. pc'[t] = "make"
      BY <2>2 DEF Goto, TypeOK
    <3>2. MidInv(t)'
      BY <1>4, <2>2, <3>1 DEF MidInv
    <3>3. Working(t)'
      BY <3>1 DEF Working
    <3> QED BY <1>2, <2>1, <2>2, <3>2, <3>3
  <2> QED BY <1>5, <2>1, <2>2, TookGood, FailGood DEF Get
<1>6. CASE Make(t)
  <2>1. Working(t) /\ pc[t] = "make"
    BY <1>6 DEF Make, Working
  <2>2. CASE RefFails(t) \/ Crash(t)
    BY <2>1, <2>2, FailGood
  <2>3. CASE Goto(t, "open") /\ UNCHANGED <<object, files, loop, out>>
    <3>1. pc'[t] = "open"
      BY <2>3 DEF Goto, TypeOK
    <3>2. MidInv(t)'
      BY <1>4, <2>1, <2>3, <3>1 DEF Good, MidInv
    <3>3. Working(t)'
      BY <3>1 DEF Working
    <3> QED BY <1>2, <2>1, <2>3, <3>2, <3>3
  <2> QED BY <1>6, <2>2, <2>3 DEF Make, Generate, Derive
<1>7. CASE Open(t)
  <2>1. Working(t) /\ pc[t] = "open" /\ pc'[t] = "write"
    BY <1>7 DEF Open, Goto, Working, TypeOK
  <2>2. MidInv(t)'
    <3>1. files'[TagAt(t).path] = Broken
      BY <1>3, <1>7, <2>1 DEF Open, TypeOK
    <3> QED BY <1>4, <1>7, <2>1, <3>1 DEF Good, MidInv, Open
  <2>3. Working(t)' /\ UNCHANGED <<object, loop, out>>
    BY <1>7, <2>1 DEF Open, Working
  <2> QED BY <1>2, <2>1, <2>2, <2>3
<1>8. CASE Write(t)
  <2>1. Working(t) /\ pc[t] = "write" /\ pc'[t] = "getAgain"
    BY <1>8 DEF Write, Goto, Working, TypeOK
  <2>2. MidInv(t)'
    <3>1. files[TagAt(t).path] = Broken
      BY <2>1 DEF Good, MidInv
    <3>2. files'[TagAt(t).path] = content[t] /\ content[t] \in Content
      BY <1>3, <1>8, <2>1, <3>1 DEF Write, TypeOK
    <3> QED BY <1>4, <1>8, <2>1, <3>2 DEF MidInv, Write
  <2>3. Working(t)' /\ UNCHANGED <<object, loop, out>>
    BY <1>8, <2>1 DEF Write, Working
  <2> QED BY <1>2, <2>1, <2>2, <2>3
<1>9. CASE GetAgain(t)
  BY <1>9, TookGood, FailGood DEF GetAgain, Working
<1> QED BY <1>1, <1>5, <1>6, <1>7, <1>8, <1>9 DEF Work

-----------------------------------------------------------------------------
(* The invariant *)

LEMMA InvInit ==
  ASSUME RefAssumption, Init  PROVE IInv
<1>1. TypeOK
  BY InitTypes
<1>2. ASSUME NEW t \in Targets  PROVE Good(t)
  <2>1. /\ pc[t] = "key" /\ key[t] = 1 /\ compiled[t] = {} /\ ~ final[t]
        /\ out[t] = Nothing(t)
    BY DEF Init
  <2>2. AtTag(t) /\ MidInv(t) /\ FinalInv(t)
    <3>1. \A j \in Keys(t) : ~ (j < key[t])
      BY <1>1, <2>1 DEF Keys, TypeOK
    <3> QED BY <2>1, <3>1 DEF AtTag, MidInv, FinalInv, Working
  <2>3. OutInv(t)
    BY <1>1, <2>1, OutType DEF OutInv, Nothing
  <2> QED BY <2>2, <2>3 DEF Good
<1> QED BY <1>1, <1>2 DEF IInv, Init

LEMMA NextRunInv ==
  ASSUME RefAssumption, IInv, NextRun  PROVE IInv'
<1>1. TypeOK'
  <2>1. \A t \in Targets : Nothing(t) \in [DOMAIN object[t] -> Seq(Content)]
    BY DEF Nothing, Keys
  <2>2. \A t \in Targets : Len(object[t]) \in Nat
    BY DEF IInv, TypeOK
  <2>3. run + 1 \in Nat /\ <<>> \in Content
    BY DEF IInv, TypeOK, Content
  <2> QED BY <2>1, <2>2, <2>3 DEF NextRun, IInv, TypeOK, PCs
<1>2. ASSUME NEW t \in Targets  PROVE Good(t)'
  <2>1. /\ pc'[t] = "key" /\ key'[t] = 1 /\ compiled'[t] = {} /\ ~ final'[t]
        /\ object' = object /\ Keys(t)' = Keys(t) /\ out'[t] = [k \in Keys(t) |-> <<>>]
    BY DEF NextRun, Keys, Nothing
  <2>2. AtTag(t)' /\ MidInv(t)' /\ FinalInv(t)'
    <3>1. \A j \in Keys(t) : ~ (j < 1)
      BY DEF Keys, IInv, TypeOK
    <3> QED BY <2>1, <3>1 DEF AtTag, MidInv, FinalInv, Working
  <2>3. OutInv(t)'
    BY <2>1, OutType DEF OutInv, IInv
  <2> QED BY <2>2, <2>3 DEF Good
<1> QED BY <1>1, <1>2 DEF IInv, NextRun

LEMMA InvStep ==
  ASSUME RefAssumption, Apart, IInv, [Next]_vars  PROVE IInv'
<1>1. ASSUME NEW t \in Targets, Work(t)  PROVE IInv'
  <2>1. TypeOK'
    BY <1>1, StepTypes DEF IInv, Good
  <2>2. object' = object
    BY <1>1, ObjectStays
  <2>3. Good(t)'
    BY <1>1, WorkGood DEF IInv
  <2>4. ASSUME NEW u \in Targets, u # t  PROVE Good(u)'
    <3>1. Same(u)
      BY <1>1, <2>4, OthersStay DEF IInv
    <3>2. \A h \in TagsOf(u) : files'[h.path] = files[h.path]
      BY <1>1, <2>4, OthersFiles
    <3> QED BY <3>1, <3>2, GoodFrame DEF IInv
  <2> QED BY <2>1, <2>2, <2>3, <2>4 DEF IInv
<1>2. CASE UNCHANGED vars
  <2>1. TypeOK'
    BY <1>2 DEF vars, IInv, TypeOK
  <2>2. \A u \in Targets : Same(u)
    BY <1>2 DEF vars, Same
  <2>3. files' = files
    BY <1>2 DEF vars
  <2>4. \A u \in Targets : Good(u)'
    BY <2>2, <2>3, GoodFrame DEF IInv
  <2> QED BY <1>2, <2>1, <2>4 DEF IInv, vars
<1> QED BY <1>1, <1>2, NextRunInv DEF Next, Over

-----------------------------------------------------------------------------
\* Every state of compiling references is well-typed: a worker is always at a tag of a
\* value, and the passes stay within their bound.
THEOREM TypeCorrect ==
  ASSUME RefAssumption, Apart  PROVE Spec => []TypeOK
<1>1. Init => IInv
  BY InvInit
<1>2. IInv /\ [Next]_vars => IInv'
  BY InvStep
<1>3. IInv => TypeOK
  BY DEF IInv
<1> QED BY <1>1, <1>2, <1>3, PTL DEF Spec

\* What a target that has compiled has put for its tags is what the ref files hold.
THEOREM TokensAreStoredHolds ==
  ASSUME RefAssumption, Apart  PROVE Spec => []TokensAreStored
<1>1. Init => IInv
  BY InvInit
<1>2. IInv /\ [Next]_vars => IInv'
  BY InvStep
<1>3. IInv => TokensAreStored
  <2> SUFFICES ASSUME IInv, NEW t \in Targets, pc[t] = "done", NEW k \in Keys(t)
               PROVE  out[t][k] = [i \in DOMAIN object[t][k].tags |->
                                     files[object[t][k].tags[i].path]]
    BY DEF TokensAreStored
  <2>1. Len(out[t][k]) = Len(object[t][k].tags)
    BY DEF IInv, Good, OutInv, FinalInv
  <2>2. \A i \in 1 .. Len(out[t][k]) : out[t][k][i] = files[object[t][k].tags[i].path]
    BY TokenIs DEF IInv
  <2>3. out[t][k] \in Seq(Content) /\ DOMAIN object[t][k].tags = 1 .. Len(object[t][k].tags)
    BY OutType DEF IInv
  <2>4. out[t][k] = [i \in 1 .. Len(out[t][k]) |-> out[t][k][i]]
    BY <2>3
  <2> QED BY <2>1, <2>2, <2>3, <2>4
<1> QED BY <1>1, <1>2, <1>3, PTL DEF Spec

\* A ref that exists is never replaced by what its function makes.
THEOREM ExistingIsKeptHolds ==
  ASSUME RefAssumption, Apart  PROVE Spec => ExistingIsKept
<1>1. Init => IInv
  BY InvInit
<1>2. IInv /\ [Next]_vars => IInv'
  BY InvStep
<1>3. IInv /\ [Next]_vars
        => [\A p \in Paths : files[p] \in Content => files'[p] = files[p]]_files
  <2>1. ASSUME IInv, NEW t \in Targets, Work(t), NEW p \in Paths, files[p] \in Content
        PROVE  files'[p] = files[p]
    BY <2>1, FileKept DEF IInv, Good
  <2> QED BY <2>1 DEF Next, NextRun, Over, vars
<1> QED BY <1>1, <1>2, <1>3, PTL DEF Spec, ExistingIsKept
-----------------------------------------------------------------------------
(* Derived refs *)

\* Two tags of an object that make the same ref make it from the same.
LEMMA SameSource ==
  ASSUME OneSource, IInv, NEW t \in Targets, NEW g \in TagsOf(t), NEW h \in TagsOf(t),
         g.path = h.path, g.from # None, h.from # None
  PROVE  g.from = h.from
BY DEF OneSource, IInv, TagsOf

LEMMA TagOf ==
  ASSUME NEW t \in Targets, NEW g \in TagsOf(t)
  PROVE  g.path \in Paths /\ g.from \in Paths \cup {None, Generator}
BY DEF TagsOf, TagsIn, Tag

LEMMA MatchesFrame ==
  ASSUME TypeOK, NEW u \in Targets, Good(u), Same(u), Matches(u),
         \A h \in TagsOf(u) : /\ files'[h.path] = files[h.path]
                              /\ h.from \in Paths => files'[h.from] = files[h.from]
  PROVE  Matches(u)'
<1>1. pc[u] \in {"open", "write"} => TagAt(u) \in TagsOf(u)
  BY AtHand DEF Good, Working
<1> QED BY <1>1, KeysSame DEF Matches, Same

\* Unless a file is written, what a worker does to derive a ref is all that matters.
LEMMA MatchesStays ==
  ASSUME NEW t \in Targets, Matches(t), object' = object, files' = files,
         pc'[t] \in {"open", "write"} => /\ pc[t] \in {"open", "write"}
                                        /\ key' = key /\ out' = out /\ content' = content
  PROVE  Matches(t)'
BY DEF Matches, TagsOf, TagsIn, TagAt, ValueAt

LEMMA DeriveMatches ==
  ASSUME RefAssumption, IInv, NEW t \in Targets, Matches(t), Make(t)
  PROVE  Matches(t)'
<1>1. pc[t] = "make" /\ Working(t)
  BY DEF Make, Working
<1>2. CASE RefFails(t) \/ Crash(t)
  <2>1. object' = object /\ files' = files /\ pc'[t] \in {"key", "failed"}
    BY <1>2 DEF RefFails, Crash, Goto, IInv, TypeOK
  <2> QED BY <2>1, MatchesStays
<1>3. CASE /\ UNCHANGED <<object, files, loop, out>>
           /\ TagAt(t).from \in Paths =>
                /\ files[TagAt(t).from] \in Content
                /\ content' = [content EXCEPT ![t] = Append(files[TagAt(t).from], 0)]
  <2>1. TagAt(t)' = TagAt(t) /\ TagsOf(t)' = TagsOf(t)
    <3>1. object' = object /\ key' = key /\ out' = out
      BY <1>3 DEF loop
    <3> QED BY <3>1 DEF TagAt, ValueAt, TagsOf, TagsIn
  <2>2. TagAt(t).from \in Paths => content'[t] = Append(files[TagAt(t).from], 0)
    BY <1>3 DEF IInv, TypeOK
  <2> QED BY <1>3, <2>1, <2>2 DEF Matches
<1>4. Generate(t) => TagAt(t).from \notin Paths
  BY DEF Generate, RefAssumption
<1> QED BY <1>2, <1>3, <1>4 DEF Make, Generate, Derive

\* Only what a ref has been derived from is at its source when it is written.
LEMMA FileMatches ==
  ASSUME RefAssumption, OneSource, IInv, NEW t \in Targets, Matches(t), Open(t) \/ Write(t)
  PROVE  Matches(t)'
<1> DEFINE p == TagAt(t).path
           source == TagAt(t).from
<1>1. /\ Working(t) /\ pc[t] \in {"open", "write"} /\ TypeOK
      /\ UNCHANGED <<object, loop, out, content>>
  BY DEF Open, Write, Working, IInv
<1>2. TagAt(t)' = TagAt(t) /\ TagsOf(t)' = TagsOf(t)
  BY <1>1 DEF TagAt, ValueAt, TagsOf, TagsIn, loop
<1>3. TagAt(t) \in TagsOf(t) /\ p \in Paths /\ source # None
  BY <1>1, AtHand DEF IInv, Good, MidInv
<1>4. /\ files[p] \notin Content
      /\ \A q \in Paths : files'[q] = IF q = p THEN files'[p] ELSE files[q]
      /\ files'[p] \in Content => pc[t] = "write" /\ files'[p] = content[t]
  <2>1. CASE Open(t)
    BY <1>1, <1>3, <2>1 DEF Open, IInv, Good, MidInv, TypeOK, RefAssumption
  <2>2. CASE Write(t)
    BY <1>1, <1>3, <2>2 DEF Write, IInv, Good, MidInv, TypeOK, RefAssumption
  <2> QED BY <2>1, <2>2
<1> HIDE DEF p, source
<1>5. ASSUME NEW g \in TagsOf(t), g.from \in Paths, files'[g.path] \in Content
      PROVE  files'[g.from] \in Content /\ files'[g.path] = Append(files'[g.from], 0)
  <2>1. g.path \in Paths
    BY TagOf
  <2>2. CASE g.path = p
    <3>1. g.from = source
      BY <1>3, <1>5, <2>2, SameSource DEF RefAssumption, p, source
    <3>2. files[source] \in Content /\ content[t] = Append(files[source], 0)
      BY <1>1, <1>5, <3>1 DEF Matches, source
    <3>3. files'[p] = content[t]
      BY <1>4, <1>5, <2>2
    <3>4. files'[source] = files[source]
      BY <1>4, <1>5, <3>1, <3>2
    <3> QED BY <2>2, <3>1, <3>2, <3>3, <3>4
  <2>3. CASE g.path # p
    <3>1. files'[g.path] = files[g.path]
      BY <1>4, <2>1, <2>3
    <3>2. files[g.from] \in Content /\ files[g.path] = Append(files[g.from], 0)
      BY <1>5, <3>1 DEF Matches
    <3>3. files'[g.from] = files[g.from]
      BY <1>4, <1>5, <3>2
    <3> QED BY <3>1, <3>2, <3>3
  <2> QED BY <2>2, <2>3
<1>6. source \in Paths => /\ files'[source] \in Content
                          /\ content'[t] = Append(files'[source], 0)
  BY <1>1, <1>4 DEF Matches, source
<1> QED BY <1>2, <1>5, <1>6 DEF Matches, source

LEMMA MatchesStep ==
  ASSUME RefAssumption, Apart, OneSource, IInv, \A t \in Targets : Matches(t), [Next]_vars
  PROVE  \A t \in Targets : Matches(t)'
<1>1. ASSUME NEW t \in Targets, Work(t)  PROVE \A u \in Targets : Matches(u)'
  <2>1. ASSUME NEW u \in Targets, u # t  PROVE Matches(u)'
    <3>1. Same(u)
      BY <1>1, <2>1, OthersStay DEF IInv
    <3>2. \A h \in TagsOf(u) : /\ files'[h.path] = files[h.path]
                               /\ h.from \in Paths => files'[h.from] = files[h.from]
      BY <1>1, <2>1, OthersFiles
    <3> QED BY <3>1, <3>2, MatchesFrame DEF IInv
  <2>2. Matches(t)'
    <3>1. ASSUME object' = object, files' = files, pc'[t] \notin {"open", "write"}
          PROVE  Matches(t)'
      BY <3>1, MatchesStays
    <3>2. ASSUME Took(t) \/ RefFails(t) \/ Crash(t)  PROVE Matches(t)'
      BY <3>1, <3>2 DEF Took, RefFails, Crash, Completes, Goto, IInv, TypeOK
    <3>3. CASE NextKey(t) \/ PassEnds(t)
      BY <3>1, <3>3 DEF NextKey, PassEnds, Completes, Goto, IInv, TypeOK
    <3>4. CASE Get(t) \/ GetAgain(t)
      <4>1. CASE Goto(t, "make") /\ UNCHANGED <<object, files>>
        BY <3>1, <4>1 DEF Goto, IInv, TypeOK
      <4> QED BY <3>2, <3>4, <4>1 DEF Get, GetAgain
    <3> QED BY <1>1, <3>3, <3>4, DeriveMatches, FileMatches DEF Work
  <2> QED BY <2>1, <2>2
<1>2. CASE NextRun
  BY <1>2, MatchesStays DEF NextRun
<1>3. CASE UNCHANGED vars
  BY <1>3, MatchesStays DEF vars
<1> QED BY <1>1, <1>2, <1>3 DEF Next, Over

\* A derived ref is the one of the ref it was derived from, whatever the order of the
\* keys and wherever earlier runs were killed.
THEOREM DerivedMatchesHolds ==
  ASSUME RefAssumption, Apart, OneSource  PROVE Spec => []DerivedMatches
<1> DEFINE Inv == IInv /\ \A t \in Targets : Matches(t)
<1>1. Init => Inv
  <2>1. ASSUME Init, NEW t \in Targets  PROVE Matches(t)
    <3>1. ASSUME NEW g \in TagsOf(t), g.from \in Paths  PROVE files[g.path] = Missing
      BY <2>1, <3>1, TagOf DEF Init
    <3> QED BY <2>1, <3>1 DEF Matches, Init, RefAssumption
  <2> QED BY <2>1, InvInit
<1>2. Inv /\ [Next]_vars => Inv'
  BY InvStep, MatchesStep
<1>3. Inv => DerivedMatches
  BY DEF DerivedMatches, Matches
<1> QED BY <1>1, <1>2, <1>3, PTL DEF Spec
-----------------------------------------------------------------------------
(* Every order compiles *)

\* A value that reveals has the tag at hand only.
LEMMA OneTag ==
  ASSUME Single, IInv, NEW t \in Targets, Working(t)
  PROVE  /\ TagAt(t).from \in Paths => Reveals(ValueAt(t))
         /\ Reveals(ValueAt(t)) => /\ ValueAt(t).string /\ Len(ValueAt(t).tags) = 1
                                  /\ Len(out[t][key[t]]) = 0
                                  /\ ValueAt(t).tags = <<TagAt(t)>> /\ TagAt(t).from \in Paths
<1>1. /\ ValueAt(t).tags \in Seq(Tag) /\ key[t] \in DOMAIN object[t]
      /\ Len(out[t][key[t]]) + 1 \in DOMAIN ValueAt(t).tags
      /\ out[t][key[t]] \in Seq(Content)
  BY AtHand DEF IInv, Good, Keys
<1>2. TagAt(t).from \in Paths => Reveals(ValueAt(t))
  BY <1>1 DEF Reveals, TagAt
<1>3. Reveals(ValueAt(t)) => ValueAt(t).string /\ Len(ValueAt(t).tags) = 1
  BY <1>1 DEF Single, IInv, ValueAt
<1>4. ASSUME Reveals(ValueAt(t))
      PROVE  /\ Len(out[t][key[t]]) = 0 /\ ValueAt(t).tags = <<TagAt(t)>>
             /\ TagAt(t).from \in Paths
  <2> DEFINE tags == ValueAt(t).tags
             n == Len(out[t][key[t]])
  <2>1. Len(tags) = 1 /\ DOMAIN tags = {1}
    BY <1>1, <1>3, <1>4
  <2>2. n \in Nat /\ n + 1 = 1
    BY <1>1, <2>1
  <2>3. tags = <<tags[1]>>
    BY <1>1, <2>1
  <2>4. tags[1].from \in Paths
    BY <1>4, <2>1 DEF Reveals
  <2> QED BY <2>2, <2>3, <2>4 DEF TagAt
<1> QED BY <1>2, <1>3, <1>4

\* In the final pass the tag at hand can be neither found nor made.
LEMMA FinalWaits ==
  ASSUME RefAssumption, IInv, NEW t \in Targets, Working(t), BlockedInv(t), final[t]
  PROVE  /\ pc[t] \in {"get", "make"} /\ files[TagAt(t).path] = Missing
         /\ TagAt(t).from \in Paths /\ files[TagAt(t).from] = Missing
<1>1. pc[t] \in {"get", "make"} /\ Blocked(t, key[t])
  BY AtHand DEF IInv, Good, BlockedInv, Working
<1>2. PICK g \in TagsOf(t) : /\ ValueAt(t).tags = <<g>> /\ g.from \in Paths
                             /\ files[g.from] = Missing /\ files[g.path] = Missing
  BY <1>1 DEF Blocked, ValueAt
<1>3. TagAt(t) = g
  <2>1. /\ Len(out[t][key[t]]) + 1 \in DOMAIN ValueAt(t).tags
    BY AtHand DEF IInv, Good
  <2>2. Len(out[t][key[t]]) + 1 = 1
    BY <1>2, <2>1
  <2> QED BY <1>2, <2>2 DEF TagAt
<1> QED BY <1>1, <1>2, <1>3

LEMMA CountUp ==
  ASSUME NEW S, IsFiniteSet(S), NEW k, k \notin S, NEW n \in Nat, Cardinality(S) >= n
  PROVE  IsFiniteSet(S \cup {k}) /\ Cardinality(S \cup {k}) >= n + 1
BY FS_AddElement, FS_CardinalityType

\* A value that compiles counts.
LEMMA CompletesCount ==
  ASSUME TypeOK, NEW t \in Targets, CountInv(t), NEW k, k \notin compiled[t], Completes(t, k),
         UNCHANGED <<pass, final>>
  PROVE  CountInv(t)'
<1>1. compiled'[t] = compiled[t] \cup {k} /\ progress'[t] = TRUE /\ pass[t] \in Nat
  BY DEF Completes, TypeOK
<1>2. IsFiniteSet(compiled[t]) /\ (~ final[t] => Cardinality(compiled[t]) >= pass[t])
  <2>1. Cardinality(compiled[t]) \in Nat
    BY FS_CardinalityType DEF CountInv
  <2> QED BY <1>1, <2>1 DEF CountInv
<1>3. IsFiniteSet(compiled'[t])
  BY <1>1, <1>2, FS_AddElement
<1>4. ~ final[t] => Cardinality(compiled'[t]) >= pass[t] + 1
  BY <1>1, <1>2, CountUp
<1> QED BY <1>1, <1>3, <1>4 DEF CountInv

LEMMA NextKeyWaits ==
  ASSUME RefAssumption, IInv, NEW t \in Targets, Waiting(t), NextKey(t)
  PROVE  Waiting(t)'
<1>1. PICK k \in Ahead(t) : /\ \A j \in Ahead(t) : k <= j
                            /\ key' = [key EXCEPT ![t] = k]
                            /\ IF object[t][k].tags = <<>> THEN Completes(t, k)
                               ELSE Goto(t, "get") /\ UNCHANGED <<compiled, progress>>
  BY DEF NextKey
<1>2. /\ pc[t] = "key" /\ object' = object /\ files' = files /\ final' = final /\ pass' = pass
      /\ key'[t] = k /\ k \in Keys(t) /\ k \notin compiled[t] /\ Keys(t)' = Keys(t) /\ TypeOK
  BY <1>1 DEF NextKey, Ahead, Keys, IInv, TypeOK
<1>3. \A j \in Keys(t) : Blocked(t, j)' <=> Blocked(t, j)
  BY <1>2 DEF Blocked, TagsOf, TagsIn
<1>4. CASE Completes(t, k)
  <2>1. pc'[t] = "key" /\ compiled'[t] = compiled[t] \cup {k} /\ progress'[t]
    BY <1>2, <1>4 DEF Completes, Goto, TypeOK
  <2>2. BlockedInv(t)'
    BY <1>2, <1>3, <2>1 DEF Waiting, BlockedInv
  <2>3. CountInv(t)'
    BY <1>2, <1>4, CompletesCount DEF Waiting
  <2> QED BY <2>2, <2>3 DEF Waiting
<1>5. CASE Goto(t, "get") /\ UNCHANGED <<compiled, progress>>
  <2>1. pc'[t] = "get"
    BY <1>2, <1>5 DEF Goto, TypeOK
  <2>2. \A j \in Keys(t) \ compiled[t] : j < k => j < key[t]
    <3>1. \A j \in Keys(t) : j \in Nat /\ key[t] \in Nat
      BY <1>2, OutType DEF TypeOK
    <3> QED BY <1>1, <1>2, <3>1 DEF Ahead
  <2>3. BlockedInv(t)'
    BY <1>2, <1>3, <1>5, <2>1, <2>2 DEF Waiting, BlockedInv
  <2>4. CountInv(t)'
    BY <1>2, <1>5 DEF Waiting, CountInv
  <2> QED BY <2>3, <2>4 DEF Waiting
<1> QED BY <1>1, <1>4, <1>5

\* The bound on the passes is not reached while keys are left that could be compiled.
LEMMA PassEndsWaits ==
  ASSUME RefAssumption, IInv, NEW t \in Targets, Waiting(t), PassEnds(t)
  PROVE  Waiting(t)'
<1>1. /\ pc[t] = "key" /\ object' = object /\ files' = files /\ compiled' = compiled
      /\ key'[t] = 1 /\ Keys(t)' = Keys(t) /\ pc'[t] \in {"key", "done"} /\ TypeOK
  BY DEF PassEnds, Goto, Keys, IInv, TypeOK
<1>2. \A j \in Keys(t) : (Blocked(t, j)' <=> Blocked(t, j)) /\ j \in Nat /\ ~ (j < 1)
  <2>1. \A j \in Keys(t) : j \in Nat /\ ~ (j < 1)
    BY <1>1 DEF Keys, TypeOK
  <2> QED BY <1>1, <2>1 DEF Blocked, TagsOf, TagsIn
<1>3. \A j \in Keys(t) \ compiled[t] : j < key[t]
  <2>1. key[t] \in Nat
    BY <1>1 DEF TypeOK
  <2> QED BY <1>2, <2>1 DEF PassEnds, Ahead
<1>4. CASE final[t]
  <2>1. final' = final /\ progress' = progress /\ pass' = pass
    BY <1>4 DEF PassEnds
  <2> QED BY <1>1, <1>2, <1>4, <2>1 DEF Waiting, BlockedInv, CountInv
<1>5. CASE ~ final[t] /\ final' = [final EXCEPT ![t] = TRUE]
  <2>1. final'[t] /\ progress' = progress /\ pass' = pass /\ pc' = pc
    BY <1>1, <1>5 DEF PassEnds, TypeOK
  <2>2. compiled[t] = Keys(t) \/ ~ progress[t]
    <3> SUFFICES ASSUME pass[t] = Len(object[t]), progress[t]  PROVE FALSE
      BY <1>5, <2>1 DEF PassEnds, TypeOK, IInv
    <3>1. Cardinality(compiled[t]) >= Len(object[t]) + 1
      BY <1>5 DEF Waiting, CountInv
    <3>2. Keys(t) = 1 .. Len(object[t]) /\ Len(object[t]) \in Nat
      BY <1>1 DEF Keys, TypeOK
    <3>3. IsFiniteSet(Keys(t)) /\ Cardinality(Keys(t)) = Len(object[t])
      BY <3>2, FS_Interval
    <3>4. compiled[t] \subseteq Keys(t)
      BY DEF IInv, Good, FinalInv
    <3>5. Cardinality(compiled[t]) <= Cardinality(Keys(t)) /\ Cardinality(compiled[t]) \in Nat
      BY <3>3, <3>4, FS_Subset, FS_CardinalityType
    <3> QED BY <3>1, <3>2, <3>3, <3>5
  <2>3. \A j \in Keys(t) \ compiled[t] : Blocked(t, j)
    BY <1>1, <1>3, <2>2 DEF Waiting, BlockedInv
  <2>4. BlockedInv(t)'
    BY <1>1, <1>2, <2>1, <2>3 DEF BlockedInv
  <2>5. CountInv(t)'
    BY <1>1, <2>1 DEF Waiting, CountInv
  <2> QED BY <2>4, <2>5 DEF Waiting
<1>6. CASE /\ ~ final[t] /\ progress[t] /\ pass' = [pass EXCEPT ![t] = @ + 1]
           /\ progress' = [progress EXCEPT ![t] = FALSE] /\ UNCHANGED <<pc, final>>
  <2>1. pass'[t] = pass[t] + 1 /\ ~ progress'[t] /\ pass[t] \in Nat
    BY <1>1, <1>6 DEF TypeOK
  <2>2. BlockedInv(t)'
    BY <1>1, <1>2, <1>6 DEF BlockedInv
  <2>3. CountInv(t)'
    BY <1>1, <1>6, <2>1 DEF Waiting, CountInv
  <2> QED BY <2>2, <2>3 DEF Waiting
<1> QED BY <1>4, <1>5, <1>6 DEF PassEnds
LEMMA TookWaits ==
  ASSUME RefAssumption, Single, IInv, NEW t \in Targets, Waiting(t), Working(t), Took(t),
         files[TagAt(t).path] \in Content
  PROVE  Waiting(t)'
<1>1. ~ final[t]
  BY FinalWaits DEF Waiting, RefAssumption
<1>2. /\ object' = object /\ key' = key /\ final' = final /\ pass' = pass /\ TypeOK
  BY DEF Took, IInv
<1>3. CASE Completes(t, key[t])
  <2>1. pc'[t] = "key" /\ progress'[t]
    BY <1>2, <1>3 DEF Completes, Goto, TypeOK
  <2>2. BlockedInv(t)'
    BY <1>1, <1>2, <2>1 DEF BlockedInv
  <2>3. CountInv(t)'
    BY <1>2, <1>3, AtHand, CompletesCount DEF Waiting, IInv, Good
  <2> QED BY <2>2, <2>3 DEF Waiting
<1>4. CASE /\ Len(out[t][key[t]]) + 1 # Len(ValueAt(t).tags)
           /\ Goto(t, "get") /\ UNCHANGED <<compiled, progress>>
  <2>1. ~ Reveals(ValueAt(t))
    <3> SUFFICES ASSUME Reveals(ValueAt(t))  PROVE FALSE
      OBVIOUS
    <3>1. Len(ValueAt(t).tags) = 1 /\ Len(out[t][key[t]]) = 0
      BY OneTag
    <3> QED BY <1>4, <3>1
  <2>2. pc'[t] = "get" /\ ValueAt(t)' = ValueAt(t)
    BY <1>2, <1>4 DEF Goto, TypeOK, ValueAt
  <2>3. BlockedInv(t)'
    BY <1>1, <1>2, <2>1, <2>2 DEF BlockedInv
  <2>4. CountInv(t)'
    BY <1>2, <1>4 DEF Waiting, CountInv
  <2> QED BY <2>3, <2>4 DEF Waiting
<1> QED BY <1>3, <1>4 DEF Took

\* A value that is passed by waits for the source of its tag.
LEMMA SkipWaits ==
  ASSUME RefAssumption, Single, IInv, NEW t \in Targets, Waiting(t), pc[t] = "make",
         RefFails(t), TagAt(t).from \in Paths, files[TagAt(t).from] = Missing
  PROVE  Waiting(t)'
<1>1. /\ object' = object /\ files' = files /\ final' = final /\ pass' = pass
      /\ compiled' = compiled /\ progress' = progress /\ Keys(t)' = Keys(t) /\ TypeOK /\ Working(t)
  BY DEF RefFails, IInv, Keys, Working
<1>2. \A j \in Keys(t) : Blocked(t, j)' <=> Blocked(t, j)
  BY <1>1 DEF Blocked, TagsOf, TagsIn
<1>3. CountInv(t)'
  BY <1>1 DEF Waiting, CountInv
<1>4. CASE pc'[t] = "failed"
  BY <1>1, <1>3, <1>4 DEF Waiting, BlockedInv
<1>5. CASE ~ final[t] /\ pc'[t] = "key" /\ key'[t] = key[t] + 1
  <2>1. Reveals(ValueAt(t)) /\ ValueAt(t).tags = <<TagAt(t)>> /\ TagAt(t) \in TagsOf(t)
    BY <1>1, OneTag, AtHand DEF IInv, Good
  <2>2. files[TagAt(t).path] = Missing
    BY DEF IInv, Good, MidInv
  <2>3. Blocked(t, key[t])
    BY <2>1, <2>2 DEF Blocked, ValueAt
  <2>4. \A j \in Keys(t) : j < key[t] + 1 => j < key[t] \/ j = key[t]
    BY <1>1, OutType DEF TypeOK
  <2>5. BlockedInv(t)'
    BY <1>1, <1>2, <1>5, <2>1, <2>3, <2>4 DEF Waiting, BlockedInv
  <2> QED BY <1>3, <2>5 DEF Waiting
<1> QED BY <1>1, <1>4, <1>5 DEF RefFails, Goto, TypeOK

LEMMA MakingWaits ==
  ASSUME RefAssumption, Single, IInv, NEW t \in Targets, Waiting(t), Working(t),
         UNCHANGED <<object, loop, out>>, pc'[t] # "key", pc'[t] # "done",
         final[t] => pc'[t] \in {"make", "failed"},
         pc'[t] \in {"get", "make", "open"} => pc[t] \in {"get", "make"} /\ files' = files
  PROVE  Waiting(t)'
<1>1. Keys(t)' = Keys(t) /\ ValueAt(t)' = ValueAt(t)
  BY DEF Keys, ValueAt, loop
<1>2. files' = files => \A j \in Keys(t) : Blocked(t, j)' <=> Blocked(t, j)
  BY DEF Blocked, TagsOf, TagsIn
<1>3. CountInv(t)'
  BY DEF Waiting, CountInv, loop
<1>4. ASSUME ~ progress'[t], pc'[t] \in {"get", "make", "open"}, Reveals(ValueAt(t)),
             NEW j \in Keys(t) \ compiled[t], j < key[t]
      PROVE  Blocked(t, j)'
  <2>1. ~ progress[t]
    BY <1>4 DEF loop
  <2> QED BY <1>2, <1>4, <2>1 DEF Waiting, BlockedInv
<1>5. ASSUME final'[t], pc'[t] # "failed", NEW j \in Keys(t) \ compiled[t]
      PROVE  Blocked(t, j)'
  <2>1. final[t] /\ pc[t] # "failed"
    BY <1>5 DEF loop, Working
  <2>2. files' = files
    BY <1>5, <2>1
  <2> QED BY <1>2, <2>1, <2>2 DEF Waiting, BlockedInv
<1>6. final'[t] => pc'[t] \notin {"open", "write", "getAgain"}
  BY DEF loop
<1>7. BlockedInv(t)'
  BY <1>1, <1>4, <1>5, <1>6 DEF BlockedInv, loop
<1> QED BY <1>3, <1>7 DEF Waiting

\* A reference that is missing and has no function is in a value that is not retried.
LEMMA WorkWaits ==
  ASSUME RefAssumption, Single, IInv, NEW t \in Targets, Waiting(t), Work(t)
  PROVE  Waiting(t)'
<1>0. TypeOK
  BY DEF IInv
<1>1. CASE NextKey(t) \/ PassEnds(t)
  BY <1>1, NextKeyWaits, PassEndsWaits
<1>2. ASSUME Working(t), Crash(t)  PROVE Waiting(t)'
  <2>1. pc'[t] = "failed" /\ UNCHANGED <<object, loop, out>>
    BY <1>0, <1>2 DEF Crash, Goto, TypeOK
  <2> QED BY <1>2, <2>1, MakingWaits
<1>3. CASE Get(t)
  <2>1. Working(t) /\ pc[t] = "get"
    BY <1>3 DEF Get, Working
  <2>2. ASSUME TagAt(t).from = None, RefFails(t)  PROVE Waiting(t)'
    <3>1. ~ Reveals(ValueAt(t))
      BY <2>1, <2>2, OneTag DEF RefAssumption
    <3>2. pc'[t] = "failed" /\ UNCHANGED <<object, loop, out>>
      BY <1>0, <2>2, <3>1 DEF RefFails, Goto, TypeOK, loop
    <3> QED BY <2>1, <3>2, MakingWaits
  <2>3. ASSUME Goto(t, "make"), UNCHANGED <<object, files, calls, run, loop, content, out>>
        PROVE  Waiting(t)'
    <3>1. pc'[t] = "make" /\ UNCHANGED <<object, loop, out>> /\ files' = files
      BY <1>0, <2>3 DEF Goto, TypeOK
    <3> QED BY <2>1, <3>1, MakingWaits
  <2> QED BY <1>2, <1>3, <2>1, <2>2, <2>3, TookWaits DEF Get
<1>4. CASE Make(t)
  <2>1. Working(t) /\ pc[t] = "make"
    BY <1>4 DEF Make, Working
  <2>2. ASSUME ~ final[t], Goto(t, "open"), UNCHANGED <<object, files, loop, out>>
        PROVE  Waiting(t)'
    <3>1. pc'[t] = "open" /\ UNCHANGED <<object, loop, out>> /\ files' = files
      BY <1>0, <2>2 DEF Goto, TypeOK
    <3> QED BY <2>1, <2>2, <3>1, MakingWaits
  <2>3. CASE Generate(t)
    <3>1. ~ final[t]
      BY <2>1, <2>3, FinalWaits DEF Generate, RefAssumption, Waiting
    <3> QED BY <2>2, <2>3, <3>1 DEF Generate
  <2>4. CASE Derive(t)
    <3>1. files[TagAt(t).from] \in Content => ~ final[t]
      BY <2>1, FinalWaits DEF RefAssumption, Waiting
    <3> QED BY <1>2, <2>1, <2>2, <2>4, <3>1, SkipWaits DEF Derive
  <2> QED BY <1>4, <2>3, <2>4 DEF Make
<1>5. CASE Open(t) \/ Write(t)
  <2>1. Working(t) /\ pc[t] \in {"open", "write"} /\ pc'[t] \in {"write", "getAgain"}
        /\ UNCHANGED <<object, loop, out>>
    BY <1>0, <1>5 DEF Open, Write, Goto, Working, TypeOK
  <2>2. ~ final[t]
    BY <2>1 DEF Waiting, BlockedInv
  <2> QED BY <2>1, <2>2, MakingWaits
<1>6. CASE GetAgain(t)
  BY <1>2, <1>6, TookWaits DEF GetAgain, Working
<1> QED BY <1>1, <1>3, <1>4, <1>5, <1>6 DEF Work
\* Nothing of another target's refs and sources changes, so what it waits for is still missing.
LEMMA WaitsFrame ==
  ASSUME RefAssumption, NEW u \in Targets, Waiting(u), Same(u),
         \A h \in TagsOf(u) : /\ files'[h.path] = files[h.path]
                              /\ h.from \in Paths => files'[h.from] = files[h.from]
  PROVE  Waiting(u)'
<1>1. \A j \in Keys(u) : Blocked(u, j) => Blocked(u, j)'
  BY KeysSame DEF Blocked, Same
<1>2. BlockedInv(u)'
  BY <1>1, KeysSame DEF Waiting, BlockedInv, Same
<1>3. CountInv(u)'
  BY DEF Waiting, CountInv, Same
<1> QED BY <1>2, <1>3 DEF Waiting

-----------------------------------------------------------------------------
(* Why targets fail *)

LEMMA BrokenStep ==
  ASSUME RefAssumption, IInv, BrokenInv, [Next]_vars  PROVE BrokenInv'
<1>1. ASSUME NEW t \in Targets, Work(t)  PROVE BrokenInv'
  <2>1. object' = object /\ \A u \in Targets : PathsOf(u)' = PathsOf(u)
    BY <1>1, ObjectStays DEF PathsOf, TagsOf, TagsIn
  <2>2. ASSUME NEW p \in Paths, files'[p] = Broken, files[p] # Broken  PROVE p \in PathsOf(t)
    <3>1. p = TagAt(t).path /\ Working(t)
      BY <1>1, <2>2, FileKept DEF IInv, Good
    <3> QED BY <3>1, AtHand DEF IInv, Good, PathsOf
  <2> QED BY <2>1, <2>2 DEF BrokenInv
<1>2. CASE NextRun \/ UNCHANGED vars
  BY <1>2 DEF NextRun, vars, BrokenInv, PathsOf, TagsOf, TagsIn
<1> QED BY <1>1, <1>2 DEF Next, Over

\* A broken file that a tag needs is a file of its own target.
LEMMA BrokenIsOwn ==
  ASSUME Apart, IInv, BrokenInv, NEW t \in Targets, NEW g \in TagsOf(t), NEW p \in {g.path, g.from},
         p \in Paths, files[p] = Broken
  PROVE  p \in PathsOf(t)
<1>1. PICK u \in Targets : p \in PathsOf(u)
  BY DEF BrokenInv
<1>2. PICK h \in TagsOf(u) : p = h.path
  BY <1>1 DEF PathsOf
<1>3. u # t => h.path # g.path /\ h.path # g.from
  BY DEF Apart, IInv, TagsOf
<1> QED BY <1>1, <1>2, <1>3

LEMMA FailFrame ==
  ASSUME NEW u \in Targets, FailInv(u), Same(u),
         \A h \in TagsOf(u) : /\ files'[h.path] = files[h.path]
                              /\ h.from \in Paths => files'[h.from] = files[h.from]
  PROVE  FailInv(u)'
<1>1. \A p \in PathsOf(u) : files'[p] = files[p]
  BY DEF PathsOf
<1>2. /\ TagsOf(u)' = TagsOf(u) /\ PathsOf(u)' = PathsOf(u) /\ pc'[u] = pc[u]
  BY KeysSame DEF Same
<1>3. (\E p \in PathsOf(u) : files[p] = Broken) => FailInv(u)'
  BY <1>1, <1>2 DEF FailInv
<1>4. ASSUME NEW g \in TagsOf(u), files[g.path] = Missing,
             \A h \in TagsOf(u) : h.path = g.path => h.from = None
      PROVE  FailInv(u)'
  <2>1. files'[g.path] = Missing
    BY <1>4
  <2> QED BY <1>2, <1>4, <2>1 DEF FailInv
<1>5. ASSUME \A g \in TagsOf(u) :
               g.from = Generator \/ (g.from \in Paths /\ files[g.from] # Missing)
               => files[g.path] # Missing,
             NEW h \in TagsOf(u), files[h.path] = Missing
      PROVE  FailInv(u)'
  <2>1. files'[h.path] = Missing
    BY <1>5
  <2>2. \A g \in TagsOf(u) :
          g.from = Generator \/ (g.from \in Paths /\ files'[g.from] # Missing)
          => files'[g.path] # Missing
    BY <1>5
  <2> QED BY <1>2, <2>1, <2>2 DEF FailInv
<1> QED BY <1>2, <1>3, <1>4, <1>5 DEF FailInv

\* A worker that fails has a cause.
LEMMA CrashCause ==
  ASSUME RefAssumption, Apart, IInv, BrokenInv, NEW t \in Targets, Working(t), Crash(t),
         NEW p \in {TagAt(t).path, TagAt(t).from}, p \in Paths, files[p] = Broken
  PROVE  FailInv(t)'
<1>1. TagAt(t) \in TagsOf(t)
  BY AtHand DEF IInv, Good
<1>2. p \in PathsOf(t)
  BY <1>1, BrokenIsOwn
<1>3. files' = files /\ PathsOf(t)' = PathsOf(t)
  BY DEF Crash, PathsOf, TagsOf, TagsIn
<1> QED BY <1>2, <1>3 DEF FailInv

\* The ref of a tag that has been compiled is there.
LEMMA CompiledIsThere ==
  ASSUME IInv, NEW t \in Targets, NEW j \in Keys(t), j \in compiled[t],
         NEW m \in DOMAIN object[t][j].tags
  PROVE  files[object[t][j].tags[m].path] \in Content
<1>1. TypeOK /\ Good(t)
  BY DEF IInv
<1>2. Len(out[t][j]) = Len(object[t][j].tags)
  BY <1>1 DEF Good, OutInv
<1>3. DOMAIN object[t][j].tags = 1 .. Len(object[t][j].tags)
  BY <1>1, OutType
<1>4. m \in 1 .. Len(out[t][j])
  BY <1>2, <1>3
<1> QED BY <1>1, <1>4, TokenIs

LEMMA GivenCause ==
  ASSUME RefAssumption, Given, IInv, NEW t \in Targets, Working(t), RefFails(t),
         TagAt(t).from = None, files[TagAt(t).path] = Missing
  PROVE  FailInv(t)'
<1> DEFINE o == object[t]
           n == Len(out[t][key[t]]) + 1
<1>1. /\ TagAt(t) \in TagsOf(t) /\ key[t] \in DOMAIN o /\ n \in DOMAIN o[key[t]].tags
      /\ TagAt(t) = o[key[t]].tags[n] /\ TypeOK /\ o \in Objects[t]
  BY AtHand DEF IInv, Good, Keys, ValueAt, TagAt
<1>2. files' = files /\ TagsOf(t)' = TagsOf(t)
  BY DEF RefFails, TagsOf, TagsIn
<1>3. ASSUME NEW j \in 1 .. key[t] - 1, ~ Reveals(o[j]),
             NEW m \in DOMAIN o[j].tags, o[j].tags[m].path = TagAt(t).path
      PROVE  FALSE
  <2>1. j \in Keys(t) /\ j < key[t]
    <3>1. o \in Seq(Value)
      BY <1>1 DEF TypeOK
    <3>2. key[t] \in 1 .. Len(o) /\ Len(o) \in Nat
      <4>1. key[t] \in DOMAIN o
        BY <1>1
      <4> HIDE DEF o
      <4> QED BY <3>1, <4>1
    <3> QED BY <3>1, <3>2 DEF Keys
  <2>2. j \in compiled[t]
    BY <1>3, <2>1 DEF IInv, Good, FinalInv, Ended, Working
  <2>3. files[TagAt(t).path] \in Content
    BY <1>3, <2>1, <2>2, CompiledIsThere
  <2> QED BY <2>3 DEF RefAssumption
<1>4. \A h \in TagsOf(t) : h.path = TagAt(t).path => h.from = None
  <2>1. \/ \A h \in TagsIn(o) : h.path = o[key[t]].tags[n].path => h.from = None
        \/ \E j \in 1 .. key[t] - 1 :
             /\ ~ Reveals(o[j])
             /\ \E m \in DOMAIN o[j].tags : o[j].tags[m].path = o[key[t]].tags[n].path
    <3>1. o[key[t]].tags[n].from = None
      BY <1>1
    <3> HIDE DEF o, n
    <3> QED BY <1>1, <3>1 DEF Given
  <2>2. ASSUME NEW j \in 1 .. key[t] - 1, ~ Reveals(o[j]),
               \E m \in DOMAIN o[j].tags : o[j].tags[m].path = o[key[t]].tags[n].path
        PROVE  FALSE
    <3>1. PICK m \in DOMAIN o[j].tags : o[j].tags[m].path = o[key[t]].tags[n].path
      BY <2>2
    <3> QED BY <1>1, <1>3, <2>2, <3>1
  <2> QED BY <1>1, <2>1, <2>2 DEF TagsOf
<1> QED BY <1>1, <1>2, <1>4 DEF FailInv

\* In the final pass all that can be made has been made.
LEMMA StuckCause ==
  ASSUME RefAssumption, Single, IInv, NEW t \in Targets, Waiting(t), pc[t] = "make", RefFails(t),
         TagAt(t).from \in Paths, files[TagAt(t).from] = Missing
  PROVE  FailInv(t)'
<1>1. Working(t) /\ files' = files /\ TagsOf(t)' = TagsOf(t) /\ TypeOK
  BY DEF Working, RefFails, TagsOf, TagsIn, IInv
<1>2. CASE ~ final[t]
  <2>1. pc'[t] = "key"
    BY <1>1, <1>2, OneTag DEF RefFails, Goto, TypeOK
  <2> QED BY <2>1 DEF FailInv
<1>3. CASE final[t]
  <2>1. ASSUME NEW g \in TagsOf(t),
               g.from = Generator \/ (g.from \in Paths /\ files[g.from] # Missing)
        PROVE  files[g.path] # Missing
    <3>1. PICK k \in Keys(t) : \E i \in DOMAIN object[t][k].tags : g = object[t][k].tags[i]
      BY DEF TagsOf, TagsIn, Keys
    <3>2. PICK i \in DOMAIN object[t][k].tags : g = object[t][k].tags[i]
      BY <3>1
    <3>3. CASE k \in compiled[t]
      <4>1. files[g.path] \in Content
        BY <3>2, <3>3, CompiledIsThere
      <4> QED BY <4>1 DEF RefAssumption
    <3>4. CASE k \notin compiled[t]
      <4>1. Blocked(t, k)
        BY <1>3, <3>4 DEF Waiting, BlockedInv
      <4>2. PICK h \in TagsOf(t) : /\ object[t][k].tags = <<h>> /\ h.from \in Paths
                                   /\ files[h.from] = Missing
        BY <4>1 DEF Blocked
      <4>3. g = h
        BY <3>2, <4>2
      <4> QED BY <2>1, <4>2, <4>3 DEF RefAssumption
    <3> QED BY <3>3, <3>4
  <2>2. TagAt(t) \in TagsOf(t) /\ files[TagAt(t).path] = Missing
    BY <1>1, AtHand DEF IInv, Good, MidInv
  <2> QED BY <1>1, <2>1, <2>2 DEF FailInv
<1> QED BY <1>2, <1>3

LEMMA WorkFails ==
  ASSUME RefAssumption, Apart, Single, Given, IInv, BrokenInv, NEW t \in Targets, Waiting(t), Work(t)
  PROVE  FailInv(t)'
<1>0. TypeOK /\ (Working(t) => TagAt(t).path \in Paths)
  BY AtHand DEF IInv, Good
<1>1. ASSUME pc'[t] # "failed"  PROVE FailInv(t)'
  BY <1>1 DEF FailInv
<1>2. ASSUME Took(t)  PROVE FailInv(t)'
  <2>1. pc'[t] # "failed"
    BY <1>0, <1>2 DEF Took, Completes, Goto, TypeOK
  <2> QED BY <1>1, <2>1
<1>3. CASE NextKey(t) \/ PassEnds(t)
  <2>1. pc'[t] # "failed"
    BY <1>0, <1>3 DEF NextKey, PassEnds, Completes, Goto, TypeOK
  <2> QED BY <1>1, <2>1
<1>4. CASE Get(t)
  <2>1. Working(t)
    BY <1>4 DEF Get, Working
  <2>2. Goto(t, "make") => pc'[t] # "failed"
    BY <1>0 DEF Goto, TypeOK
  <2> QED BY <1>0, <1>1, <1>2, <1>4, <2>1, <2>2, CrashCause, GivenCause DEF Get
<1>5. CASE Make(t)
  <2>1. Working(t) /\ pc[t] = "make"
    BY <1>5 DEF Make, Working
  <2>2. Goto(t, "open") => pc'[t] # "failed"
    BY <1>0 DEF Goto, TypeOK
  <2> QED BY <1>0, <1>1, <1>5, <2>1, <2>2, CrashCause, StuckCause DEF Make, Generate, Derive
<1>6. CASE Open(t) \/ Write(t)
  <2>1. pc'[t] # "failed"
    BY <1>0, <1>6 DEF Open, Write, Goto, TypeOK
  <2> QED BY <1>1, <2>1
<1>7. CASE GetAgain(t)
  <2>1. Working(t)
    BY <1>7 DEF GetAgain, Working
  <2> QED BY <1>0, <1>2, <1>7, <2>1, CrashCause DEF GetAgain
<1> QED BY <1>3, <1>4, <1>5, <1>6, <1>7 DEF Work
\* What the causes of a failure say of what can be obtained.
LEMMA CauseMeans ==
  ASSUME RefAssumption, IInv, NEW t \in Targets, pc[t] = "failed", FailInv(t)
  PROVE  (\E p \in PathsOf(t) : files[p] = Broken) \/ ~ (PathsOf(t) \subseteq Obtainable(t))
<1>1. ASSUME NEW g \in TagsOf(t), NEW S \in SUBSET Paths, Existing \subseteq S, Closed(t, S),
             g.path \notin S
      PROVE  ~ (PathsOf(t) \subseteq Obtainable(t))
  <2>1. g.path \in PathsOf(t) /\ g.path \notin Obtainable(t)
    BY <1>1 DEF PathsOf, Obtainable
  <2> QED BY <2>1
<1>2. CASE \E g \in TagsOf(t) : /\ files[g.path] = Missing
                               /\ \A h \in TagsOf(t) : h.path = g.path => h.from = None
  <2>1. PICK g \in TagsOf(t) : /\ files[g.path] = Missing
                               /\ \A h \in TagsOf(t) : h.path = g.path => h.from = None
    BY <1>2
  <2> DEFINE S == Paths \ {g.path}
  <2>2. Existing \subseteq S
    BY <2>1 DEF Existing
  <2>3. Closed(t, S)
    <3> SUFFICES ASSUME NEW h \in TagsOf(t), h.from = Generator \/ h.from \in S
                 PROVE  h.path \in S
      BY DEF Closed
    <3> QED BY <2>1, TagOf DEF RefAssumption
  <2> QED BY <1>1, <2>2, <2>3
<1>3. CASE /\ \A g \in TagsOf(t) :
                g.from = Generator \/ (g.from \in Paths /\ files[g.from] # Missing)
                => files[g.path] # Missing
           /\ \E g \in TagsOf(t) : files[g.path] = Missing
  <2>1. PICK g \in TagsOf(t) : files[g.path] = Missing
    BY <1>3
  <2>2. Closed(t, Existing)
    BY <1>3, TagOf DEF Closed, Existing
  <2>3. Existing \in SUBSET Paths /\ g.path \notin Existing
    BY <2>1 DEF Existing
  <2> QED BY <1>1, <2>2, <2>3
<1> QED BY <1>2, <1>3 DEF FailInv

LEMMA FailStep ==
  ASSUME RefAssumption, Apart, Single, Given, IInv, BrokenInv,
         \A t \in Targets : Waiting(t) /\ FailInv(t), [Next]_vars
  PROVE  \A t \in Targets : Waiting(t)' /\ FailInv(t)'
<1>1. ASSUME NEW t \in Targets, Work(t), NEW u \in Targets  PROVE Waiting(u)' /\ FailInv(u)'
  <2>1. CASE u = t
    BY <1>1, <2>1, WorkWaits, WorkFails
  <2>2. CASE u # t
    <3>1. Same(u)
      BY <1>1, <2>2, OthersStay DEF IInv
    <3>2. \A h \in TagsOf(u) : /\ files'[h.path] = files[h.path]
                               /\ h.from \in Paths => files'[h.from] = files[h.from]
      BY <1>1, <2>2, OthersFiles
    <3> QED BY <3>1, <3>2, WaitsFrame, FailFrame
  <2> QED BY <2>1, <2>2
<1>2. ASSUME NextRun, NEW u \in Targets  PROVE Waiting(u)' /\ FailInv(u)'
  <2>1. /\ pc'[u] = "key" /\ key'[u] = 1 /\ compiled'[u] = {} /\ ~ progress'[u]
        /\ pass'[u] = 0 /\ ~ final'[u] /\ object' = object
    BY <1>2 DEF NextRun
  <2>2. \A j \in Keys(u)' : ~ (j < 1)
    <3>1. object[u] \in Seq(Value)
      BY DEF IInv, TypeOK
    <3> QED BY <2>1, <3>1 DEF Keys
  <2>3. IsFiniteSet({}) /\ Cardinality({}) = 0
    BY FS_EmptySet
  <2> QED BY <2>1, <2>2, <2>3 DEF Waiting, BlockedInv, CountInv, FailInv
<1>3. ASSUME UNCHANGED vars, NEW u \in Targets  PROVE Waiting(u)' /\ FailInv(u)'
  <2>1. Same(u) /\ files' = files
    BY <1>3 DEF Same, vars
  <2> QED BY <2>1, WaitsFrame, FailFrame
<1> QED BY <1>1, <1>2, <1>3 DEF Next, Over

\* When a value reveals with one tag alone and tags without a function name refs that were
\* given, a target fails only over a ref that cannot be had or a file that does not load,
\* in whatever order its keys come: no pass, and not the bound on their number, gives up early.
THEOREM ObtainableCompilesHolds ==
  ASSUME RefAssumption, Apart, Single, Given  PROVE Spec => []ObtainableCompiles
<1> DEFINE Inv == IInv /\ BrokenInv /\ \A t \in Targets : Waiting(t) /\ FailInv(t)
<1>1. Init => Inv
  <2> SUFFICES ASSUME Init  PROVE Inv
    OBVIOUS
  <2>1. BrokenInv
    <3>1. \A p \in Paths : files[p] \in {<<0>>, Missing}
      BY DEF Init
    <3>2. Broken # Missing /\ Broken # <<0>>
      <4>1. <<0>> \in Content
        BY DEF Content
      <4> QED BY <4>1 DEF RefAssumption
    <3> QED BY <3>1, <3>2 DEF BrokenInv
  <2>2. \A t \in Targets : FailInv(t)
    BY DEF Init, FailInv
  <2>3. ASSUME NEW t \in Targets  PROVE Waiting(t)
    <3>1. \A j \in Keys(t) : ~ (j < 1)
      <4>1. object[t] \in Seq(Value)
        BY InvInit DEF IInv, TypeOK
      <4> QED BY <4>1 DEF Keys
    <3>2. IsFiniteSet({}) /\ Cardinality({}) = 0
      BY FS_EmptySet
    <3> QED BY <3>1, <3>2 DEF Init, Waiting, BlockedInv, CountInv
  <2> QED BY <2>1, <2>2, <2>3, InvInit
<1>2. Inv /\ [Next]_vars => Inv'
  BY InvStep, BrokenStep, FailStep
<1>3. Inv => ObtainableCompiles
  BY CauseMeans DEF ObtainableCompiles
<1> QED BY <1>1, <1>2, <1>3, PTL DEF Spec
=============================================================================
