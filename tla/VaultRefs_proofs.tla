-------------------------- MODULE VaultRefs_proofs --------------------------
(***************************************************************************)
(* For any targets, tags, parameters and vaults: a tag reveals a secret of *)
(* its own path and key, a process shows one secret for it, a kill or a    *)
(* lost answer never makes a ref file point to nothing, and what was       *)
(* referenced before a run is not made again by it.                        *)
(***************************************************************************)
EXTENDS VaultRefs, TLAPS

-----------------------------------------------------------------------------
(* The inductive invariant, in parts *)

\* A worker that makes a ref.
Making(t) == pc[t] \in {"read", "write", "open", "dump"}

InRange == \A t \in Targets : Making(t) => at[t] <= Len(tags[t])

\* The secrets v are each of path p and of the key they are under.
Own(v, p) == \A k \in DOMAIN v : v[k].path = p /\ v[k].key = k

\* The vault holds what was generated for a place there, and so does what a
\* worker has read and generated.
OwnInv ==
  /\ \A p \in Place : Own(Content(p), p.path)
  /\ \A t \in Targets : pc[t] \in {"read", "write"} =>
       made[t].path = TagOf(t).path /\ made[t].key = TagOf(t).key
  /\ \A t \in Targets : pc[t] = "write" => Own(seen[t], TagOf(t).path)

\* The secret is in the vault before its file is written.
PutInv ==
  \A t \in Targets : pc[t] \in {"open", "dump"} =>
    \/ TagOf(t).key \in DOMAIN Content(WritePlace(t))
    \/ WritePlace(t) \in changed \cup raced

\* Nobody makes a ref again whose file was there when the run began.
BegunInv ==
  Running => /\ \A r \in begun : Whole(r)
             /\ \A t \in Targets : Making(t) => TagOf(t).ref \notin begun

IInv ==
  /\ TypeOK /\ InRange /\ OwnInv /\ PutInv /\ BegunInv
  /\ TagsRevealTheirOwn /\ OneSecretPerTag /\ LossHasACause

-----------------------------------------------------------------------------
(* Types *)

LEMMA KeySetFacts ==
  ASSUME NEW v \in KeySets
  PROVE  /\ DOMAIN v \subseteq Keys /\ v = [k \in DOMAIN v |-> v[k]]
         /\ \A k \in DOMAIN v : v[k] \in Secret
<1>1. PICK ks \in SUBSET Keys : v \in [ks -> Secret]
  BY DEF KeySets
<1> QED BY <1>1

LEMMA KeySetsIntro ==
  ASSUME NEW ks \in SUBSET Keys, NEW v \in [ks -> Secret]
  PROVE  v \in KeySets
BY DEF KeySets

LEMMA NoKeysType == NoKeys \in KeySets /\ DOMAIN NoKeys = {}
<1>1. NoKeys \in [{} -> Secret] /\ {} \in SUBSET Keys
  BY DEF NoKeys
<1> QED BY <1>1 DEF KeySets, NoKeys

LEMMA ContentType ==
  ASSUME VaultAssumption, TypeOK, NEW p \in Place
  PROVE  Content(p) \in KeySets
BY NoKeysType DEF Content, TypeOK

LEMMA TagType ==
  ASSUME VaultAssumption, TypeOK, NEW t \in Targets, at[t] <= Len(tags[t])
  PROVE  /\ TagOf(t) \in Tag /\ params[t] \in Param
         /\ TagOf(t).ref \in Refs /\ TagOf(t).path \in VaultPaths /\ TagOf(t).key \in Keys
         /\ ReadPlace(t) \in Place /\ ReadPlace(t).path = TagOf(t).path
         /\ WritePlace(t) \in Place /\ WritePlace(t).path = TagOf(t).path
         /\ NewFile(t) \in RefFile
<1>1. TagOf(t) \in Tag
  <2>1. tags[t] \in Seq(Tag) /\ at[t] \in 1..Len(tags[t])
    BY DEF TypeOK
  <2> QED BY <2>1 DEF TagOf
<1>2. params[t] \in Param
  BY DEF TypeOK
<1>3. MountOf(t) \in Mounts
  BY <1>1, <1>2 DEF MountOf, Tag, Param
<1> QED BY <1>1, <1>2, <1>3 DEF ReadPlace, WritePlace, NewFile, Tag, Param, Place, RefFile, Engines

LEMMA UpdatedType ==
  ASSUME VaultAssumption, TypeOK, NEW t \in Targets, TagOf(t).key \in Keys, made[t] \in Secret
  PROVE  /\ Updated(t) \in KeySets /\ Updated(t) \notin {Absent, Deleted}
         /\ DOMAIN Updated(t) = DOMAIN seen[t] \cup {TagOf(t).key}
<1>1. seen[t] \in KeySets
  BY DEF TypeOK
<1>2. DOMAIN seen[t] \cup {TagOf(t).key} \in SUBSET Keys
  BY <1>1, KeySetFacts
<1>3. Updated(t) \in [DOMAIN seen[t] \cup {TagOf(t).key} -> Secret]
  <2>1. \A k \in DOMAIN seen[t] : seen[t][k] \in Secret
    BY <1>1, KeySetFacts
  <2> QED BY <2>1 DEF Updated
<1>4. Updated(t) \in KeySets
  BY <1>2, <1>3, KeySetsIntro
<1> QED BY <1>3, <1>4 DEF VaultAssumption

LEMMA TokenType ==
  ASSUME TypeOK, NEW r \in Refs, Whole(r)
  PROVE  TokenFor(r) \in Token
<1>1. files[r] \in RefFile
  BY DEF TypeOK, Whole
<1> QED BY <1>1 DEF TokenFor, Token, RefFile

LEMMA InitTyped ==
  ASSUME VaultAssumption, Init  PROVE TypeOK /\ InRange
<1>1. tags \in [Targets -> Seq(Tag)] /\ params \in [Targets -> Param]
  BY DEF Init, VaultAssumption
<1>2. seen \in [Targets -> KeySets]
  BY NoKeysType DEF Init
<1>3. runs \in 0..MaxRuns /\ count \in 0..MaxMade /\ faults \in 0..MaxFaults /\ edits \in 0..MaxEdits
  <2>1. MaxRuns \in Nat /\ MaxMade \in Nat /\ MaxFaults \in Nat /\ MaxEdits \in Nat
    BY DEF VaultAssumption
  <2> QED BY <2>1 DEF Init
<1>4. pc \in [Targets -> PCs] /\ at \in [Targets -> Nat \ {0}]
  BY DEF Init, PCs
<1>5. files \in [Refs -> {Missing, Torn} \cup RefFile] /\ vault \in [Place -> {Absent, Deleted} \cup KeySets]
  BY DEF Init
<1>6. home \in [Refs -> Place \cup {None}] /\ out \in [Targets -> SUBSET Token]
  BY DEF Init
<1>7. \A t \in Targets : pc[t] = "idle"
  BY DEF Init
<1> QED BY <1>1, <1>2, <1>3, <1>4, <1>5, <1>6, <1>7 DEF Init, TypeOK, InRange, Making

\* What a step of the worker of t on files and vault leaves to be typed.
LEMMA WorkTyped ==
  ASSUME VaultAssumption, TypeOK, InRange, NEW t \in Targets,
         Work(t) \/ Refused(t) \/ AnswerLost(t)
  PROVE  TypeOK' /\ InRange'
<1> USE DEF TypeOK, InRange, Making, user, worker, run, reveal, history, PCs
<1>1. CASE CompileTag(t)
  <2>1. Whole(TagOf(t).ref) /\ TagOf(t).ref \in Refs
    BY <1>1, TagType DEF CompileTag, Found
  <2>2. TokenFor(TagOf(t).ref) \in Token
    BY <2>1, TokenType
  <2>3. out' \in [Targets -> SUBSET Token]
    BY <1>1, <2>2 DEF CompileTag
  <2>4. pc[t] = "meet" /\ at' = [at EXCEPT ![t] = @ + 1]
    BY <1>1 DEF CompileTag
  <2>5. at' \in [Targets -> Nat \ {0}] /\ \A u \in Targets \ {t} : at'[u] = at[u]
    BY <2>4
  <2>6. InRange'
    BY <1>1, <2>4, <2>5 DEF CompileTag
  <2> QED BY <1>1, <2>3, <2>5, <2>6 DEF CompileTag
<1>2. CASE Generate(t)
  <2>1. count' \in 1..MaxMade
    BY <1>2, VaultAssumption DEF Generate, VaultAssumption
  <2>2. [path |-> TagOf(t).path, key |-> TagOf(t).key, n |-> count'] \in Secret
    BY <1>2, <2>1, TagType DEF Generate, Secret
  <2> QED BY <1>2, <2>1, <2>2 DEF Generate, Goto
<1>3. CASE TornFails(t)
  BY <1>3, NoKeysType DEF TornFails, Fail, Goto
<1>4. CASE ReadVault(t)
  <2>1. Content(ReadPlace(t)) \in KeySets
    BY <1>4, TagType, ContentType DEF ReadVault
  <2> QED BY <1>4, <2>1 DEF ReadVault, Goto
<1>5. CASE DeletedFails(t)
  BY <1>5, NoKeysType DEF DeletedFails, Fail, Goto
<1>6. CASE Refused(t)
  BY <1>6, NoKeysType, VaultAssumption DEF Refused, Fail, Goto, VaultAssumption
<1>7. ASSUME PutSecret(t), pc[t] = "write"
      PROVE  /\ vault' \in [Place -> {Absent, Deleted} \cup KeySets]
             /\ raced' \in SUBSET Place
  <2>1. WritePlace(t) \in Place /\ TagOf(t).key \in Keys
    BY <1>7, TagType
  <2>2. Updated(t) \in KeySets
    BY <1>7, <2>1, UpdatedType
  <2> QED BY <1>7, <2>1, <2>2 DEF PutSecret
<1>8. CASE WriteVault(t)
  BY <1>7, <1>8, NoKeysType DEF WriteVault, Goto
<1>9. CASE AnswerLost(t)
  BY <1>7, <1>9, NoKeysType, VaultAssumption DEF AnswerLost, Fail, Goto, VaultAssumption
<1>10. CASE OpenRef(t)
  BY <1>10 DEF OpenRef, Goto
<1>11. CASE DumpRef(t)
  <2>1. TagOf(t).ref \in Refs /\ NewFile(t) \in RefFile /\ WritePlace(t) \in Place
    BY <1>11, TagType DEF DumpRef
  <2> QED BY <1>11, <2>1 DEF DumpRef, Goto
<1>12. CASE FinishTarget(t)
  BY <1>12 DEF FinishTarget, Goto
<1> HIDE DEF TypeOK, InRange, Making, user, worker, run, reveal, history, PCs
<1> QED BY <1>1, <1>2, <1>3, <1>4, <1>5, <1>6, <1>8, <1>9, <1>10, <1>11, <1>12 DEF Work

\* Runs begin and end, a process reveals, users and administrators do what they do.
Around ==
  \/ \E t \in Targets : EditInventory(t)
  \/ \E e \in BOOLEAN : StartRun(e)
  \/ EndRun \/ Kill \/ StartReveal \/ EndReveal
  \/ \E g \in compiled : RevealTag(g)
  \/ \E r \in Refs : RemoveRef(r)
  \/ \E p \in Place : Remove(p)
  \/ UNCHANGED vars
\* What a tag that is not remembered shows: the secret of its path and key.
LEMMA Revealed ==
  ASSUME VaultAssumption, TypeOK, OwnInv, NEW g \in compiled, Resolves(g),
         Obtainable(RefOf(g)),
         NEW s, s = vault[PlaceOf(RefOf(g))][RefOf(g).key]
  PROVE  s \in Secret /\ s.path = g.path /\ s.key = g.key
<1> DEFINE f == RefOf(g)
           p == PlaceOf(f)
<1>1. g \in Token
  BY DEF TypeOK
<1>2. f \in RefFile /\ f.path = g.path /\ f.key = g.key
  <2>1. CASE g.carried # None
    BY <1>1, <2>1 DEF RefOf, RefFile, Token
  <2>2. CASE g.carried = None
    <3>1. Whole(g.ref) /\ HashMatches(g) /\ f = files[g.ref] /\ g.ref \in Refs
      BY <1>1, <2>2 DEF Resolves, RefOf, Token
    <3>2. files[g.ref] \in RefFile
      BY <3>1 DEF TypeOK, Whole
    <3> QED BY <3>1, <3>2 DEF HashMatches
  <2> QED BY <2>1, <2>2
<1>3. p \in Place /\ p.path = g.path
  BY <1>2 DEF PlaceOf, Place, RefFile, Param
<1>4. f.key \in DOMAIN Content(p)
  BY DEF Obtainable
<1>5. Content(p) = vault[p]
  BY <1>4, NoKeysType DEF Content
<1>6. Content(p) \in KeySets
  BY <1>3, ContentType
<1>7. s = Content(p)[f.key]
  BY <1>5
<1> HIDE DEF f, p
<1>8. s \in Secret
  BY <1>4, <1>6, <1>7, KeySetFacts
<1>9. s.path = p.path /\ s.key = f.key
  BY <1>3, <1>4, <1>7 DEF OwnInv, Own
<1> QED BY <1>2, <1>3, <1>8, <1>9

LEMMA RevealedType ==
  ASSUME VaultAssumption, TypeOK, OwnInv, NEW g \in compiled, RevealTag(g)
  PROVE  shown' \in SUBSET Shown
<1>1. PICK s \in IF Remembered(g) # {} THEN {m.secret : m \in Remembered(g)}
              ELSE IF Obtainable(RefOf(g)) THEN {vault[PlaceOf(RefOf(g))][RefOf(g).key]} ELSE {} :
        shown' = shown \cup {[token |-> g, secret |-> s]}
  BY DEF RevealTag
<1>2. CASE Remembered(g) # {}
  BY <1>1, <1>2 DEF Remembered, TypeOK, Shown
<1>3. CASE Remembered(g) = {}
  <2>1. s \in Secret
    BY <1>1, <1>3, Revealed DEF RevealTag
  <2> QED BY <1>1, <2>1 DEF TypeOK, Shown
<1> QED BY <1>2, <1>3

LEMMA AroundTyped ==
  ASSUME VaultAssumption, TypeOK, InRange, OwnInv, Around
  PROVE  TypeOK' /\ InRange'
<1> USE DEF TypeOK, InRange, Making, user, worker, run, reveal, history, PCs
<1>1. ASSUME NEW t \in Targets, EditInventory(t)  PROVE TypeOK' /\ InRange'
  <2>1. edits' \in 0..MaxEdits
    BY <1>1, VaultAssumption DEF EditInventory, VaultAssumption
  <2>2. tags' \in [Targets -> Seq(Tag)] /\ params' \in [Targets -> Param]
    <3>1. TagLists[t] \subseteq Seq(Tag) /\ Params[t] \subseteq Param
      BY DEF VaultAssumption
    <3>2. CASE \E l \in TagLists[t] : tags' = [tags EXCEPT ![t] = l] /\ UNCHANGED params
      BY <3>1, <3>2
    <3>3. CASE \E q \in Params[t] : params' = [params EXCEPT ![t] = q] /\ UNCHANGED tags
      BY <3>1, <3>3
    <3> QED BY <1>1, <3>2, <3>3 DEF EditInventory
  <2>3. \A u \in Targets : pc[u] = "idle"
    BY <1>1 DEF EditInventory, Running
  <2>4. UNCHANGED <<files, vault, run, worker, compiled, reveal, count, faults, history>>
    BY <1>1 DEF EditInventory
  <2> QED BY <2>1, <2>2, <2>3, <2>4
<1>2. ASSUME NEW e \in BOOLEAN, StartRun(e)  PROVE TypeOK' /\ InRange'
  BY <1>2, VaultAssumption DEF StartRun, VaultAssumption
<1>3. ASSUME NoWorkers
      PROVE  /\ pc' \in [Targets -> PCs] /\ at' \in [Targets -> Nat \ {0}]
             /\ made' \in [Targets -> {None} \cup Secret]
             /\ seen' \in [Targets -> KeySets] /\ out' \in [Targets -> SUBSET Token]
             /\ \A t \in Targets : pc'[t] = "idle"
  BY <1>3, NoKeysType DEF NoWorkers
<1>4. CASE EndRun
  <2>1. compiled' \in SUBSET Token
    BY <1>4 DEF EndRun
  <2> QED BY <1>3, <1>4, <2>1 DEF EndRun
<1>5. CASE Kill
  BY <1>3, <1>5, VaultAssumption DEF Kill, VaultAssumption
<1>6. CASE StartReveal \/ EndReveal
  BY <1>6 DEF StartReveal, EndReveal
<1>7. ASSUME NEW g \in compiled, RevealTag(g)  PROVE TypeOK' /\ InRange'
  BY <1>7, RevealedType DEF RevealTag
<1>8. ASSUME NEW r \in Refs, RemoveRef(r)  PROVE TypeOK' /\ InRange'
  BY <1>8, VaultAssumption DEF RemoveRef, VaultAssumption
<1>9. ASSUME NEW p \in Place, Remove(p)  PROVE TypeOK' /\ InRange'
  BY <1>9, VaultAssumption DEF Remove, VaultAssumption
<1>10. CASE UNCHANGED vars
  BY <1>10 DEF vars
<1> HIDE DEF TypeOK, InRange, Making, user, worker, run, reveal, history, PCs
<1> QED BY <1>1, <1>2, <1>4, <1>5, <1>6, <1>7, <1>8, <1>9, <1>10 DEF Around
LEMMA TypeStep ==
  ASSUME VaultAssumption, TypeOK, InRange, OwnInv, [Next]_vars
  PROVE  TypeOK' /\ InRange'
BY WorkTyped, AroundTyped DEF Next, Around

-----------------------------------------------------------------------------
(* What a step can change *)

LEMMA OthersStay ==
  ASSUME TypeOK, NEW t \in Targets, NEW u \in Targets, u # t,
         Work(u) \/ Refused(u) \/ AnswerLost(u)
  PROVE  pc'[t] = pc[t] /\ at'[t] = at[t] /\ made'[t] = made[t] /\ seen'[t] = seen[t]
<1>1. /\ pc \in [Targets -> PCs] /\ at \in [Targets -> Nat \ {0}]
      /\ made \in [Targets -> {None} \cup Secret] /\ seen \in [Targets -> KeySets]
  BY DEF TypeOK
<1> USE <1>1 DEF Goto, Fail
<1>2. CASE CompileTag(u) \/ Generate(u) \/ FinishTarget(u)
  BY <1>2 DEF CompileTag, Generate, FinishTarget
<1>3. CASE TornFails(u) \/ DeletedFails(u) \/ Refused(u) \/ AnswerLost(u)
  BY <1>3 DEF TornFails, DeletedFails, Refused, AnswerLost
<1>4. CASE ReadVault(u) \/ WriteVault(u)
  BY <1>4 DEF ReadVault, WriteVault
<1>5. CASE OpenRef(u) \/ DumpRef(u)
  BY <1>5 DEF OpenRef, DumpRef
<1> QED BY <1>2, <1>3, <1>4, <1>5 DEF Work

\* A worker that is making a ref after a step was making it before, or has just
\* begun to, and has gone at most one step further.
LEMMA MakingSteps ==
  ASSUME VaultAssumption, TypeOK, InRange, [Next]_vars, NEW t \in Targets, Making(t)'
  PROVE  /\ Running /\ begun' = begun
         /\ TagOf(t)' = TagOf(t) /\ WritePlace(t)' = WritePlace(t)
         /\ \/ pc'[t] = pc[t] /\ made'[t] = made[t] /\ seen'[t] = seen[t]
            \/ Generate(t) \/ ReadVault(t) \/ WriteVault(t) \/ OpenRef(t)
<1> DEFINE Frame == /\ pc[t] # "idle" /\ begun' = begun
                    /\ tags'[t] = tags[t] /\ params'[t] = params[t] /\ at'[t] = at[t]
           Gone == \/ pc'[t] = pc[t] /\ made'[t] = made[t] /\ seen'[t] = seen[t]
                   \/ Generate(t) \/ ReadVault(t) \/ WriteVault(t) \/ OpenRef(t)
<1>1. SUFFICES Frame /\ Gone
  BY DEF Running, TagOf, WritePlace, MountOf
<1>2. /\ pc \in [Targets -> PCs] /\ pc'[t] \in {"read", "write", "open", "dump"}
      /\ at \in [Targets -> Nat \ {0}]
  BY DEF TypeOK, Making
<1>3. ASSUME NEW u \in Targets, Work(u) \/ Refused(u) \/ AnswerLost(u)
      PROVE  Frame /\ Gone
  <2>1. tags' = tags /\ params' = params /\ begun' = begun
    BY <1>3 DEF Work, CompileTag, Generate, TornFails, ReadVault, DeletedFails, WriteVault,
                OpenRef, DumpRef, FinishTarget, Refused, AnswerLost, Fail, user, run
  <2>2. CASE u # t
    BY <1>2, <1>3, <2>1, <2>2, OthersStay
  <2>3. CASE u = t
    <3>1. CASE CompileTag(t)
      BY <1>2, <3>1 DEF CompileTag
    <3>2. CASE TornFails(t) \/ DeletedFails(t) \/ Refused(t) \/ AnswerLost(t)
      BY <1>2, <3>2 DEF TornFails, DeletedFails, Refused, AnswerLost, Fail, Goto
    <3>3. CASE FinishTarget(t) \/ DumpRef(t)
      BY <1>2, <3>3 DEF FinishTarget, DumpRef, Goto
    <3>4. CASE Generate(t) \/ ReadVault(t)
      BY <2>1, <3>4 DEF Generate, ReadVault
    <3>5. CASE WriteVault(t) \/ OpenRef(t)
      BY <2>1, <3>5 DEF WriteVault, OpenRef
    <3> QED BY <1>3, <2>3, <3>1, <3>2, <3>3, <3>4, <3>5 DEF Work
  <2> QED BY <2>2, <2>3
<1>4. ASSUME NEW u \in Targets, EditInventory(u)  PROVE FALSE
  BY <1>2, <1>4 DEF EditInventory, Running, worker
<1>5. ASSUME NEW e \in BOOLEAN, StartRun(e)  PROVE FALSE
  BY <1>2, <1>5 DEF StartRun
<1>6. CASE EndRun \/ Kill
  BY <1>2, <1>6 DEF EndRun, Kill, NoWorkers
<1>7. CASE \/ StartReveal \/ EndReveal \/ \E g \in compiled : RevealTag(g)
           \/ UNCHANGED vars
  BY <1>2, <1>7 DEF StartReveal, EndReveal, RevealTag, user, run, worker, vars
<1>8. CASE (\E r \in Refs : RemoveRef(r)) \/ (\E p \in Place : Remove(p))
  BY <1>2, <1>8 DEF RemoveRef, Remove, user, run, worker
<1> HIDE DEF Frame, Gone
<1> QED BY <1>3, <1>4, <1>5, <1>6, <1>7, <1>8 DEF Next

\* The vault changes when a worker puts its secret or the administrator removes one.
LEMMA VaultSteps ==
  ASSUME [Next]_vars
  PROVE  \/ vault' = vault /\ raced' = raced /\ changed' = changed
         \/ \E t \in Targets : pc[t] = "write" /\ PutSecret(t) /\ changed' = changed
         \/ \E p \in Place : Remove(p)
<1> USE DEF history
<1>1. ASSUME NEW t \in Targets,
             \/ CompileTag(t) \/ Generate(t) \/ TornFails(t) \/ ReadVault(t) \/ DeletedFails(t)
             \/ OpenRef(t) \/ DumpRef(t) \/ FinishTarget(t) \/ Refused(t) \/ EditInventory(t)
      PROVE  vault' = vault /\ raced' = raced /\ changed' = changed
  BY <1>1 DEF CompileTag, Generate, TornFails, ReadVault, DeletedFails, OpenRef, DumpRef,
              FinishTarget, Refused, EditInventory
<1>2. ASSUME NEW t \in Targets, WriteVault(t) \/ AnswerLost(t)
      PROVE  pc[t] = "write" /\ PutSecret(t) /\ changed' = changed
  BY <1>2 DEF WriteVault, AnswerLost
<1>3. CASE \/ \E e \in BOOLEAN : StartRun(e)
           \/ EndRun \/ Kill \/ StartReveal \/ EndReveal
           \/ \E g \in compiled : RevealTag(g)
           \/ \E r \in Refs : RemoveRef(r)
           \/ UNCHANGED vars
  BY <1>3 DEF StartRun, EndRun, Kill, StartReveal, EndReveal, RevealTag, RemoveRef, vars
<1> QED BY <1>1, <1>2, <1>3 DEF Next, Work
\* A worker that puts its secret changes one place, and that to what it knew of it.
LEMMA PutFacts ==
  ASSUME VaultAssumption, TypeOK, InRange, NEW t \in Targets, pc[t] = "write", PutSecret(t),
         NEW p \in Place
  PROVE  /\ p # WritePlace(t) => Content(p)' = Content(p)
         /\ p = WritePlace(t) => Content(p)' = Updated(t) /\ vault'[p] = Updated(t)
         /\ DOMAIN Updated(t) = DOMAIN seen[t] \cup {TagOf(t).key}
         /\ made[t] \in Secret
<1>1. at[t] <= Len(tags[t]) /\ made[t] \in Secret
  BY DEF InRange, Making, TypeOK
<1>2. TagOf(t).key \in Keys /\ WritePlace(t) \in Place
  BY <1>1, TagType
<1>3. Updated(t) \notin {Absent, Deleted} /\ DOMAIN Updated(t) = DOMAIN seen[t] \cup {TagOf(t).key}
  BY <1>1, <1>2, UpdatedType
<1>4. vault' = [vault EXCEPT ![WritePlace(t)] = Updated(t)]
  BY DEF PutSecret
<1>5. vault'[p] = IF p = WritePlace(t) THEN Updated(t) ELSE vault[p]
  BY <1>4 DEF TypeOK
<1> QED BY <1>1, <1>3, <1>5 DEF Content

LEMMA RemoveFacts ==
  ASSUME TypeOK, NEW q \in Place, Remove(q), NEW p \in Place
  PROVE  /\ p # q => Content(p)' = Content(p)
         /\ p = q => Content(p)' = NoKeys
BY DEF Remove, Content, TypeOK

\* Where nobody raced and the administrator did nothing, a path keeps its keys.
LEMMA KeysStay ==
  ASSUME VaultAssumption, TypeOK, InRange, [Next]_vars, NEW p \in Place
  PROVE  /\ p \in changed \cup raced => p \in changed' \cup raced'
         /\ p \in changed' \cup raced' \/ DOMAIN Content(p) \subseteq DOMAIN Content(p)'
<1>1. CASE vault' = vault /\ raced' = raced /\ changed' = changed
  BY <1>1 DEF Content
<1>2. ASSUME NEW t \in Targets, pc[t] = "write", PutSecret(t), changed' = changed
      PROVE  /\ p \in changed \cup raced => p \in changed' \cup raced'
             /\ p \in changed' \cup raced' \/ DOMAIN Content(p) \subseteq DOMAIN Content(p)'
  <2>1. CASE p # WritePlace(t)
    BY <1>2, <2>1, PutFacts DEF PutSecret
  <2>2. CASE p = WritePlace(t)
    <3>1. DOMAIN Content(p)' = DOMAIN seen[t] \cup {TagOf(t).key}
      BY <1>2, <2>2, PutFacts
    <3>2. p \in raced' \/ Content(p) = seen[t]
      BY <1>2, <2>2 DEF PutSecret
    <3>3. raced \subseteq raced'
      BY <1>2 DEF PutSecret
    <3> QED BY <1>2, <3>1, <3>2, <3>3
  <2> QED BY <2>1, <2>2
<1>3. ASSUME NEW q \in Place, Remove(q)
      PROVE  /\ p \in changed \cup raced => p \in changed' \cup raced'
             /\ p \in changed' \cup raced' \/ DOMAIN Content(p) \subseteq DOMAIN Content(p)'
  <2>1. changed' = changed \cup {q} /\ raced' = raced
    BY <1>3 DEF Remove
  <2> QED BY <1>3, <2>1, RemoveFacts
<1> QED BY <1>1, <1>2, <1>3, VaultSteps

-----------------------------------------------------------------------------
(* Every step keeps the invariant *)

LEMMA OwnStep ==
  ASSUME VaultAssumption, TypeOK, InRange, OwnInv, [Next]_vars
  PROVE  OwnInv'
<1>1. ASSUME NEW p \in Place  PROVE Own(Content(p), p.path)'
  <2>1. Own(Content(p), p.path)
    BY DEF OwnInv
  <2>2. CASE vault' = vault
    BY <2>1, <2>2 DEF Content, Own
  <2>3. ASSUME NEW t \in Targets, pc[t] = "write", PutSecret(t)
        PROVE  Own(Content(p), p.path)'
    <3>1. CASE p # WritePlace(t)
      BY <2>1, <2>3, <3>1, PutFacts DEF Own
    <3>2. CASE p = WritePlace(t)
      <4>1. Content(p)' = Updated(t) /\ DOMAIN Updated(t) = DOMAIN seen[t] \cup {TagOf(t).key}
        BY <2>3, <3>2, PutFacts
      <4>2. p.path = TagOf(t).path
        BY <3>2 DEF WritePlace
      <4>3. /\ made[t].path = TagOf(t).path /\ made[t].key = TagOf(t).key
            /\ \A k \in DOMAIN seen[t] : seen[t][k].path = TagOf(t).path /\ seen[t][k].key = k
        BY <2>3 DEF OwnInv, Own
      <4>4. \A k \in DOMAIN Updated(t) :
              Updated(t)[k].path = TagOf(t).path /\ Updated(t)[k].key = k
        BY <4>3 DEF Updated
      <4> QED BY <4>1, <4>2, <4>4 DEF Own
    <3> QED BY <3>1, <3>2
  <2>4. ASSUME NEW q \in Place, Remove(q)  PROVE Own(Content(p), p.path)'
    BY <2>1, <2>4, RemoveFacts, NoKeysType DEF Own
  <2> QED BY <2>2, <2>3, <2>4, VaultSteps
<1>2. ASSUME NEW t \in Targets, pc'[t] \in {"read", "write"}
      PROVE  /\ made'[t].path = TagOf(t)'.path /\ made'[t].key = TagOf(t)'.key
             /\ pc'[t] = "write" => Own(seen'[t], TagOf(t)'.path)
  <2>1. /\ TagOf(t)' = TagOf(t)
        /\ \/ pc'[t] = pc[t] /\ made'[t] = made[t] /\ seen'[t] = seen[t]
           \/ Generate(t) \/ ReadVault(t) \/ WriteVault(t) \/ OpenRef(t)
    BY <1>2, MakingSteps DEF Making
  <2>2. CASE pc'[t] = pc[t] /\ made'[t] = made[t] /\ seen'[t] = seen[t]
    BY <1>2, <2>1, <2>2 DEF OwnInv
  <2>3. CASE Generate(t)
    BY <1>2, <2>1, <2>3 DEF Generate, Goto, TypeOK
  <2>4. CASE ReadVault(t)
    <3>1. /\ pc[t] = "read" /\ made' = made /\ seen'[t] = Content(ReadPlace(t))
      BY <2>4 DEF ReadVault, TypeOK
    <3>2. ReadPlace(t) \in Place /\ ReadPlace(t).path = TagOf(t).path
      BY <3>1, TagType DEF InRange, Making
    <3> QED BY <2>1, <3>1, <3>2 DEF OwnInv
  <2>5. CASE WriteVault(t) \/ OpenRef(t)
    BY <1>2, <2>5 DEF WriteVault, OpenRef, Goto, TypeOK
  <2> QED BY <2>1, <2>2, <2>3, <2>4, <2>5
<1> QED BY <1>1, <1>2 DEF OwnInv

LEMMA PutStep ==
  ASSUME VaultAssumption, TypeOK, InRange, PutInv, [Next]_vars
  PROVE  PutInv'
<1> SUFFICES ASSUME NEW t \in Targets, pc'[t] \in {"open", "dump"}
             PROVE  \/ TagOf(t)'.key \in DOMAIN Content(WritePlace(t))'
                    \/ WritePlace(t)' \in changed' \cup raced'
  BY DEF PutInv
<1> DEFINE w == WritePlace(t)
<1>1. /\ TagOf(t)' = TagOf(t) /\ WritePlace(t)' = w
      /\ \/ pc'[t] = pc[t] /\ made'[t] = made[t] /\ seen'[t] = seen[t]
         \/ Generate(t) \/ ReadVault(t) \/ WriteVault(t) \/ OpenRef(t)
  BY MakingSteps DEF Making
<1>2. pc[t] \in {"open", "dump"} \/ WriteVault(t)
  BY <1>1 DEF Generate, ReadVault, OpenRef, Goto, TypeOK
<1>3. w \in Place
  <2>1. at[t] <= Len(tags[t])
    BY <1>2 DEF InRange, Making, WriteVault
  <2> QED BY <2>1, TagType
<1>4. Content(WritePlace(t))' = IF vault'[w] \in {Absent, Deleted} THEN NoKeys ELSE vault'[w]
  BY <1>1 DEF Content
<1>5. CASE pc[t] \in {"open", "dump"}
  <2>1. TagOf(t).key \in DOMAIN Content(w) \/ w \in changed \cup raced
    BY <1>5 DEF PutInv
  <2>2. \A p \in Place : /\ p \in changed \cup raced => p \in changed' \cup raced'
                         /\ \/ p \in changed' \cup raced'
                            \/ DOMAIN Content(p) \subseteq DOMAIN Content(p)'
    BY KeysStay
  <2>3. \A p \in Place : Content(p)' = IF vault'[p] \in {Absent, Deleted} THEN NoKeys ELSE vault'[p]
    BY DEF Content
  <2> HIDE DEF w
  <2> QED BY <1>1, <1>3, <1>4, <2>1, <2>2, <2>3
<1>6. CASE WriteVault(t)
  <2>1. pc[t] = "write" /\ PutSecret(t)
    BY <1>6 DEF WriteVault
  <2>2. vault'[w] = Updated(t)
    BY <1>3, <2>1, PutFacts
  <2>3. Updated(t) \notin {Absent, Deleted} /\ TagOf(t).key \in DOMAIN Updated(t)
    <3>1. TagOf(t).key \in Keys /\ made[t] \in Secret
      BY <2>1, TagType DEF InRange, Making, TypeOK
    <3> QED BY <3>1, UpdatedType
  <2> QED BY <1>1, <1>4, <2>2, <2>3
<1> QED BY <1>2, <1>5, <1>6
\* A ref file is left alone, truncated, removed, or written by a worker that put its
\* secret before.
LEMMA FileSteps ==
  ASSUME TypeOK, [Next]_vars, NEW r \in Refs
  PROVE  \/ files'[r] = files[r] /\ home'[r] = home[r]
         \/ files'[r] \in {Missing, Torn}
         \/ \E t \in Targets : /\ pc[t] = "dump" /\ files'[r] = NewFile(t)
                              /\ home'[r] = WritePlace(t)
<1> USE DEF history, TypeOK
<1>1. ASSUME NEW t \in Targets,
             \/ CompileTag(t) \/ Generate(t) \/ TornFails(t) \/ ReadVault(t) \/ DeletedFails(t)
             \/ WriteVault(t) \/ AnswerLost(t) \/ FinishTarget(t) \/ Refused(t) \/ EditInventory(t)
      PROVE  files' = files /\ home' = home
  BY <1>1 DEF CompileTag, Generate, TornFails, ReadVault, DeletedFails, WriteVault, AnswerLost,
              FinishTarget, Refused, EditInventory
<1>2. ASSUME NEW t \in Targets, OpenRef(t)
      PROVE  home' = home /\ (files'[r] = files[r] \/ files'[r] = Torn)
  BY <1>2 DEF OpenRef
<1>3. ASSUME NEW t \in Targets, DumpRef(t)
      PROVE  \/ files'[r] = files[r] /\ home'[r] = home[r]
             \/ files'[r] = Torn
             \/ pc[t] = "dump" /\ files'[r] = NewFile(t) /\ home'[r] = WritePlace(t)
  BY <1>3 DEF DumpRef
<1>4. ASSUME NEW q \in Refs, RemoveRef(q)
      PROVE  home' = home /\ (files'[r] = files[r] \/ files'[r] = Missing)
  BY <1>4 DEF RemoveRef
<1>5. CASE \/ \E e \in BOOLEAN : StartRun(e)
           \/ EndRun \/ Kill \/ StartReveal \/ EndReveal
           \/ \E g \in compiled : RevealTag(g)
           \/ \E p \in Place : Remove(p)
           \/ UNCHANGED vars
  BY <1>5 DEF StartRun, EndRun, Kill, StartReveal, EndReveal, RevealTag, Remove, vars
<1> HIDE DEF history, TypeOK
<1> QED BY <1>1, <1>2, <1>3, <1>4, <1>5 DEF Next, Work

LEMMA LossStep ==
  ASSUME VaultAssumption, TypeOK, InRange, PutInv, LossHasACause, [Next]_vars, TypeOK'
  PROVE  LossHasACause'
<1> SUFFICES ASSUME NEW r \in Refs, Whole(r)', home'[r] = PlaceOf(files[r])',
                    home'[r] \notin changed' \cup raced'
             PROVE  Obtainable(files[r])'
  BY DEF LossHasACause
<1>1. PICK f : f = files'[r]
  OBVIOUS
<1>2. f \in RefFile
  BY <1>1 DEF Whole, TypeOK
<1>3. PICK p \in Place : p = home'[r] /\ p = PlaceOf(f)
  BY <1>1, <1>2 DEF PlaceOf, Place, RefFile, Param
<1>4. /\ p \in changed \cup raced => p \in changed' \cup raced'
      /\ p \in changed' \cup raced' \/ DOMAIN Content(p) \subseteq DOMAIN Content(p)'
  BY KeysStay
<1>5. f.key \in DOMAIN Content(p)
  <2>1. CASE f = files[r] /\ p = home[r]
    BY <1>1, <1>3, <1>4, <2>1 DEF LossHasACause, Obtainable, Whole
  <2>2. CASE f \in {Missing, Torn}
    BY <1>2, <2>2 DEF VaultAssumption
  <2>3. ASSUME NEW t \in Targets, pc[t] = "dump", f = NewFile(t), p = WritePlace(t)
        PROVE  f.key \in DOMAIN Content(p)
    BY <1>3, <1>4, <2>3 DEF PutInv, NewFile
  <2> QED BY <1>1, <1>3, <2>1, <2>2, <2>3, FileSteps
<1>6. f.key \in DOMAIN Content(p)'
  BY <1>3, <1>4, <1>5
<1>7. Obtainable(files[r])' <=> f.key \in DOMAIN Content(p)'
  BY <1>1, <1>3 DEF Obtainable, Content
<1> QED BY <1>6, <1>7

\* A ref is only made where its file is missing.
LEMMA BegunStep ==
  ASSUME VaultAssumption, TypeOK, InRange, BegunInv, [Next]_vars
  PROVE  BegunInv'
<1> SUFFICES ASSUME Running'
             PROVE  /\ \A r \in begun' : Whole(r)'
                    /\ \A t \in Targets : Making(t)' => TagOf(t)'.ref \notin begun'
  BY DEF BegunInv
<1>1. ASSUME NEW e \in BOOLEAN, StartRun(e)
      PROVE  /\ \A r \in begun' : Whole(r)'
             /\ \A t \in Targets : ~ Making(t)'
  BY <1>1 DEF StartRun, Whole, Making
<1>2. CASE EndRun \/ Kill
  BY <1>2 DEF EndRun, Kill, NoWorkers, Running
<1>3. ASSUME ~ EndRun, ~ Kill, \A e \in BOOLEAN : ~ StartRun(e)
      PROVE  /\ \A r \in begun' : Whole(r)'
             /\ \A t \in Targets : Making(t)' => TagOf(t)'.ref \notin begun'
  <2>1. Running /\ begun' = begun
    <3> USE DEF user, worker, run
    <3>1. ASSUME NEW t \in Targets, Work(t) \/ Refused(t) \/ AnswerLost(t)
          PROVE  pc[t] # "idle" /\ begun' = begun
      BY <3>1 DEF Work, CompileTag, Generate, TornFails, ReadVault, DeletedFails, WriteVault,
                  OpenRef, DumpRef, FinishTarget, Refused, AnswerLost, Fail
    <3>2. CASE \/ \E t \in Targets : EditInventory(t)
               \/ StartReveal \/ EndReveal
               \/ \E g \in compiled : RevealTag(g)
               \/ \E r \in Refs : RemoveRef(r)
               \/ \E p \in Place : Remove(p)
               \/ UNCHANGED vars
      BY <3>2 DEF EditInventory, StartReveal, EndReveal, RevealTag, RemoveRef, Remove, vars, Running
    <3> HIDE DEF user, worker, run
    <3> QED BY <1>3, <3>1, <3>2 DEF Next, Running
  <2>2. ASSUME NEW t \in Targets, Making(t)'  PROVE TagOf(t)'.ref \notin begun'
    <3>1. /\ TagOf(t)' = TagOf(t)
          /\ \/ pc'[t] = pc[t]
             \/ Generate(t) \/ ReadVault(t) \/ WriteVault(t) \/ OpenRef(t)
      BY <2>2, MakingSteps
    <3>2. CASE Making(t)
      BY <2>1, <3>1, <3>2 DEF BegunInv
    <3>3. CASE Generate(t)
      BY <2>1, <3>1, <3>3 DEF Generate, Found, BegunInv
    <3> QED BY <2>2, <3>1, <3>2, <3>3 DEF Making, ReadVault, WriteVault, OpenRef
  <2>3. ASSUME NEW r \in begun  PROVE Whole(r)'
    <3>1. Whole(r) /\ \A t \in Targets : Making(t) => TagOf(t).ref # r
      BY <2>1, <2>3 DEF BegunInv
    <3>2. files'[r] = files[r]
      <4>1. ASSUME NEW t \in Targets, OpenRef(t) \/ DumpRef(t)  PROVE files'[r] = files[r]
        <5>1. TagOf(t).ref # r
          BY <3>1, <4>1 DEF Making, OpenRef, DumpRef
        <5> QED BY <4>1, <5>1, <2>3 DEF OpenRef, DumpRef, TypeOK
      <4>2. ASSUME NEW q \in Refs, RemoveRef(q)  PROVE FALSE
        BY <2>1, <4>2 DEF RemoveRef
      <4>3. ASSUME NEW t \in Targets,
                   \/ CompileTag(t) \/ Generate(t) \/ TornFails(t) \/ ReadVault(t)
                   \/ DeletedFails(t) \/ WriteVault(t) \/ AnswerLost(t) \/ FinishTarget(t)
                   \/ Refused(t) \/ EditInventory(t)
            PROVE  files' = files
        BY <4>3 DEF CompileTag, Generate, TornFails, ReadVault, DeletedFails, WriteVault,
                    AnswerLost, FinishTarget, Refused, EditInventory
      <4>4. CASE \/ StartReveal \/ EndReveal \/ \E g \in compiled : RevealTag(g)
                 \/ \E p \in Place : Remove(p)
                 \/ UNCHANGED vars
        BY <4>4 DEF StartReveal, EndReveal, RevealTag, Remove, vars
      <4> QED BY <1>3, <4>1, <4>2, <4>3, <4>4 DEF Next, Work
    <3> QED BY <3>1, <3>2 DEF Whole
  <2> QED BY <2>1, <2>2, <2>3
<1> QED BY <1>1, <1>2, <1>3
LEMMA ShownStep ==
  ASSUME VaultAssumption, TypeOK, OwnInv, TagsRevealTheirOwn, OneSecretPerTag, [Next]_vars
  PROVE  TagsRevealTheirOwn' /\ OneSecretPerTag'
<1>1. CASE shown' = shown
  BY <1>1 DEF TagsRevealTheirOwn, OneSecretPerTag
<1>2. CASE shown' = {}
  BY <1>2 DEF TagsRevealTheirOwn, OneSecretPerTag
<1>3. ASSUME NEW g \in compiled, RevealTag(g)
      PROVE  TagsRevealTheirOwn' /\ OneSecretPerTag'
  <2>1. PICK s \in IF Remembered(g) # {} THEN {m.secret : m \in Remembered(g)}
                ELSE IF Obtainable(RefOf(g)) THEN {vault[PlaceOf(RefOf(g))][RefOf(g).key]} ELSE {} :
          shown' = shown \cup {[token |-> g, secret |-> s]}
    BY <1>3 DEF RevealTag
  <2>2. s.path = g.path /\ s.key = g.key
    <3>1. CASE Remembered(g) # {}
      BY <2>1, <3>1 DEF Remembered, TagsRevealTheirOwn
    <3>2. CASE Remembered(g) = {}
      BY <1>3, <2>1, <3>2, Revealed DEF RevealTag
    <3> QED BY <3>1, <3>2
  <2>3. \A m \in shown : m.token = g => m.secret = s
    <3>1. CASE Remembered(g) # {}
      BY <2>1, <3>1 DEF Remembered, OneSecretPerTag
    <3>2. CASE Remembered(g) = {}
      BY <3>2 DEF Remembered
    <3> QED BY <3>1, <3>2
  <2>4. TagsRevealTheirOwn'
    BY <2>1, <2>2 DEF TagsRevealTheirOwn
  <2>5. OneSecretPerTag'
    BY <2>1, <2>3 DEF OneSecretPerTag
  <2> QED BY <2>4, <2>5
<1>4. ASSUME NEW t \in Targets, Work(t) \/ Refused(t) \/ AnswerLost(t) \/ EditInventory(t)
      PROVE  shown' = shown
  BY <1>4 DEF Work, CompileTag, Generate, TornFails, ReadVault, DeletedFails, WriteVault,
              OpenRef, DumpRef, FinishTarget, Refused, AnswerLost, Fail, EditInventory, reveal
<1>5. CASE \/ \E e \in BOOLEAN : StartRun(e)
           \/ EndRun \/ Kill
           \/ \E r \in Refs : RemoveRef(r)
           \/ \E p \in Place : Remove(p)
           \/ UNCHANGED vars
  BY <1>1, <1>5 DEF StartRun, EndRun, Kill, RemoveRef, Remove, reveal, vars
<1>6. CASE StartReveal \/ EndReveal
  BY <1>2, <1>6 DEF StartReveal, EndReveal
<1> QED BY <1>1, <1>3, <1>4, <1>5, <1>6 DEF Next

LEMMA InvInit ==
  ASSUME VaultAssumption, Init  PROVE IInv
<1>1. TypeOK /\ InRange
  BY InitTyped
<1>2. \A p \in Place : Content(p) = NoKeys
  BY DEF Init, Content
<1>3. \A t \in Targets : pc[t] = "idle"
  BY DEF Init
<1>4. OwnInv
  BY <1>2, <1>3, NoKeysType DEF OwnInv, Own
<1>5. PutInv /\ BegunInv
  BY <1>3 DEF PutInv, BegunInv, Running
<1>6. TagsRevealTheirOwn /\ OneSecretPerTag /\ LossHasACause
  BY DEF Init, TagsRevealTheirOwn, OneSecretPerTag, LossHasACause, Whole
<1> QED BY <1>1, <1>4, <1>5, <1>6 DEF IInv

LEMMA InvStep ==
  ASSUME VaultAssumption, IInv, [Next]_vars  PROVE IInv'
<1>1. TypeOK /\ InRange /\ OwnInv /\ PutInv /\ BegunInv /\ TagsRevealTheirOwn
      /\ OneSecretPerTag /\ LossHasACause
  BY DEF IInv
<1>2. TypeOK' /\ InRange'
  BY <1>1, TypeStep
<1>3. OwnInv' /\ PutInv' /\ BegunInv'
  BY <1>1, OwnStep, PutStep, BegunStep
<1>4. TagsRevealTheirOwn' /\ OneSecretPerTag' /\ LossHasACause'
  BY <1>1, <1>2, ShownStep, LossStep
<1> QED BY <1>2, <1>3, <1>4 DEF IInv

\* The vault changes under a ref that was there by another ref's worker only.
LEMMA ReferencedStep ==
  ASSUME VaultAssumption, IInv, [Next]_vars
  PROVE  [\A r \in begun : Touched(r) => KeptOrOverwritten(files[r], r)]_vars
<1> SUFFICES ASSUME NEW r \in begun, Touched(r)  PROVE KeptOrOverwritten(files[r], r)
  OBVIOUS
<1>1. /\ TypeOK /\ InRange /\ BegunInv /\ r \in Refs
  BY DEF IInv, TypeOK
<1>2. PICK p : p = PlaceOf(files[r])
  OBVIOUS
<1>3. p \in Place /\ files[r].key \in DOMAIN Content(p) /\ vault'[p] # vault[p] /\ edits' = edits
  <2>1. files[r] \in RefFile
    BY <1>1 DEF Touched, TypeOK, Whole
  <2> QED BY <1>2, <2>1 DEF Touched, Obtainable, PlaceOf, Place, RefFile, Param
<1>4. Content(p) = vault[p]
  BY <1>3, NoKeysType DEF Content
<1>5. PICK t \in Targets : pc[t] = "write" /\ PutSecret(t)
  <2>1. ASSUME NEW q \in Place, Remove(q)  PROVE FALSE
    BY <1>1, <1>3, <2>1 DEF Remove, TypeOK
  <2> QED BY <1>3, <2>1, VaultSteps
<1>6. p = WritePlace(t)
  <2>1. vault'[p] = IF p = WritePlace(t) THEN Updated(t) ELSE vault[p]
    BY <1>1, <1>3, <1>5 DEF PutSecret, TypeOK
  <2> QED BY <1>3, <2>1
<1>7. vault'[p] = Updated(t) /\ DOMAIN Updated(t) = DOMAIN seen[t] \cup {TagOf(t).key}
  BY <1>1, <1>3, <1>5, <1>6, PutFacts
<1>8. TagOf(t).ref # r
  BY <1>1, <1>5 DEF BegunInv, Running, Making
<1>9. CASE TagOf(t).key = files[r].key \/ seen[t] # vault[p]
  BY <1>2, <1>5, <1>6, <1>8, <1>9 DEF KeptOrOverwritten
<1>10. CASE TagOf(t).key # files[r].key /\ seen[t] = vault[p]
  <2>1. files[r].key \in DOMAIN seen[t]
    BY <1>3, <1>4, <1>10
  <2>2. Updated(t)[files[r].key] = vault[p][files[r].key]
    BY <1>7, <1>10, <2>1 DEF Updated
  <2> QED BY <1>2, <1>7, <2>1, <2>2 DEF KeptOrOverwritten
<1> QED BY <1>9, <1>10

-----------------------------------------------------------------------------
(* The theorems *)

\* Every state of files, vault, workers and reveal process is well-typed.
THEOREM TypeCorrect ==
  ASSUME VaultAssumption  PROVE Spec => []TypeOK
<1>1. Init => IInv
  BY InvInit
<1>2. IInv /\ [Next]_vars => IInv'
  BY InvStep
<1>3. IInv => TypeOK
  BY DEF IInv
<1> QED BY <1>1, <1>2, <1>3, PTL DEF Spec

\* A tag of the output never reveals a secret of another path or key.
THEOREM TagsRevealTheirOwnHolds ==
  ASSUME VaultAssumption  PROVE Spec => []TagsRevealTheirOwn
<1>1. Init => IInv
  BY InvInit
<1>2. IInv /\ [Next]_vars => IInv'
  BY InvStep
<1>3. IInv => TagsRevealTheirOwn
  BY DEF IInv
<1> QED BY <1>1, <1>2, <1>3, PTL DEF Spec

\* A reveal process shows one secret for a tag, whatever the vault does meanwhile.
THEOREM OneSecretPerTagHolds ==
  ASSUME VaultAssumption  PROVE Spec => []OneSecretPerTag
<1>1. Init => IInv
  BY InvInit
<1>2. IInv /\ [Next]_vars => IInv'
  BY InvStep
<1>3. IInv => OneSecretPerTag
  BY DEF IInv
<1> QED BY <1>1, <1>2, <1>3, PTL DEF Spec

\* A ref file whose secret cannot be had was put elsewhere than it says, or its path
\* was written over by another writer or by the administrator: no kill, refusal or
\* lost answer does it.
THEOREM LossHasACauseHolds ==
  ASSUME VaultAssumption  PROVE Spec => []LossHasACause
<1>1. Init => IInv
  BY InvInit
<1>2. IInv /\ [Next]_vars => IInv'
  BY InvStep
<1>3. IInv => LossHasACause
  BY DEF IInv
<1> QED BY <1>1, <1>2, <1>3, PTL DEF Spec
\* A run never makes the secret of a ref again whose file was there when it began.
THEOREM ReferencedIsKeptHolds ==
  ASSUME VaultAssumption  PROVE Spec => ReferencedIsKept
<1>1. Init => IInv
  BY InvInit
<1>2. IInv /\ [Next]_vars => IInv'
  BY InvStep
<1>3. IInv /\ [Next]_vars
        => [\A r \in begun : Touched(r) => KeptOrOverwritten(files[r], r)]_vars
  BY ReferencedStep
<1> QED BY <1>1, <1>2, <1>3, PTL DEF Spec, ReferencedIsKept
=============================================================================
