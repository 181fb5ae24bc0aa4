-------------------------- MODULE RefUpdate_proofs --------------------------
(***************************************************************************)
(* Proofs about RefUpdate for every set of references, targets, keys and   *)
(* settings, and for every number of commands and events.                  *)
(***************************************************************************)
EXTENDS RefUpdate, FiniteSetTheorems, TLAPS

LEMMA SomethingIsThere ==
  ASSUME RefAssumption
  PROVE  First \in Refs /\ NoObj \in Whole
BY DEF RefAssumption, First, NoObj, Sealed, Whole, Locks

\* A setting for a backend is a lock or None.
LEMMA ConfiguredType ==
  ASSUME RefAssumption, NEW settings \in [Targets -> Settings],
         NEW t \in Targets \cup {None}, NEW b
  PROVE  Configured(settings, t, b) \in Locks \cup {None}
<1>1. CASE t = None \/ b \notin Keyed
  BY <1>1 DEF Configured
<1>2. CASE t # None /\ b \in Keyed
  <2>1. settings[t] \in Settings
    BY <1>2
  <2>2. settings[t] = None \/ settings[t] \in [Keyed -> Locks \cup {None}]
    BY <2>1 DEF RefAssumption
  <2> QED BY <1>2, <2>2 DEF Configured
<1> QED BY <1>1, <1>2

LEMMA AskedOfType ==
  ASSUME RefAssumption, TypeOK, NEW r \in Refs,
         NEW given \in Locks, NEW t \in Targets \cup {None}
  PROVE  AskedOf(r, given, t) \in Locks
<1>1. Configured(wanted, t, Backend[r]) \in Locks \cup {None}
  BY ConfiguredType DEF TypeOK
<1>2. {} \in Locks
  BY DEF Locks
<1> QED BY <1>1, <1>2 DEF AskedOf

LEMMA AskedType ==
  ASSUME RefAssumption, TypeOK, NEW r \in Refs
  PROVE  Asked(r) \in Locks \cup {None}
BY ConfiguredType DEF TypeOK, RefAssumption, Asked

LEMMA LocksForType ==
  ASSUME NEW r \in Refs
  PROVE  /\ LocksFor(r) \cup {{}} \subseteq Locks
         /\ \A v \in Values, l \in LocksFor(r) \cup {{}} : Sealed(v, l) \in Whole
BY DEF LocksFor, Locks, Sealed, Whole

-----------------------------------------------------------------------------
\* A step of a command that may take a client, and changes nothing else.
LEMMA ClientMoves ==
  ASSUME TypeOK, client' \in Keys \cup {None}, pc' \in {"encrypt", "aborted"},
         UNCHANGED <<refs, wanted, usable, kind, inv, pending, ref, goal, obj, ret, before,
                     touched, commands, events, stops>>
  PROVE  TypeOK'
BY DEF TypeOK, Ended

LEMMA TypeStep ==
  ASSUME RefAssumption, TypeOK, [Next]_vars
  PROVE  TypeOK'
<1> USE SomethingIsThere, LocksForType
<1> USE DEF TypeOK, world, item, count, Files, Ended
<1>1. ASSUME NEW r \in Refs, NEW v \in Values, NEW t \in Targets \cup {None},
             NEW given \in LocksFor(r) \cup {{}}, Write(r, v, given, t)
      PROVE  TypeOK'
  <2>1. goal' \in Locks
    BY <1>1, AskedOfType DEF Write
  <2>2. obj' \in Whole
    BY <1>1 DEF Write
  <2> QED BY <1>1, <2>1, <2>2 DEF Write, Start
<1>2. ASSUME NEW r \in Refs, NEW t \in Targets \cup {None},
             NEW given \in LocksFor(r) \cup {{}}, Update(r, given, t)
      PROVE  TypeOK'
  BY <1>2 DEF Update, Start, Loads
<1>3. ASSUME NEW k \in {"update_targets", "validate_targets"}, Targeted(k)
      PROVE  TypeOK'
  BY <1>3 DEF Targeted, Start, Locks
<1>4. ASSUME Scan  PROVE TypeOK'
  BY <1>4 DEF Scan, Abort
<1>5. ASSUME NEW r \in Refs, Refuse(r)  PROVE TypeOK'
  BY <1>5 DEF Refuse, Abort
<1>6. ASSUME NEW r \in Refs, Pass(r)  PROVE TypeOK'
  BY <1>6 DEF Pass
<1>7. ASSUME NEW r \in Refs, Take(r)  PROVE TypeOK'
  <2>1. goal' \in Locks
    BY <1>7, AskedType DEF Take, Differs
  <2>2. obj' \in Whole
    BY <1>7 DEF Take, Differs, Compares, Unreadable, Loads
  <2> QED BY <1>7, <2>1, <2>2 DEF Take
<1>8. ASSUME Finish  PROVE TypeOK'
  BY <1>8 DEF Finish
<1>9. ASSUME Reveal  PROVE TypeOK'
  <2>1. Decrypts /\ Backend[ref] = "azkms" => ClientFor(obj.declared) \in Keys
    BY DEF Decrypts, AzureDecrypts
  <2>2. client' \in Keys \cup {None} /\ pc' \in {"encrypt", "aborted"}
    <3>1. CASE Decrypts
      BY <1>9, <2>1, <3>1 DEF Reveal
    <3>2. CASE ~Decrypts
      BY <1>9, <3>2 DEF Reveal, Abort
    <3> QED BY <3>1, <3>2
  <2>3. UNCHANGED <<refs, wanted, usable, kind, inv, pending, ref, goal, obj, ret, before,
                    touched, commands, events, stops>>
    <3>1. CASE Decrypts
      BY <1>9, <3>1 DEF Reveal
    <3>2. CASE ~Decrypts
      BY <1>9, <3>2 DEF Reveal, Abort
    <3> QED BY <3>1, <3>2
  <2> HIDE DEF TypeOK, Files, Ended
  <2> QED BY <2>2, <2>3, ClientMoves
<1>10. ASSUME Encrypt  PROVE TypeOK'
  <2>1. CASE NewLock \subseteq usable /\ (Backend[ref] \in Keyed => goal # {})
    <3>1. NewLock \in Locks
      BY <2>1 DEF Locks
    <3>2. obj' = [obj EXCEPT !.lock = NewLock, !.declared = goal]
      BY <1>10, <2>1 DEF Encrypt
    <3>3. obj' \in Whole
      BY <3>1, <3>2 DEF Whole
    <3>4. Backend[ref] = "azkms" => ClientFor(goal) \in Keys
      BY <2>1 DEF NewLock
    <3> QED BY <1>10, <2>1, <3>3, <3>4 DEF Encrypt
  <2>2. CASE ~(NewLock \subseteq usable /\ (Backend[ref] \in Keyed => goal # {}))
    BY <1>10, <2>2 DEF Encrypt, Abort
  <2> QED BY <2>1, <2>2
<1>11. ASSUME Fault  PROVE TypeOK'
  BY <1>11 DEF Fault, Event
<1>12. ASSUME Open  PROVE TypeOK'
  BY <1>12 DEF Open
<1>13. ASSUME Flush  PROVE TypeOK'
  BY <1>13 DEF Flush
<1>13a. ASSUME FlushFails  PROVE TypeOK'
  BY <1>13a DEF FlushFails, Event
<1>14. ASSUME NEW r \in Refs, NEW f \in Whole \cup {Absent}, Other(r, f)
       PROVE  TypeOK'
  BY <1>14 DEF Other, Event, command
<1>15. ASSUME NEW t \in Targets, NEW s \in Settings, Edit(t, s)  PROVE TypeOK'
  BY <1>15 DEF Edit, Event, command
<1>16. ASSUME NEW k \in Keys, Expire(k)  PROVE TypeOK'
  BY <1>16 DEF Expire, Event, command
<1>17. ASSUME Kill  PROVE TypeOK'
  BY <1>17 DEF Kill, Event
<1>18. ASSUME UNCHANGED vars  PROVE TypeOK'
  BY <1>18 DEF vars
<1> HIDE DEF TypeOK, world, item, count, Files, Ended
<1>19. Begin => TypeOK'
  BY <1>1, <1>2, <1>3 DEF Begin
<1>20. Step => TypeOK'
  BY <1>4, <1>5, <1>6, <1>7, <1>8, <1>9, <1>10, <1>11, <1>12, <1>13, <1>13a DEF Step
<1>21. Environment => TypeOK'
  BY <1>14, <1>15, <1>16, <1>17 DEF Environment
<1> QED BY <1>18, <1>19, <1>20, <1>21 DEF Next

\* Type correctness of the refs command, whatever the inventory.
THEOREM TypeCorrect == ASSUME RefAssumption PROVE Spec => []TypeOK
<1>1. Init => TypeOK
  <2>1. ASSUME Init  PROVE \A r \in Refs : refs[r] \in Whole
    BY <2>1, LocksForType DEF Init
  <2>2. Init => refs \in [Refs -> Files]
    BY <2>1 DEF Init, Files
  <2> QED BY <2>2, SomethingIsThere DEF Init, TypeOK, Ended, Locks
<1>2. TypeOK /\ [Next]_vars => TypeOK'
  BY TypeStep
<1> QED BY <1>1, <1>2, PTL DEF Spec

-----------------------------------------------------------------------------
(* What a file says of itself. *)

\* Between encrypting and writing, the object in hand is as sound as a file.
SealInv ==
  /\ LockIsDeclared
  /\ pc \in {"open", "flush"} /\ Backend[ref] # "azkms" => obj.lock = obj.declared

LEMMA SealStep ==
  ASSUME RefAssumption, TypeOK, SealInv, [Next]_vars
  PROVE  SealInv'
<1> USE DEF TypeOK, SealInv, LockIsDeclared, Loads, world, item, count, Ended
<1>1. ASSUME NEW r \in Refs, NEW v \in Values, NEW t \in Targets \cup {None},
             NEW given, Write(r, v, given, t)
      PROVE  SealInv'
  BY <1>1 DEF Write, Start
<1>2. ASSUME NEW r \in Refs, NEW t \in Targets \cup {None}, NEW given, Update(r, given, t)
      PROVE  SealInv'
  <2>1. pc' = "open" => Loads(r) /\ obj' = refs[r] /\ ref' = r
    BY <1>2 DEF Update
  <2> QED BY <1>2, <2>1 DEF Update, Start
<1>3. ASSUME NEW k, Targeted(k)  PROVE SealInv'
  BY <1>3 DEF Targeted, Start
<1>4. ASSUME Scan  PROVE SealInv'
  BY <1>4 DEF Scan, Abort
<1>5. ASSUME NEW r \in Refs, Refuse(r)  PROVE SealInv'
  BY <1>5 DEF Refuse, Abort
<1>6. ASSUME NEW r \in Refs, Pass(r)  PROVE SealInv'
  BY <1>6 DEF Pass, Compares
<1>7. ASSUME NEW r \in Refs, Take(r)  PROVE SealInv'
  BY <1>7 DEF Take
<1>8. ASSUME Finish  PROVE SealInv'
  BY <1>8 DEF Finish
<1>9. ASSUME Reveal  PROVE SealInv'
  BY <1>9 DEF Reveal, Abort
<1>10. ASSUME Encrypt  PROVE SealInv'
  <2>1. pc' = "open" /\ Backend[ref] # "azkms" => obj'.lock = obj'.declared
    <3>1. pc' = "open" => obj' = [obj EXCEPT !.lock = NewLock, !.declared = goal]
      BY <1>10 DEF Encrypt, Abort
    <3>2. Backend[ref] # "azkms" => NewLock = goal
      BY DEF NewLock
    <3>3. obj \in Whole
      OBVIOUS
    <3>4. pc' = "open" => obj'.lock = NewLock /\ obj'.declared = goal
      BY <3>1, <3>3 DEF Whole
    <3> QED BY <3>2, <3>4
  <2> QED BY <1>10, <2>1 DEF Encrypt, Abort
<1>11. ASSUME Fault  PROVE SealInv'
  BY <1>11 DEF Fault
<1>12. ASSUME Open  PROVE SealInv'
  BY <1>12 DEF Open, RefAssumption
<1>13. ASSUME Flush  PROVE SealInv'
  BY <1>13 DEF Flush
<1>13a. ASSUME FlushFails  PROVE SealInv'
  BY <1>13a DEF FlushFails
<1>14. ASSUME NEW r \in Refs, NEW f, f = Absent \/ f.lock = f.declared, Other(r, f)
       PROVE  SealInv'
  BY <1>14 DEF Other, command, RefAssumption
<1>15. ASSUME NEW t, NEW s, Edit(t, s)  PROVE SealInv'
  BY <1>15 DEF Edit, command
<1>16. ASSUME NEW k, Expire(k)  PROVE SealInv'
  BY <1>16 DEF Expire, command
<1>17. ASSUME Kill  PROVE SealInv'
  BY <1>17 DEF Kill
<1>18. ASSUME UNCHANGED vars  PROVE SealInv'
  BY <1>18 DEF vars
<1> HIDE DEF TypeOK, SealInv, LockIsDeclared, Loads, world, item, count, Ended
<1>19. Begin => SealInv'
  BY <1>1, <1>2, <1>3 DEF Begin
<1>20. Step => SealInv'
  BY <1>4, <1>5, <1>6, <1>7, <1>8, <1>9, <1>10, <1>11, <1>12, <1>13, <1>13a DEF Step
<1>21. Environment => SealInv'
  BY <1>14, <1>15, <1>16, <1>17 DEF Environment, Sealed
<1> QED BY <1>18, <1>19, <1>20, <1>21 DEF Next

\* A file other than an azkms one is encrypted to just the keys it names,
\* whatever commands have run and failed.
THEOREM LockIsDeclaredHolds == ASSUME RefAssumption PROVE Spec => []LockIsDeclared
<1>1. Init => SealInv
  BY DEF Init, SealInv, LockIsDeclared, Sealed
<1>2. TypeOK /\ SealInv /\ [Next]_vars => SealInv'
  BY SealStep
<1>3. SealInv => LockIsDeclared
  BY DEF SealInv
<1> QED BY <1>1, <1>2, <1>3, TypeCorrect, PTL DEF Spec

-----------------------------------------------------------------------------
(* Truncated files. *)

TornInv ==
  /\ pc = "flush" => refs[ref] = Torn
  /\ OneTornPerStop

LEMMA TornIsFinite ==
  ASSUME RefAssumption
  PROVE  /\ IsFiniteSet(TornRefs) /\ Cardinality(TornRefs) \in Nat
         /\ \A S \in SUBSET TornRefs :
              Cardinality(S) \in Nat /\ Cardinality(S) <= Cardinality(TornRefs)
<1>1. IsFiniteSet(TornRefs)
  BY FS_Subset DEF RefAssumption, TornRefs
<1>2. ASSUME NEW S \in SUBSET TornRefs
      PROVE  Cardinality(S) \in Nat /\ Cardinality(S) <= Cardinality(TornRefs)
  BY <1>1, FS_Subset, FS_CardinalityType
<1> QED BY <1>1, <1>2, FS_CardinalityType

\* A step that truncates no file and is not in the middle of writing one.
LEMMA NoMoreTorn ==
  ASSUME RefAssumption, TypeOK, TornInv, TornRefs' \subseteq TornRefs,
         stops' = stops, pc # "flush", pc' # "flush"
  PROVE  TornInv'
<1>1. /\ Cardinality(TornRefs') <= Cardinality(TornRefs)
      /\ Cardinality(TornRefs') \in Nat /\ Cardinality(TornRefs) \in Nat
  BY TornIsFinite
<1>2. stops \in Nat /\ Cardinality(TornRefs) <= stops
  BY DEF TornInv, OneTornPerStop, TypeOK
<1>3. Cardinality(TornRefs') <= stops' + 0
  BY <1>1, <1>2
<1> QED BY <1>3 DEF TornInv, OneTornPerStop

LEMMA TornStep ==
  ASSUME RefAssumption, TypeOK, TornInv, [Next]_vars
  PROVE  TornInv'
<1> USE DEF world, item, count
<1>0. ASSUME UNCHANGED <<refs, stops>>, pc # "flush", pc' # "flush"  PROVE TornInv'
  BY <1>0, NoMoreTorn DEF TornRefs
<1>1. ASSUME UNCHANGED <<refs, stops, pc, ref>>  PROVE TornInv'
  BY <1>1 DEF TornInv, OneTornPerStop, TornRefs
<1>2. ASSUME NEW r, NEW v, NEW t, NEW given, Write(r, v, given, t)
      PROVE  TornInv'
  BY <1>0, <1>2 DEF Write, Start, Ended
<1>3. ASSUME NEW r, NEW t, NEW given, Update(r, given, t)
      PROVE  TornInv'
  BY <1>0, <1>3 DEF Update, Start, Ended
<1>4. ASSUME NEW k, Targeted(k)  PROVE TornInv'
  BY <1>0, <1>4 DEF Targeted, Start, Ended
<1>5. ASSUME Scan  PROVE TornInv'
  BY <1>0, <1>5 DEF Scan, Abort
<1>6. ASSUME NEW r \in Refs, Refuse(r) \/ Pass(r) \/ Take(r)  PROVE TornInv'
  BY <1>0, <1>6 DEF Refuse, Pass, Take, Compares, Abort
<1>7. ASSUME Finish \/ Reveal \/ Encrypt \/ Fault  PROVE TornInv'
  BY <1>0, <1>7 DEF Finish, Reveal, Encrypt, Fault, Abort
<1>8. ASSUME Open  PROVE TornInv'
  <2>1. TornRefs' = TornRefs \cup {ref} /\ refs'[ref] = Torn
    BY <1>8 DEF Open, TornRefs, TypeOK
  <2>2. /\ Cardinality(TornRefs') <= Cardinality(TornRefs) + 1
        /\ Cardinality(TornRefs') \in Nat /\ Cardinality(TornRefs) \in Nat
    BY <2>1, TornIsFinite, FS_AddElement, FS_CardinalityType
  <2>3. Cardinality(TornRefs) <= stops
    BY <1>8 DEF Open, TornInv, OneTornPerStop, TypeOK
  <2>4. stops' = stops /\ pc' = "flush" /\ ref' = ref
    BY <1>8 DEF Open
  <2> QED BY <2>1, <2>2, <2>3, <2>4 DEF TornInv, OneTornPerStop, TypeOK
<1>9. ASSUME Flush  PROVE TornInv'
  <2>1. TornRefs' = TornRefs \ {ref} /\ ref \in TornRefs
    BY <1>9 DEF Flush, TornRefs, TypeOK, TornInv, RefAssumption
  <2>2. Cardinality(TornRefs') = Cardinality(TornRefs) - 1 /\ Cardinality(TornRefs) \in Nat
    BY <2>1, TornIsFinite, FS_RemoveElement
  <2>3. Cardinality(TornRefs) <= stops + 1
    BY <1>9 DEF Flush, TornInv, OneTornPerStop
  <2>4. stops' = stops /\ pc' # "flush"
    BY <1>9 DEF Flush
  <2> QED BY <2>2, <2>3, <2>4 DEF TornInv, OneTornPerStop, TypeOK
<1>10. ASSUME NEW r \in Refs, NEW f, f # Torn, Other(r, f)  PROVE TornInv'
  <2>1. TornRefs' \subseteq TornRefs
    BY <1>10 DEF Other, TornRefs, TypeOK
  <2>2. Cardinality(TornRefs') <= Cardinality(TornRefs)
        /\ Cardinality(TornRefs') \in Nat /\ Cardinality(TornRefs) \in Nat
    BY <2>1, TornIsFinite
  <2>3. UNCHANGED <<stops, pc, ref>>
    BY <1>10 DEF Other, command
  <2>4. pc = "flush" => refs'[ref] = refs[ref]
    BY <1>10 DEF Other, TypeOK
  <2> QED BY <2>2, <2>3, <2>4 DEF TornInv, OneTornPerStop, TypeOK
<1>11. ASSUME NEW t, NEW s, Edit(t, s)  PROVE TornInv'
  BY <1>1, <1>11 DEF Edit, command
<1>12. ASSUME NEW k, Expire(k)  PROVE TornInv'
  BY <1>1, <1>12 DEF Expire, command
<1>13. ASSUME Kill  PROVE TornInv'
  <2>1. TornRefs' = TornRefs /\ stops' = stops + 1 /\ pc' = "killed"
    BY <1>13 DEF Kill, TornRefs
  <2>2. Cardinality(TornRefs) <= stops + 1 /\ Cardinality(TornRefs) \in Nat /\ stops \in Nat
    BY TornIsFinite DEF TornInv, OneTornPerStop, TypeOK
  <2>3. Cardinality(TornRefs') <= stops' + 0
    BY <2>1, <2>2
  <2> QED BY <2>1, <2>3 DEF TornInv, OneTornPerStop
<1>13a. ASSUME FlushFails  PROVE TornInv'
  <2>1. TornRefs' = TornRefs /\ stops' = stops + 1 /\ pc = "flush" /\ pc' = "unwritten"
    BY <1>13a DEF FlushFails, TornRefs
  <2>2. Cardinality(TornRefs) <= stops + 1
    BY <2>1 DEF TornInv, OneTornPerStop
  <2>3. stops \in Nat
    BY DEF TypeOK
  <2>4. Cardinality(TornRefs') <= stops' + 0
    BY <2>1, <2>2, <2>3
  <2> QED BY <2>1, <2>4 DEF TornInv, OneTornPerStop
<1>14. ASSUME UNCHANGED vars  PROVE TornInv'
  BY <1>1, <1>14 DEF vars
<1>15. Begin => TornInv'
  BY <1>2, <1>3, <1>4 DEF Begin
<1>16. Step => TornInv'
  BY <1>5, <1>6, <1>7, <1>8, <1>9, <1>13a DEF Step
<1>17. \A r \in Refs, v \in Values : \A l \in LocksFor(r) : Sealed(v, l) # Torn
  BY LocksForType DEF RefAssumption
<1>18. Environment => TornInv'
  BY <1>10, <1>11, <1>12, <1>13, <1>17 DEF Environment, RefAssumption
<1> QED BY <1>14, <1>15, <1>16, <1>18 DEF Next

\* A kill or a write that breaks off costs one file at most, and nothing else costs any.
THEOREM OneTornPerStopHolds == ASSUME RefAssumption PROVE Spec => []OneTornPerStop
<1>1. Init => TornInv
  <2>1. ASSUME Init  PROVE \A r \in Refs : refs[r] \in Whole
    BY <2>1, LocksForType DEF Init
  <2>2. ASSUME Init  PROVE TornRefs = {}
    BY <2>1, <2>2 DEF TornRefs, RefAssumption
  <2>3. ASSUME Init  PROVE Cardinality(TornRefs) = 0 /\ stops = 0 /\ pc = "idle"
    BY <2>2, <2>3, FS_EmptySet DEF Init
  <2>4. Init => Cardinality(TornRefs) <= stops + 0 /\ pc # "flush"
    BY <2>3
  <2> QED BY <2>4 DEF TornInv, OneTornPerStop
<1>2. TypeOK /\ TornInv /\ [Next]_vars => TornInv'
  BY TornStep
<1>3. TornInv => OneTornPerStop
  BY DEF TornInv
<1> QED BY <1>1, <1>2, <1>3, TypeCorrect, PTL DEF Spec

-----------------------------------------------------------------------------
(* All or nothing. *)

Changing == kind \in {"update", "update_targets"}

\* What a reference has become, or what it still is.
Kept(r) == refs[r] = before[r]

Moved(r) ==
  /\ r \notin pending
  /\ Loads(r) /\ before[r] \in Whole
  /\ refs[r].value = before[r].value
  /\ refs[r].declared = (IF kind = "update" THEN goal ELSE Asked(r))

Lost(r) ==
  /\ r = ref /\ refs[r] = Torn /\ pc \in {"flush", "unwritten", "killed"}
  /\ kind = "update_targets" => before[r].declared # Asked(r)

Good(r) == Kept(r) \/ Moved(r) \/ Lost(r)

\* The object in hand holds the secret the reference had at the beginning.
HandInv ==
  Changing /\ pc \in {"reveal", "encrypt", "open", "flush"} =>
    /\ ref \in pending
    /\ kind = "update_targets" => goal = Asked(ref)
    /\ pc \in {"open", "flush"} => obj.declared = goal
    /\ ref \notin touched =>
         /\ before[ref] \in Whole
         /\ obj.value = before[ref].value
         /\ pc # "flush" => Kept(ref)
         /\ kind = "update_targets" => before[ref].declared # Asked(ref)

KeepInv ==
  /\ pc \in {"scan", "item"} => kind \in {"update_targets", "validate_targets"}
  /\ pc = "scan" => \A r \in Refs \ touched : Kept(r)
  /\ HandInv
  /\ Changing => \A r \in Refs \ touched : Good(r)

LEMMA AskedStays ==
  ASSUME inv' = inv, NEW r
  PROVE  Asked(r)' = Asked(r)
BY DEF Asked, Configured

\* A command starts with every reference as it is.
LEMMA StartKeeps ==
  ASSUME before' = refs, refs' = refs, NEW r \in Refs
  PROVE  Kept(r)'
BY DEF Kept

\* Steps that leave the reference, the command's aim and the history alone
\* leave it in order, unless a half-written file is let go of.
LEMMA GoodStays ==
  ASSUME NEW r \in Refs, Good(r), refs'[r] = refs[r], before'[r] = before[r],
         kind' = kind, inv' = inv, pending' \subseteq pending, goal' = goal,
         ref' = ref, r = ref /\ pc \in {"flush", "unwritten", "killed"} => pc' \in {"flush", "unwritten", "killed"}
  PROVE  Good(r)'
<1>1. Asked(r)' = Asked(r)
  BY AskedStays
<1>2. CASE Kept(r)
  BY <1>2 DEF Kept, Good
<1>3. CASE Moved(r)
  BY <1>1, <1>3 DEF Moved, Good, Loads
<1>4. CASE Lost(r)
  BY <1>1, <1>4 DEF Lost, Good
<1> QED BY <1>2, <1>3, <1>4 DEF Good

\* The object in hand is untouched, and the step goes no further than pc'.
LEMMA HandStays ==
  ASSUME HandInv, touched \subseteq touched', UNCHANGED <<kind, inv, pending, goal, obj, ref, before>>,
         pc' = pc, ref \in touched' \/ refs'[ref] = refs[ref]
  PROVE  HandInv'
<1>1. Asked(ref)' = Asked(ref)
  BY AskedStays
<1> QED BY <1>1 DEF HandInv, Changing, Kept

\* Steps of a command, or around it, that write no reference.
LEMMA QuietKeeps ==
  ASSUME TypeOK, KeepInv, UNCHANGED <<refs, kind, inv, goal, ref, before, touched>>,
         pending' \subseteq pending,
         pc' \in {"scan", "item"} => pc = pc',
         pc \in {"flush", "unwritten", "killed"} => pc' \in {"flush", "unwritten", "killed"},
         HandInv'
  PROVE  KeepInv'
<1>1. ASSUME NEW r \in Refs \ touched', Changing'
      PROVE  Good(r)'
  BY <1>1, GoodStays DEF KeepInv, Changing
<1>2. pc' = "scan" => \A r \in Refs \ touched' : Kept(r)'
  BY DEF KeepInv, Kept
<1> QED BY <1>1, <1>2 DEF KeepInv

LEMMA BeginKeeps ==
  ASSUME RefAssumption, TypeOK, KeepInv, Begin
  PROVE  KeepInv'
<1> USE DEF world
<1>1. ASSUME NEW r, NEW v, NEW t, NEW given, Write(r, v, given, t)
      PROVE  KeepInv'
  BY <1>1 DEF Write, Start, KeepInv, HandInv, Changing
<1>2. ASSUME NEW r \in Refs, NEW t, NEW given, Update(r, given, t)
      PROVE  KeepInv'
  <2>1. /\ refs' = refs /\ before' = refs /\ kind' = "update" /\ touched' = {}
        /\ ref' = r /\ goal' = given /\ pending' = {r}
        /\ pc' \in {"aborted", "open", "reveal"}
        /\ pc' # "aborted" => Loads(r)
        /\ pc' = "open" => refs[r].declared = given
        /\ Loads(r) => obj' = refs[r]
    BY <1>2 DEF Update, Start
  <2>2. HandInv'
    BY <2>1 DEF HandInv, Changing, Kept, Loads
  <2> QED BY <2>1, <2>2, StartKeeps DEF KeepInv, Changing, Good
<1>3. ASSUME NEW k \in {"update_targets", "validate_targets"}, Targeted(k)
      PROVE  KeepInv'
  <2>1. /\ refs' = refs /\ before' = refs /\ kind' = k /\ pc' = "scan"
    BY <1>3 DEF Targeted, Start
  <2> QED BY <2>1, StartKeeps DEF KeepInv, HandInv, Changing, Good
<1> QED BY <1>1, <1>2, <1>3 DEF Begin

LEMMA StepKeeps ==
  ASSUME RefAssumption, TypeOK, KeepInv, Step
  PROVE  KeepInv'
<1> USE DEF world, item
<1>1. ASSUME Scan  PROVE KeepInv'
  <2>1. /\ UNCHANGED <<refs, kind, before, touched>>
        /\ pc' \in {"item", "aborted"} /\ pc = "scan"
    BY <1>1 DEF Scan, Abort
  <2>2. \A r \in Refs \ touched : Kept(r)'
    BY <2>1 DEF KeepInv, Kept
  <2> QED BY <2>1, <2>2 DEF KeepInv, HandInv, Good, Changing
<1>2. ASSUME NEW r \in Refs, Refuse(r)  PROVE KeepInv'
  <2>1. HandInv'
    BY <1>2 DEF Refuse, Abort, HandInv
  <2> QED BY <1>2, <2>1, QuietKeeps DEF Refuse, Abort
<1>3. ASSUME NEW r \in Refs, Pass(r)  PROVE KeepInv'
  <2>1. HandInv'
    BY <1>3 DEF Pass, Compares, HandInv
  <2> QED BY <1>3, <2>1, QuietKeeps DEF Pass, Compares
<1>4. ASSUME NEW r \in Refs, Take(r)  PROVE KeepInv'
  <2>1. /\ UNCHANGED <<refs, kind, inv, pending, before, touched>>
        /\ kind = "update_targets" /\ pc = "item" /\ pc' = "reveal"
        /\ ref' = r /\ goal' = Asked(r) /\ obj' = refs[r] /\ r \in pending
        /\ refs[r] \in Whole /\ refs[r].declared # Asked(r)
    BY <1>4 DEF Take, Differs, Compares, Unreadable, Loads
  <2>2. \A x \in Refs \ touched : Kept(x) \/ Moved(x)
    BY <2>1 DEF KeepInv, Changing, Good, Lost
  <2>3. \A x : Asked(x)' = Asked(x)
    BY <2>1, AskedStays
  <2>4. \A x \in Refs \ touched : Good(x)'
    BY <2>1, <2>2, <2>3 DEF Good, Kept, Moved, Loads
  <2>5. r \notin touched => Kept(r)
    BY <2>1, <2>2 DEF Moved
  <2>6. HandInv'
    BY <2>1, <2>3, <2>5 DEF HandInv, Kept
  <2> QED BY <2>1, <2>4, <2>6 DEF KeepInv
<1>5. ASSUME Finish  PROVE KeepInv'
  <2>1. HandInv'
    BY <1>5 DEF Finish, HandInv
  <2> QED BY <1>5, <2>1, QuietKeeps DEF Finish
<1>6. ASSUME Reveal  PROVE KeepInv'
  <2>1. /\ UNCHANGED <<refs, kind, inv, pending, ref, goal, obj, before, touched>>
        /\ pc = "reveal" /\ pc' \in {"encrypt", "aborted"}
    BY <1>6 DEF Reveal, Abort
  <2>2. HandInv'
    BY <2>1, AskedStays DEF KeepInv, HandInv, Changing, Kept
  <2> QED BY <2>1, <2>2, QuietKeeps
<1>7. ASSUME Encrypt  PROVE KeepInv'
  <2>1. /\ UNCHANGED <<refs, kind, inv, pending, ref, goal, before, touched>>
        /\ pc = "encrypt" /\ pc' \in {"open", "aborted"}
        /\ pc' = "open" => obj' = [obj EXCEPT !.lock = NewLock, !.declared = goal]
    BY <1>7 DEF Encrypt, Abort
  <2>2. pc' = "open" => obj'.value = obj.value /\ obj'.declared = goal
    BY <2>1 DEF TypeOK, Whole
  <2>3. HandInv'
    BY <2>1, <2>2, AskedStays DEF KeepInv, HandInv, Changing, Kept
  <2> QED BY <2>1, <2>3, QuietKeeps
<1>8. ASSUME Fault  PROVE KeepInv'
  <2>1. HandInv'
    BY <1>8 DEF Fault, HandInv
  <2> QED BY <1>8, <2>1, QuietKeeps DEF Fault
<1>9. ASSUME Open  PROVE KeepInv'
  <2>1. /\ UNCHANGED <<kind, inv, pending, ref, goal, obj, before, touched>>
        /\ pc = "open" /\ pc' = "flush" /\ ref \in Refs
        /\ refs'[ref] = Torn /\ \A r \in Refs \ {ref} : refs'[r] = refs[r]
    BY <1>9 DEF Open, TypeOK
  <2>2. \A r : Asked(r)' = Asked(r)
    BY <2>1, AskedStays
  <2>3. HandInv'
    BY <2>1, <2>2 DEF KeepInv, HandInv, Changing
  <2>4. ASSUME Changing, ref \notin touched  PROVE Good(ref)'
    BY <2>1, <2>2, <2>4 DEF KeepInv, HandInv, Good, Lost
  <2>5. ASSUME Changing, NEW r \in Refs \ {ref}, r \notin touched  PROVE Good(r)'
    BY <2>1, <2>5, GoodStays DEF KeepInv
  <2> QED BY <2>1, <2>3, <2>4, <2>5 DEF KeepInv, Changing
<1>10. ASSUME Flush  PROVE KeepInv'
  <2>1. /\ UNCHANGED <<kind, inv, ref, goal, obj, before, touched>>
        /\ pc = "flush" /\ ref \in Refs /\ pending' = pending \ {ref}
        /\ pc' \in {"item", "done"} /\ (pc' = "item" => kind = "update_targets")
        /\ refs'[ref] = obj /\ obj \in Whole
        /\ \A r \in Refs \ {ref} : refs'[r] = refs[r]
    BY <1>10 DEF Flush, TypeOK
  <2>2. \A r : Asked(r)' = Asked(r)
    BY <2>1, AskedStays
  <2>3. HandInv'
    BY <2>1 DEF HandInv
  <2>4. ASSUME Changing, ref \notin touched  PROVE Good(ref)'
    <3>1. /\ obj.declared = goal /\ obj.value = before[ref].value /\ before[ref] \in Whole
          /\ kind = "update_targets" => goal = Asked(ref)
      BY <2>1, <2>4 DEF KeepInv, HandInv
    <3>2. kind = "update" \/ kind = "update_targets"
      BY <2>4 DEF Changing
    <3> QED BY <2>1, <2>2, <3>1, <3>2 DEF Good, Moved, Loads
  <2>5. ASSUME Changing, NEW r \in Refs \ {ref}, r \notin touched  PROVE Good(r)'
    BY <2>1, <2>5, GoodStays DEF KeepInv
  <2> QED BY <2>1, <2>3, <2>4, <2>5 DEF KeepInv, Changing
<1>11. ASSUME FlushFails  PROVE KeepInv'
  <2>1. HandInv'
    BY <1>11 DEF FlushFails, HandInv
  <2> QED BY <1>11, <2>1, QuietKeeps DEF FlushFails
<1> QED
  BY <1>1, <1>2, <1>3, <1>4, <1>5, <1>6, <1>7, <1>8, <1>9, <1>10, <1>11 DEF Step

LEMMA EnvironmentKeeps ==
  ASSUME RefAssumption, TypeOK, KeepInv, Environment
  PROVE  KeepInv'
<1> USE DEF world, item, command
<1>1. ASSUME NEW r \in Refs, NEW f, Other(r, f)  PROVE KeepInv'
  <2>1. /\ UNCHANGED <<pc, kind, inv, pending, ref, goal, obj, before>>
        /\ touched' = touched \cup {r}
        /\ \A x \in Refs \ {r} : refs'[x] = refs[x]
    BY <1>1 DEF Other, TypeOK
  <2>2. HandInv'
    BY <2>1, HandStays DEF KeepInv, TypeOK
  <2>3. ASSUME Changing, NEW x \in Refs \ touched'  PROVE Good(x)'
    BY <2>1, <2>3, GoodStays DEF KeepInv
  <2>4. pc = "scan" => \A x \in Refs \ touched' : Kept(x)'
    BY <2>1 DEF KeepInv, Kept
  <2> QED BY <2>1, <2>2, <2>3, <2>4 DEF KeepInv, Changing
<1>2. ASSUME NEW t, NEW s, Edit(t, s)  PROVE KeepInv'
  <2>1. HandInv'
    BY <1>2, HandStays DEF Edit, KeepInv
  <2> QED BY <1>2, <2>1, QuietKeeps DEF Edit
<1>3. ASSUME NEW k, Expire(k)  PROVE KeepInv'
  <2>1. HandInv'
    BY <1>3, HandStays DEF Expire, KeepInv
  <2> QED BY <1>3, <2>1, QuietKeeps DEF Expire
<1>4. ASSUME Kill  PROVE KeepInv'
  <2>1. HandInv'
    BY <1>4 DEF Kill, HandInv
  <2> QED BY <1>4, <2>1, QuietKeeps DEF Kill
<1> QED BY <1>1, <1>2, <1>3, <1>4 DEF Environment

LEMMA KeepStep ==
  ASSUME RefAssumption, TypeOK, KeepInv, [Next]_vars
  PROVE  KeepInv'
<1>1. CASE UNCHANGED vars
  <2>1. HandInv'
    BY <1>1, HandStays DEF KeepInv, vars, world, item, count
  <2> QED BY <1>1, <2>1, QuietKeeps DEF vars, world, item, count
<1> QED BY <1>1, BeginKeeps, StepKeeps, EnvironmentKeeps DEF Next

\* Wherever a command that changes locks is stopped, each reference has its
\* secret, under the old lock or the new one, but for one file that a kill
\* or a failing write has truncated and that did not have the lock asked for.
THEOREM KeptOrRekeyedHolds == ASSUME RefAssumption PROVE Spec => []KeptOrRekeyed
<1>1. Init => KeepInv
  BY DEF Init, KeepInv, HandInv, Changing
<1>2. TypeOK /\ KeepInv /\ [Next]_vars => KeepInv'
  BY KeepStep
<1>3. KeepInv => KeptOrRekeyed
  BY DEF KeepInv, Changing, Good, Kept, Moved, Lost, KeptOrRekeyed
<1> QED BY <1>1, <1>2, <1>3, TypeCorrect, PTL DEF Spec

-----------------------------------------------------------------------------
(* The exit code. *)

Validating == kind \in {"update_targets", "validate_targets"}
InHand == pc \in {"reveal", "encrypt", "open", "flush"}

\* What the exit code is about, and how such a reference should be.
Concerned(r) == TargetOf[r] \in Targets /\ before[r] # Absent /\ Asked(r) # None
Settled(r) == Loads(r) /\ refs[r].lock = Asked(r)

\* A reference that is no longer pending was found as it should be, has been made so,
\* or was reported; a type whose comparison raises is not passed over.
ExitInv ==
  /\ kind = "validate_targets" => \A r \in Refs \ touched : Kept(r)
  /\ Validating /\ pc = "scan" => ret = 0
  /\ Validating /\ (pc \in {"item", "done"} \/ InHand) =>
       /\ \A r \in pending : TargetOf[r] \in Targets
       /\ pc = "done" => pending = {}
       /\ InHand => kind = "update_targets" /\ Backend[ref] # "azkms"
       /\ ret = 0 => \A r \in Refs \ touched : Concerned(r) => r \in pending \/ Settled(r)
       /\ ret = 1 => kind = "validate_targets"
       /\ ret = 1 /\ touched = {} => \E r \in Refs : Concerned(r) /\ ~Settled(r)

LEMMA ConcernStays ==
  ASSUME inv' = inv, before' = before, NEW r
  PROVE  Asked(r)' = Asked(r) /\ Concerned(r)' = Concerned(r)
BY AskedStays DEF Concerned

\* What a comparison has found of a reference.
LEMMA Compared ==
  ASSUME SealInv, NEW r \in Refs, Compares(r), Asked(r) # None
  PROVE  /\ refs[r] \in Whole /\ Backend[r] # "azkms"
         /\ Settled(r) <=> ~Differs(r)
BY DEF SealInv, LockIsDeclared, Compares, Raises, Unreadable, Settled, Differs, Loads

\* Steps of a command, or around it, that write no file and deal with no reference.
LEMMA QuietExits ==
  ASSUME ExitInv, UNCHANGED <<refs, kind, inv, pending, ref, ret, before, touched>>,
         pc' = "scan" => pc = "scan",
         pc' = "item" \/ InHand' => pc = "item" \/ InHand,
         InHand' => InHand,
         pc' = "done" => pc = "done" \/ (pc = "item" /\ pending = {})
  PROVE  ExitInv'
<1>1. \A r : Concerned(r)' = Concerned(r) /\ Settled(r)' = Settled(r)
  BY ConcernStays DEF Settled, Loads
<1> QED BY <1>1 DEF ExitInv, Validating, Kept

LEMMA BeginExits ==
  ASSUME RefAssumption, TypeOK, Begin
  PROVE  ExitInv'
<1>1. ASSUME NEW r, NEW v, NEW t, NEW given, Write(r, v, given, t)
      PROVE  ExitInv'
  BY <1>1 DEF Write, Start, ExitInv, Validating
<1>2. ASSUME NEW r, NEW t, NEW given, Update(r, given, t)
      PROVE  ExitInv'
  BY <1>2 DEF Update, Start, ExitInv, Validating
<1>3. ASSUME NEW k, Targeted(k)
      PROVE  ExitInv'
  <2>1. before' = refs /\ refs' = refs /\ pc' = "scan" /\ ret' = 0
    BY <1>3 DEF Targeted, Start, world
  <2> QED BY <2>1 DEF ExitInv, InHand, Kept
<1> QED BY <1>1, <1>2, <1>3 DEF Begin

LEMMA StepExits ==
  ASSUME RefAssumption, TypeOK, SealInv, KeepInv, ExitInv, Step
  PROVE  ExitInv'
<1> USE DEF world, item
<1>1. ASSUME Scan  PROVE ExitInv'
  <2>1. /\ UNCHANGED <<refs, kind, inv, ret, before, touched>> /\ pc = "scan"
        /\ \/ pc' = "aborted"
           \/ pc' = "item" /\ pending' = {r \in Refs : TargetOf[r] \in Targets /\ refs[r] # Absent}
    BY <1>1 DEF Scan, Abort
  <2>2. \A r : Concerned(r)' = Concerned(r)
    BY <2>1, ConcernStays
  <2>3. \A r \in Refs \ touched : Kept(r) /\ (Concerned(r) /\ pc' = "item" => r \in pending')
    BY <2>1 DEF KeepInv, Kept, Concerned
  <2>4. Validating => ret = 0
    BY <2>1 DEF ExitInv
  <2> QED BY <2>1, <2>2, <2>3, <2>4 DEF ExitInv, Validating, InHand, Kept
<1>2. ASSUME NEW r, Refuse(r)  PROVE ExitInv'
  BY <1>2, QuietExits DEF Refuse, Abort, InHand
<1>3. ASSUME NEW r \in Refs, Pass(r)  PROVE ExitInv'
  <2>1. /\ UNCHANGED <<refs, pc, kind, inv, ref, before, touched>>
        /\ pc = "item" /\ r \in pending /\ pending' = pending \ {r}
        /\ Compares(r) /\ (~Differs(r) \/ kind = "validate_targets")
        /\ ret' = IF Differs(r) THEN 1 ELSE ret
    BY <1>3 DEF Pass, Compares
  <2>2. \A x : Concerned(x)' = Concerned(x) /\ Settled(x)' = Settled(x)
    BY <2>1, ConcernStays DEF Settled, Loads
  <2>3. Validating /\ kind' = kind
    BY <2>1 DEF KeepInv, Validating
  <2>4. /\ \A x \in pending : TargetOf[x] \in Targets
        /\ ret = 0 => \A x \in Refs \ touched : Concerned(x) => x \in pending \/ Settled(x)
        /\ ret = 1 => kind = "validate_targets"
        /\ ret = 1 /\ touched = {} => \E x \in Refs : Concerned(x) /\ ~Settled(x)
        /\ kind = "validate_targets" => \A x \in Refs \ touched : Kept(x)
    BY <2>1, <2>3 DEF ExitInv
  <2>5. ~Differs(r) /\ Concerned(r) => Settled(r)
    BY <2>1, Compared DEF Concerned
  <2>6. ASSUME Differs(r)
        PROVE  kind = "validate_targets" /\ (touched = {} => Concerned(r) /\ ~Settled(r))
    <3>1. kind = "validate_targets" /\ Asked(r) # None
      BY <2>1, <2>6 DEF Differs
    <3>2. refs[r] \in Whole /\ ~Settled(r)
      BY <2>1, <2>6, <3>1, Compared
    <3>3. touched = {} => before[r] = refs[r]
      BY <2>4, <3>1 DEF Kept
    <3> QED BY <2>1, <2>4, <3>1, <3>2, <3>3 DEF Concerned, RefAssumption
  <2>7. ret' = 0 => \A x \in Refs \ touched : Concerned(x) => x \in pending' \/ Settled(x)
    BY <2>1, <2>4, <2>5
  <2>8. /\ ret' = 1 => kind = "validate_targets"
        /\ ret' = 1 /\ touched = {} => \E x \in Refs : Concerned(x) /\ ~Settled(x)
    BY <2>1, <2>4, <2>6
  <2> QED BY <2>1, <2>2, <2>4, <2>7, <2>8 DEF ExitInv, InHand, Kept
<1>4. ASSUME NEW r \in Refs, Take(r)  PROVE ExitInv'
  <2>1. /\ UNCHANGED <<refs, kind, inv, pending, ret, before, touched>>
        /\ pc = "item" /\ pc' = "reveal" /\ ref' = r /\ kind = "update_targets"
        /\ Compares(r) /\ Asked(r) # None
    BY <1>4 DEF Take, Differs, Compares
  <2>2. \A x : Concerned(x)' = Concerned(x) /\ Settled(x)' = Settled(x)
    BY <2>1, ConcernStays DEF Settled, Loads
  <2>3. Backend[r] # "azkms"
    BY <2>1, Compared
  <2> QED BY <2>1, <2>2, <2>3 DEF ExitInv, Validating, InHand, Kept
<1>5. ASSUME Finish  PROVE ExitInv'
  BY <1>5, QuietExits DEF Finish, InHand
<1>6. ASSUME Reveal  PROVE ExitInv'
  <2>1. /\ UNCHANGED <<refs, kind, inv, pending, ref, ret, before, touched>>
        /\ pc = "reveal" /\ pc' \in {"encrypt", "aborted"}
    BY <1>6 DEF Reveal, Abort
  <2> QED BY <2>1, QuietExits DEF InHand
<1>7. ASSUME Encrypt  PROVE ExitInv'
  <2>1. /\ UNCHANGED <<refs, kind, inv, pending, ref, ret, before, touched>>
        /\ pc = "encrypt" /\ pc' \in {"open", "aborted"}
    BY <1>7 DEF Encrypt, Abort
  <2> QED BY <2>1, QuietExits DEF InHand
<1>8. ASSUME Fault  PROVE ExitInv'
  BY <1>8, QuietExits DEF Fault, InHand
<1>9. ASSUME Open  PROVE ExitInv'
  <2>1. /\ UNCHANGED <<kind, inv, pending, ref, ret, before, touched>>
        /\ pc = "open" /\ pc' = "flush" /\ ref \in Refs
        /\ \A x \in Refs \ {ref} : refs'[x] = refs[x]
    BY <1>9 DEF Open, TypeOK
  <2>2. CASE ~Validating
    BY <2>1, <2>2 DEF ExitInv, Validating
  <2>3. CASE Validating
    <3>1. kind = "update_targets" /\ ret # 1 /\ ref \in pending
      BY <2>1, <2>3 DEF ExitInv, InHand, KeepInv, HandInv, Changing
    <3>2. /\ \A x : Concerned(x)' = Concerned(x)
          /\ \A x \in Refs \ {ref} : Settled(x)' = Settled(x)
      BY <2>1, ConcernStays DEF Settled, Loads
    <3> QED BY <2>1, <2>3, <3>1, <3>2 DEF ExitInv, Validating, InHand
  <2> QED BY <2>2, <2>3
<1>10. ASSUME Flush  PROVE ExitInv'
  <2>1. /\ UNCHANGED <<kind, inv, ref, ret, before, touched>>
        /\ pc = "flush" /\ ref \in Refs /\ pending' = pending \ {ref}
        /\ kind = "update_targets" => pc' = "item"
        /\ refs'[ref] = obj /\ obj \in Whole
        /\ \A x \in Refs \ {ref} : refs'[x] = refs[x]
    BY <1>10 DEF Flush, TypeOK
  <2>2. CASE ~Validating
    BY <2>1, <2>2 DEF ExitInv, Validating
  <2>3. CASE Validating
    <3>1. kind = "update_targets" /\ ret # 1 /\ Backend[ref] # "azkms"
      BY <2>1, <2>3 DEF ExitInv, InHand
    <3>2. obj.lock = Asked(ref)
      BY <2>1, <3>1 DEF KeepInv, HandInv, Changing, SealInv
    <3>3. /\ \A x : Asked(x)' = Asked(x) /\ Concerned(x)' = Concerned(x)
          /\ \A x \in Refs \ {ref} : Settled(x)' = Settled(x)
      BY <2>1, ConcernStays DEF Settled, Loads
    <3>4. Settled(ref)'
      BY <2>1, <3>2, <3>3 DEF Settled, Loads
    <3> QED BY <2>1, <2>3, <3>1, <3>3, <3>4 DEF ExitInv, Validating, InHand
  <2> QED BY <2>2, <2>3
<1>11. ASSUME FlushFails  PROVE ExitInv'
  BY <1>11, QuietExits DEF FlushFails, InHand
<1> QED
  BY <1>1, <1>2, <1>3, <1>4, <1>5, <1>6, <1>7, <1>8, <1>9, <1>10, <1>11 DEF Step

LEMMA EnvironmentExits ==
  ASSUME RefAssumption, TypeOK, ExitInv, Environment
  PROVE  ExitInv'
<1> USE DEF world, item, command
<1>1. ASSUME NEW r \in Refs, NEW f, Other(r, f)  PROVE ExitInv'
  <2>1. /\ UNCHANGED <<pc, kind, inv, pending, ref, ret, before>>
        /\ touched' = touched \cup {r}
        /\ \A x \in Refs \ {r} : refs'[x] = refs[x]
    BY <1>1 DEF Other, TypeOK
  <2>2. /\ \A x : Concerned(x)' = Concerned(x)
        /\ \A x \in Refs \ {r} : Settled(x)' = Settled(x)
    BY <2>1, ConcernStays DEF Settled, Loads
  <2> QED BY <2>1, <2>2 DEF ExitInv, Validating, InHand, Kept
<1>2. ASSUME NEW t, NEW s, Edit(t, s)  PROVE ExitInv'
  BY <1>2, QuietExits DEF Edit, InHand
<1>3. ASSUME NEW k, Expire(k)  PROVE ExitInv'
  BY <1>3, QuietExits DEF Expire, InHand
<1>4. ASSUME Kill  PROVE ExitInv'
  BY <1>4, QuietExits DEF Kill, InHand
<1> QED BY <1>1, <1>2, <1>3, <1>4 DEF Environment

LEMMA ExitStep ==
  ASSUME RefAssumption, TypeOK, SealInv, KeepInv, ExitInv, [Next]_vars
  PROVE  ExitInv'
<1>1. CASE UNCHANGED vars
  BY <1>1, QuietExits DEF vars, world, item, InHand
<1> QED BY <1>1, BeginExits, StepExits, EnvironmentExits DEF Next

\* An exit code of 0 is earned by every reference that has settings, one of 1 by some:
\* for every inventory and every order of the references, whatever is edited meanwhile.
THEOREM ExitCodeIsHonestHolds == ASSUME RefAssumption PROVE Spec => []ExitCodeIsHonest
<1>1. Init => SealInv /\ KeepInv /\ ExitInv
  BY DEF Init, SealInv, LockIsDeclared, Sealed, KeepInv, HandInv, Changing, ExitInv, Validating
<1>2. TypeOK /\ SealInv /\ KeepInv /\ ExitInv /\ [Next]_vars => SealInv' /\ KeepInv' /\ ExitInv'
  BY SealStep, KeepStep, ExitStep
<1>3. SealInv /\ KeepInv /\ ExitInv => ExitCodeIsHonest
  BY DEF ExitInv, ExitCodeIsHonest, Validating, Concerned, Settled
<1> QED BY <1>1, <1>2, <1>3, TypeCorrect, PTL DEF Spec
=============================================================================
