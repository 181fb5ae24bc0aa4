----------------------------- MODULE RefUpdate ------------------------------
(***************************************************************************)
(* The commands of `kapitan refs` that write reference files:              *)
(* ref_write, secret_update and secret_update_validate in                  *)
(* kapitan/refs/cmd_parser.py, with the part of the backends they use to   *)
(* reveal a secret and encrypt it again (kapitan/refs/secrets/).           *)
(*                                                                         *)
(* One command runs at a time; between any two of its steps somebody else  *)
(* may replace a whole reference file (another operator, a checkout), edit *)
(* the inventory, or kill the command.                                     *)
(***************************************************************************)
EXTENDS Naturals, FiniteSets

CONSTANTS
  Refs,         \* the reference files below --refs-path
  Backend,      \* Backend[r]: the type a file names, "gpg", "awskms", ...
  Targets,
  TargetOf,     \* TargetOf[r]: the first part of r's path
  Keys,         \* gpg fingerprints and the keys of key services
  Me,           \* the key of the operator who runs the commands
  Values,       \* what secrets may hold
  Settings,     \* what kapitan.secrets of a target may be
  None,
  Absent, Torn, \* a file that does not exist, or is truncated
  MaxCommands,  \* bounds: commands run,
  MaxEvents     \* and what the environment does, faults and stops included

Keyed == {"gpg", "gkms", "awskms", "azkms", "vaulttransit"}
Locks == SUBSET Keys
Whole == [value : Values, lock : Locks, declared : Locks]

ASSUME RefAssumption ==
  /\ Refs # {} /\ IsFiniteSet(Refs) /\ Values # {}
  /\ Backend \in [Refs -> Keyed \cup {"other"}]
  /\ TargetOf \in [Refs -> Targets \cup {None}]
  /\ Me \in Keys
  /\ Settings \subseteq [Keyed -> Locks \cup {None}] \cup {None}
  /\ None \notin Targets \cup Keys
  /\ \A l \in Locks : l # None
  /\ \A f \in Whole : f # Absent /\ f # Torn
  /\ Absent # Torn

VARIABLES
  refs,      \* the files; lock: the keys data is encrypted to, declared:
             \* the recipients or key the file names
  wanted,    \* wanted[t]: kapitan.secrets of t in the inventory
  usable,    \* the keys that have not expired and can be used
  pc, kind,
  inv,       \* the inventory as the command has read it
  pending,   \* references the command has still to deal with
  ref, goal, \* the reference in hand, and the lock it is to have
  obj,       \* secret_obj
  client,    \* cached.azkms_obj: the key of the one client of the process
  ret,       \* ret_code
  before,    \* history: refs when the command began
  touched,   \* history: references somebody else wrote since
  commands, events, \* how many there have been
  stops      \* history: how often a command was killed or broke off in a write

world == <<refs, wanted, usable>>
item  == <<ref, goal, obj, client>>
count == <<commands, events, stops>>
vars  == <<world, pc, kind, inv, pending, item, ret, before, touched, count>>

Files == Whole \cup {Absent, Torn}
Ended == {"idle", "done", "aborted", "unwritten", "killed"}
First == CHOOSE r \in Refs : TRUE

TypeOK ==
  /\ refs \in [Refs -> Files]
  /\ wanted \in [Targets -> Settings]
  /\ usable \subseteq Keys
  /\ pc \in Ended \cup {"scan", "item", "reveal", "encrypt", "open", "flush"}
  /\ kind \in {"none", "write", "update", "update_targets", "validate_targets"}
  /\ inv \in [Targets -> Settings]
  /\ pending \subseteq Refs
  /\ ref \in Refs
  /\ goal \in Locks
  /\ obj \in Whole
  /\ client \in Keys \cup {None}
  /\ ret \in {0, 1}
  /\ before \in [Refs -> Files]
  /\ touched \subseteq Refs
  /\ commands \in Nat /\ events \in Nat /\ stops \in Nat

\* A file encrypted to the keys it names, as ref_write leaves it.
Sealed(v, l) == [value |-> v, lock |-> l, declared |-> l]

\* secret_obj before there is one.
NoObj == Sealed(CHOOSE v \in Values : TRUE, {})

LocksFor(r) == IF Backend[r] = "gpg" THEN Locks \ {{}}
               ELSE IF Backend[r] \in Keyed THEN {{k} : k \in Keys} ELSE {{}}

Init ==
  /\ \E v \in Values :
       refs \in {f \in [Refs -> Files] : \A r \in Refs : \E l \in LocksFor(r) : f[r] = Sealed(v, l)}
  /\ wanted \in [Targets -> Settings]
  /\ usable = Keys
  /\ pc = "idle" /\ kind = "none"
  /\ inv = wanted
  /\ pending = {}
  /\ ref = First /\ goal = {} /\ obj = NoObj
  /\ client = None
  /\ ret = 0
  /\ before = refs
  /\ touched = {}
  /\ commands = 0 /\ events = 0 /\ stops = 0

Event == /\ events < MaxEvents
         /\ events' = events + 1

-----------------------------------------------------------------------------
\* The lock kapitan.secrets of t asks for, or None: `secrets.gpg` and so on.
Configured(settings, t, b) ==
  IF t = None \/ b \notin Keyed THEN None
  ELSE IF settings[t] = None THEN None ELSE settings[t][b]

\* A file that can be loaded; from_path raises on what a kill has left.
Loads(r) == refs[r] \in Whole

\* lookup_fingerprints: recipients are named, and a name has to have a key
\* that has not expired.
Found(b, l) == b = "gpg" => l \subseteq usable

Start(k) ==
  /\ pc \in Ended
  /\ commands < MaxCommands
  /\ commands' = commands + 1
  /\ kind' = k
  /\ inv' = wanted
  /\ client' = None
  /\ ret' = 0
  /\ before' = refs
  /\ touched' = {}
  /\ UNCHANGED <<world, events, stops>>

Abort ==
  /\ pc' = "aborted"
  /\ UNCHANGED <<world, kind, inv, pending, item, ret, before, touched, count>>

\* ref_write: new contents for one reference. A target's gpg recipients win
\* over --recipients, but --key wins over a target's key.
AskedOf(r, given, t) ==
  LET c == Configured(wanted, t, Backend[r]) IN
  CASE Backend[r] = "gpg" -> IF c = None THEN given ELSE c
    [] Backend[r] = "vaulttransit" -> IF c = None THEN {} ELSE c
    [] Backend[r] = "other" -> {}
    [] OTHER -> IF given # {} \/ c = None THEN given ELSE c

\* Without secrets in the target, None.gpg raises; without a key or
\* recipients the command refuses. "other" is base64, plain and env, which
\* read no settings.
Write(r, v, given, t) ==
  /\ Start("write")
  /\ ref' = r
  /\ goal' = AskedOf(r, given, t)
  /\ obj' = Sealed(v, {})
  /\ pending' = {r}
  /\ pc' = IF /\ Backend[r] \in Keyed
              /\ (t # None /\ wanted[t] = None) \/ goal' = {}
           THEN "aborted" ELSE "encrypt"

\* secret_update: one reference. The settings of --target-name are looked up
\* and never used; recipients are looked up by name, which finds keys that
\* have not expired; the file is rewritten even when the lock is the same.
Update(r, given, t) ==
  /\ Start("update")
  /\ ref' = r
  /\ goal' = given
  /\ pending' = {r}
  /\ obj' = IF Loads(r) THEN refs[r] ELSE NoObj
  /\ pc' = IF \/ t # None /\ wanted[t] = None
              \/ Backend[r] \in {"vaulttransit", "other"}
              \/ given = {}
              \/ ~Loads(r)
              \/ ~Found(Backend[r], given)
           THEN "aborted"
           ELSE IF refs[r].declared = given THEN "open" ELSE "reveal"

\* secret_update_validate
Targeted(k) ==
  /\ k \in {"update_targets", "validate_targets"}
  /\ Start(k)
  /\ pc' = "scan"
  /\ pending' = {}
  /\ ref' = First /\ goal' = {} /\ obj' = NoObj

\* search_target_token_paths reads every file of every target, and raises on
\* one that is empty.
Scan ==
  /\ pc = "scan"
  /\ LET listed == {r \in Refs : TargetOf[r] \in Targets /\ refs[r] # Absent} IN
       IF \E r \in listed : ~Loads(r)
       THEN Abort
       ELSE /\ pending' = listed
            /\ pc' = "item"
            /\ UNCHANGED <<world, kind, inv, item, ret, before, touched, count>>

\* The lock the inventory asks of r, for the types the command compares.
Asked(r) == Configured(inv, TargetOf[r], Backend[r])

\* Types whose comparison names a field that does not exist: `secrets.azkey`
\* before anything else, `secrets.gpg.key` and vault_params["key"] once the
\* target has settings for the type.
Raises(r) == \/ inv[TargetOf[r]] = None
             \/ Backend[r] = "azkms"
             \/ Backend[r] \in {"gkms", "vaulttransit"} /\ Asked(r) # None

\* A file that cannot be loaded, or a recipient without a valid key.
Unreadable(r) == ~Loads(r) \/ ~Found(Backend[r], Asked(r))

\* The references are taken in the order of os.walk, target by target: here
\* in any order. Before the comparison, a type without settings is skipped.
Refuse(r) ==
  /\ pc = "item" /\ r \in pending
  /\ Raises(r) \/ (Asked(r) # None /\ Unreadable(r))
  /\ Abort

Compares(r) ==
  /\ pc = "item" /\ r \in pending
  /\ ~Raises(r)
  /\ Asked(r) # None => ~Unreadable(r)

\* Mutant of Differs: every reference with settings is encrypted again.
DiffersAlways(r) == Asked(r) # None

Differs(r) == Asked(r) # None /\ refs[r].declared # Asked(r)

\* Mutant of Pass: ret_code is that of the last reference.
PassLast(r) ==
  /\ Compares(r)
  /\ ~Differs(r) \/ kind = "validate_targets"
  /\ ret' = IF Differs(r) THEN 1 ELSE 0
  /\ pending' = pending \ {r}
  /\ UNCHANGED <<world, pc, kind, inv, item, before, touched, count>>

\* Nothing to do, or only to be reported.
Pass(r) ==
  /\ Compares(r)
  /\ ~Differs(r) \/ kind = "validate_targets"
  /\ ret' = IF Differs(r) THEN 1 ELSE ret
  /\ pending' = pending \ {r}
  /\ UNCHANGED <<world, pc, kind, inv, item, before, touched, count>>

Take(r) ==
  /\ Compares(r)
  /\ Differs(r) /\ kind = "update_targets"
  /\ ref' = r
  /\ goal' = Asked(r)
  /\ obj' = refs[r]
  /\ pc' = "reveal"
  /\ UNCHANGED <<world, kind, inv, pending, client, ret, before, touched, count>>

Finish ==
  /\ pc = "item" /\ pending = {}
  /\ pc' = "done"
  /\ UNCHANGED <<world, kind, inv, pending, item, ret, before, touched, count>>

-----------------------------------------------------------------------------
\* azkms_obj(key): the client of the first key the process asked for.
ClientFor(lock) == IF client # None THEN client ELSE CHOOSE k \in lock : TRUE

\* What decrypts a file in hand: gpg the operator's key, aws the key its data
\* was encrypted with, gkms and vaulttransit the key the file names, azkms the
\* key of the client.
GpgDecrypts   == Me \in obj.lock
AwsDecrypts   == obj.lock \subseteq usable
NamedDecrypts == obj.lock = obj.declared /\ obj.lock \subseteq usable
AzureDecrypts == obj.lock = {ClientFor(obj.declared)} /\ obj.lock \subseteq usable

Decrypts == CASE Backend[ref] = "gpg" -> GpgDecrypts
              [] Backend[ref] = "awskms" -> AwsDecrypts
              [] Backend[ref] = "azkms" -> AzureDecrypts
              [] OTHER -> NamedDecrypts

\* update_recipients and update_key: first reveal,
Reveal ==
  /\ pc = "reveal"
  /\ IF Decrypts
     THEN /\ pc' = "encrypt"
          /\ client' = IF Backend[ref] = "azkms" THEN ClientFor(obj.declared) ELSE client
          /\ UNCHANGED <<world, kind, inv, pending, ref, goal, obj, ret, before, touched, count>>
     ELSE Abort

\* Mutant of Encrypt: the recipients are replaced, the data is not.
EncryptLabelOnly ==
  /\ pc = "encrypt"
  /\ obj' = [obj EXCEPT !.lock = IF @ = {} THEN goal ELSE @, !.declared = goal]
  /\ pc' = "open"
  /\ UNCHANGED <<world, kind, inv, pending, ref, goal, client, ret, before, touched, count>>

\* then encrypt to the new lock, which azkms does with the client it has;
\* gpg refuses an empty list of recipients.
NewLock == IF Backend[ref] = "azkms" THEN {ClientFor(goal)} ELSE goal

\* Mutant of Encrypt: the file is open while the new data is made.
EncryptInPlace ==
  /\ pc = "encrypt"
  /\ refs' = [refs EXCEPT ![ref] = Torn]
  /\ IF NewLock \subseteq usable /\ (Backend[ref] \in Keyed => goal # {})
     THEN /\ obj' = [obj EXCEPT !.lock = NewLock, !.declared = goal]
          /\ pc' = "open"
     ELSE /\ obj' = obj
          /\ pc' = "aborted"
  /\ UNCHANGED <<wanted, usable, kind, inv, pending, ref, goal, client, ret, before, touched, count>>

Encrypt ==
  /\ pc = "encrypt"
  /\ IF NewLock \subseteq usable /\ (Backend[ref] \in Keyed => goal # {})
     THEN /\ obj' = [obj EXCEPT !.lock = NewLock, !.declared = goal]
          /\ client' = IF Backend[ref] = "azkms" THEN ClientFor(goal) ELSE client
          /\ pc' = "open"
          /\ UNCHANGED <<world, kind, inv, pending, ref, goal, ret, before, touched, count>>
     ELSE Abort

\* A key service or gpg-agent that does not answer, a wrong passphrase.
Fault ==
  /\ pc \in {"reveal", "encrypt"}
  /\ Backend[ref] \in Keyed
  /\ Event
  /\ pc' = "aborted"
  /\ UNCHANGED <<world, kind, inv, pending, item, ret, before, touched, commands, stops>>

\* PlainRefBackend.__setitem__: open(..., "w") truncates the file,
Open ==
  /\ pc = "open"
  /\ refs' = [refs EXCEPT ![ref] = Torn]
  /\ pc' = "flush"
  /\ UNCHANGED <<wanted, usable, kind, inv, pending, item, ret, before, touched, count>>

\* and closing it writes the new contents.
Flush ==
  /\ pc = "flush"
  /\ refs' = [refs EXCEPT ![ref] = obj]
  /\ pending' = pending \ {ref}
  /\ pc' = IF kind = "update_targets" THEN "item" ELSE "done"
  /\ UNCHANGED <<wanted, usable, kind, inv, item, ret, before, touched, count>>

\* Between the two dump() may raise, as PlainRef.dump does on data that is not
\* UTF-8 (--binary), and the disk may be full when the file is closed.
FlushFails ==
  /\ pc = "flush"
  /\ Event
  /\ stops' = stops + 1
  /\ pc' = "unwritten"
  /\ UNCHANGED <<world, kind, inv, pending, item, ret, before, touched, commands>>

Kill ==
  /\ pc \notin Ended
  /\ Event
  /\ stops' = stops + 1
  /\ pc' = "killed"
  /\ UNCHANGED <<world, kind, inv, pending, item, ret, before, touched, commands>>

-----------------------------------------------------------------------------
command == <<pc, kind, inv, pending, item, ret, before, commands, stops>>

\* Somebody else replaces or removes a whole file, though not in the moment
\* between the command's open and close of it.
Other(r, f) ==
  /\ Event
  /\ ~(pc = "flush" /\ r = ref)
  /\ refs' = [refs EXCEPT ![r] = f]
  /\ touched' = touched \cup {r}
  /\ UNCHANGED <<wanted, usable, command>>

Edit(t, s) ==
  /\ Event
  /\ s # wanted[t]
  /\ wanted' = [wanted EXCEPT ![t] = s]
  /\ UNCHANGED <<refs, usable, command, touched>>

Expire(k) ==
  /\ k \in usable
  /\ Event
  /\ usable' = usable \ {k}
  /\ UNCHANGED <<refs, wanted, command, touched>>

Environment ==
  \/ \E r \in Refs, v \in Values : \E l \in LocksFor(r) : Other(r, Sealed(v, l))
  \/ \E r \in Refs : Other(r, Absent)
  \/ \E t \in Targets, s \in Settings : Edit(t, s)
  \/ \E k \in Keys : Expire(k)
  \/ Kill

Begin ==
  \/ \E r \in Refs, v \in Values, t \in Targets \cup {None} :
       \E given \in LocksFor(r) \cup {{}} : Write(r, v, given, t)
  \/ \E r \in Refs, t \in Targets \cup {None} :
       \E given \in LocksFor(r) \cup {{}} : Update(r, given, t)
  \/ \E k \in {"update_targets", "validate_targets"} : Targeted(k)

Step ==
  \/ Scan
  \/ \E r \in Refs : Refuse(r) \/ Pass(r) \/ Take(r)
  \/ Finish
  \/ Reveal \/ Encrypt \/ Fault
  \/ Open \/ Flush \/ FlushFails

Next == Begin \/ Step \/ Environment

Spec == Init /\ [][Next]_vars

-----------------------------------------------------------------------------
\* The exit code of --update-targets and --validate-targets says how things
\* are: with 0 every reference of a target that had settings for its type is
\* encrypted to just the keys the inventory asked for, with 1 some is not,
\* leaving aside what somebody else wrote meanwhile.
\* (secret_update_validate, sys.exit(ret_code))
ExitCodeIsHonest ==
  pc = "done" /\ kind \in {"update_targets", "validate_targets"} =>
    LET off == {r \in Refs : /\ TargetOf[r] \in Targets
                             /\ before[r] # Absent
                             /\ Asked(r) # None
                             /\ ~(Loads(r) /\ refs[r].lock = Asked(r))}
    IN /\ ret = 0 => off \subseteq touched
       /\ ret = 1 /\ touched = {} => off # {}

\* However --update or --update-targets ends, and at every step on the way,
\* each reference is as it was or has the same secret under the lock asked
\* for. The exception is the file that a kill or a failing write leaves
\* truncated, and with --update-targets that is never one that had the right
\* lock already.
KeptOrRekeyed ==
  kind \in {"update", "update_targets"} /\ pc # "scan" =>
    \A r \in Refs \ touched :
      \/ refs[r] = before[r]
      \/ /\ r \notin pending
         /\ Loads(r) /\ before[r] \in Whole
         /\ refs[r].value = before[r].value
         /\ refs[r].declared = (IF kind = "update" THEN goal ELSE Asked(r))
      \/ /\ r = ref /\ refs[r] = Torn /\ pc \in {"flush", "unwritten", "killed"}
         /\ kind = "update_targets" => before[r].declared # Asked(r)

TornRefs == {r \in Refs : refs[r] = Torn}

\* There are no more truncated files than commands that were killed or broke
\* off in a write, the file being written aside: no failure to decrypt, encrypt
\* or look up a key reaches a file, in any order of commands over any files.
OneTornPerStop ==
  Cardinality(TornRefs) <= stops + (IF pc = "flush" THEN 1 ELSE 0)

\* The keys a file names are those its data is encrypted to: a recipient who
\* is removed cannot read the file any more, and one who is named can. It
\* takes in every order of commands and failures. azkms is left out:
\* see NamedIsUsed.
LockIsDeclared ==
  \A r \in Refs : Loads(r) /\ Backend[r] # "azkms" => refs[r].lock = refs[r].declared

\* The docstring of AzureKMSSecret.update_key, "re-encrypts data with new key".
NamedIsUsed == \A r \in Refs : Loads(r) => refs[r].lock = refs[r].declared
=============================================================================
