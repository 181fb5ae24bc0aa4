----------------------------- MODULE MCRefUpdate -----------------------------
(* An instance of RefUpdate: target t1 has a reference for gpg and one for *)
(* another key backend, Shared lies outside the targets' directories. The  *)
(* inventory asks for one of a few settings.                               *)
EXTENDS RefUpdate, TLC

CONSTANTS g, a, b, t1, me, you, v1, v2,
  Second,      \* the backend of the second reference
  Third        \* and of the third, of no target

RefBackend == [r \in Refs |-> IF r = g THEN "gpg" ELSE IF r = a THEN Second ELSE Third]
RefTarget == [r \in Refs |-> IF r = b THEN None ELSE t1]

Of(gpg, key) == [k \in Keyed |-> IF k = "gpg" THEN gpg ELSE IF k = Second THEN key ELSE None]

SomeSettings == {Of({me, you}, {you}), Of({}, None), Of(None, {me}), None}

\* Secrets are interchangeable: the one in NoObj is replaced before anything reads it.
SecretsAlike == Permutations(Values)
=============================================================================
