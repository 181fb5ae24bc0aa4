--------------------------- MODULE MCTargetInputs ---------------------------
(* Instances of TargetInputs: the compile lists of up to three configs, over *)
(* three files, one in the target's directory and one in each of two        *)
(* directories below it, with and without configs that read or remove       *)
(* compiled files and directories.                                          *)
EXTENDS TargetInputs, TLC

CONSTANTS f, g, u, top, sub, odd

DirOfDef == (f :> top) @@ (g :> sub) @@ (u :> odd)
WithinDef == (top :> {top, sub, odd}) @@ (sub :> {sub}) @@ (odd :> {odd})

Step(op, from, to) ==
  [op |-> op, from |-> from, to |-> to, dir |-> top, ignore_missing |-> FALSE,
   continue_on_compile_error |-> FALSE]
In(dir, step) == [step EXCEPT !.dir = dir]
Lax(step) == [step EXCEPT !.continue_on_compile_error = TRUE]

GenF == Step("template", f, {f})
GenG == Step("template", g, {g})
GenFG == Step("template", f, {f, g})
GenU == Step("template", u, {u})
ToolG == In(sub, Step("tool", g, {g}))
ExtF == Step("external", f, {f})
Copy == In(sub, Step("copy", f, {g}))
RemF == Step("remove", f, {})
RemG == Step("remove", g, {})
RemU == Step("remove", u, {})
RemSub == Step("remove", sub, {})
RemTop == Step("remove", top, {})
LaxRemF == [RemF EXCEPT !.ignore_missing = TRUE]

\* Every list of up to two configs and every list of three of the core ones, and some
\* lists with a file that cannot be removed.
Configs == {GenFG, Lax(GenFG), ToolG, Lax(ToolG), ExtF, Copy, RemF, LaxRemF, RemSub, RemTop}
Core == {GenFG, ToolG, Lax(ToolG), Copy, RemSub, RemF}
Lists == [1 .. 1 -> Configs] \cup [1 .. 2 -> Configs] \cup [1 .. 3 -> Core]
Unremoved == {<<GenU, RemU>>, <<GenU, GenF, RemTop>>, <<GenG, RemG>>, <<ToolG, RemSub, GenF, ToolG>>}
ProgramsDef == Lists \cup Unremoved
=============================================================================
