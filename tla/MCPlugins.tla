------------------------------- MODULE MCPlugins -------------------------------
(***************************************************************************)
(* Instances of Gate: prerequisite, a plugin that needs it, and one on its *)
(* own; two valid configurations and an invalid one. The dependent plugin  *)
(* is the first in the alphabet.                                           *)
(***************************************************************************)
EXTENDS Gate, TLC

CONSTANTS prereq, dependent, alone, plain, grace, bad

MCRequires == [p \in Plugins |-> IF p = dependent THEN {prereq} ELSE {}]

MCRank == (dependent :> 1) @@ (alone :> 2) @@ (prereq :> 3)

\* Off: nothing; the plugin nobody needs; the prerequisite, which fails startup.
Harmless == {{}, {alone}, {prereq}}

\* Off: nothing, or the dependent plugin.
DependentOff == {{}, {dependent}}
===============================================================================
