------------------------------ MODULE MCAllowOnce ------------------------------
(***************************************************************************)
(* Instances of AllowOnce for TLC.                                         *)
(***************************************************************************)
EXTENDS AllowOnce, TLC

\* Every target is its own scope, and all hashes share the short code.
MCCovers(t) == {t}
MCOneCode(h) == "code"
\* One repository: a grant covers every target in it.
MCRepo(t) == Targets
MCTargetCode(h) == h.target

MCSymmetry == Permutations(Hooks) \cup Permutations(Clis)
================================================================================
