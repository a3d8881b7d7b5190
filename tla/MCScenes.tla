------------------------------- MODULE MCScenes -------------------------------
(***************************************************************************)
(* Races on the allow-once stores of one repository, in two scenes.        *)
(***************************************************************************)
EXTENDS MCAllowOnce

\* CLI processes race each other over one target, or take turns over several.
OneTarget == \A h \in Hooks : tgt[h] = NoHash.target
TakeTurns == \A c, d \in Clis : op[c] # "idle" /\ op[d] # "idle" => c = d

VARIABLE scene
SceneInit == Init /\ scene \in {"race", "turns"}
SceneNext ==
    /\ Next /\ UNCHANGED scene
    /\ scene = "race" => OneTarget'
    /\ scene = "turns" => TakeTurns'
SceneSpec == SceneInit /\ [][SceneNext]_<<vars, scene>>
================================================================================
