----------------------------- MODULE MCEvaluation -----------------------------
(* One evaluation of a line, and the rounds of evaluations up to its verdict,
   side by side: each behaviour is about one of the two. *)
EXTENDS MaskedFindings, Evaluator

VARIABLE part

Views == {[parent |-> 0, when |-> "early", mark |-> k, find |-> f, seen |-> s] :
              k \in Marks, f \in Finds, s \in BOOLEAN}
\* Nested commands: judged on their words, blocked, or listed as a whole.
Nested(p) == {[parent |-> p, when |-> w, mark |-> mf[1], find |-> mf[2], seen |-> TRUE] :
                  w \in {"early", "late"},
                  mf \in {<<"none", "clean">>, <<"none", "listed">>, <<"none", "deny">>,
                          <<"block", "clean">>, <<"listed", "deny">>}}
Longer(f) == {Append(f, c) : c \in {v \in Views : v.mark = f[1].mark} \cup UNION {Nested(p) : p \in DOMAIN f}}
OneCommand == {<<c>> : c \in Views}
TwoCommands == UNION {Longer(f) : f \in OneCommand}
ThreeCommands == UNION {Longer(f) : f \in TwoCommands}
\* alias x='rm -rf ~'; x
AliasLine == {<<[parent |-> 0, when |-> "early", mark |-> "none", find |-> "clean", seen |-> FALSE],
                [parent |-> 1, when |-> "early", mark |-> "none", find |-> "deny", seen |-> FALSE]>>}
SmallLines == OneCommand \cup TwoCommands \cup ThreeCommands

\* The half a behaviour is not about stays at one initial state.
PartInit ==
    \/ /\ part = "rounds" /\ Init
       /\ cmd = <<[parent |-> 0, when |-> "early", mark |-> "none", find |-> "quiet", seen |-> FALSE]>>
       /\ offered = [k \in GrantKinds |-> 0] /\ EvalStart
    \/ /\ part = "evaluation" /\ line = <<>> /\ policy = [r \in Rules |-> "warn"] /\ Init
       /\ EvalInit
PartNext ==
    \/ part = "rounds" /\ Next /\ UNCHANGED <<part, evalVars>>
    \/ part = "evaluation" /\ EvalNext /\ UNCHANGED <<part, vars>>
PartSpec == PartInit /\ [][PartNext]_<<part, vars, evalVars>>

\* The types of both.
TypesOK == TypeOK /\ EvalTypeOK
================================================================================
