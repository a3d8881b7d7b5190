------------------------------ MODULE Evaluator ------------------------------
(***************************************************************************)
(* One evaluation of a command line: the stages of a command, the commands *)
(* nested in it (launcher payloads, substitutions, alias bodies, heredocs, *)
(* tar and sed helpers), the views of a line whose shell is unknown, the   *)
(* allow-once grants of the line and the deadline, which may pass between  *)
(* any two stages while another process redeems a code.                    *)
(*                                                                         *)
(* A line is a forest: a root for each view of it, and under a command the *)
(* commands that its text runs.                                            *)
(***************************************************************************)
EXTENDS Integers, Sequences

CONSTANTS
    Lines,       \* the forests to evaluate
    MaxNesting,  \* MAX_EMBEDDED_SHELL_DEPTH
    MaxGrants    \* bound: codes redeemed for the line

\* How the whole text of a command stands with the configuration: matched by a
\* block pattern, an allow pattern, both, a whole-command allowlist entry, none.
Marks == {"none", "block", "allow", "both", "listed"}
\* What its own words give the packs: no keyword, nothing, only allowlisted
\* rules, a rule that denies.
Finds == {"quiet", "clean", "listed", "deny"}
\* A command: the one it is nested in (0: the root of a view), whether it is
\* judged before or after the whole-command checks of that one, and whether the
\* cheap predicate sees that its text may hold nested commands. It sees launchers,
\* substitutions and heredocs; it misses bodies of aliases, $IFS texts, deferred
\* commands and brace lists, which are judged early all the same.
Command == [parent : Nat, when : {"early", "late"}, mark : Marks, find : Finds, seen : BOOLEAN]
IsLine(f) ==
    /\ f \in Seq(Command) /\ f # <<>>
    /\ \A i \in DOMAIN f : f[i].parent < i
    \* the views read the same raw text
    /\ \A i \in DOMAIN f : f[i].parent = 0 => f[i].mark = f[1].mark

ASSUME LinesAssumption == \A f \in Lines : IsLine(f)
ASSUME EvaluatorBounds == MaxNesting \in Nat /\ MaxGrants \in Nat

GrantKinds == {"plain", "forced"}
Allowing == {"clear", "listed"}        \* "listed": allowed_by_allowlist
Answers == Allowing \cup {"deny", "unfinished", "grant"}
None == "none"

VARIABLES
    cmd, offered,   \* the line; the grants for it when the evaluation starts
    grants, used,   \* grants in the store; grants used up, by kind
    late,           \* the deadline has passed
    frames,         \* commands under evaluation, outermost first
    ret,            \* what the command just left returned, or None
    view, primary,  \* root of the current view; what the first view returned
    verdict         \* what the evaluation returned, or None

store == <<grants, used>>
views == <<view, primary, verdict>>
evalVars == <<cmd, offered, store, late, frames, ret, views>>

Nodes == DOMAIN cmd
Roots == {i \in Nodes : cmd[i].parent = 0}
Kids(i, w) == {j \in Nodes : cmd[j].parent = i /\ cmd[j].when = w}
Blocks(i) == cmd[i].mark \in {"block", "both"}
Allows(i) == cmd[i].mark \in {"allow", "both"}

Depth == Len(frames) - 1
Frame == frames[Len(frames)]
Here  == Frame.node
Entered(i) == [node |-> i, stage |-> "enter", kid |-> 0, hit |-> FALSE]

At(s) == frames # <<>> /\ ret = None /\ Frame.stage = s
Proceed(s) == frames' = [frames EXCEPT ![Len(frames)].stage = s, ![Len(frames)].kid = 0] /\ UNCHANGED ret
Leave(r) == frames' = SubSeq(frames, 1, Len(frames) - 1) /\ ret' = r
\* An allow is put down to the first allowlist hit, if there was one.
Credit(found) == IF Frame.hit \/ found = "listed" THEN "listed" ELSE "clear"

\* Mutant: a nested command may use a grant.
GrantAtAnyDepth(kinds) == \E k \in kinds : grants[k] > 0
\* A grant authorizes the complete raw request, never a command nested in it.
Covers(kinds) == Depth = 0 /\ \E k \in kinds : grants[k] > 0
Use(kinds) == \E k \in kinds :
    /\ grants[k] > 0
    /\ grants' = [grants EXCEPT ![k] = @ - 1] /\ used' = [used EXCEPT ![k] = @ + 1]

\* Mutant: any grant lifts a block.
LiftingAny == GrantKinds
\* The grants that lift a block of the configuration.
Lifting == {"forced"}

EvalStart ==
    /\ grants = offered /\ used = [k \in GrantKinds |-> 0] /\ late = FALSE
    /\ frames = <<Entered(1)>> /\ ret = None /\ view = 1 /\ primary = None /\ verdict = None
EvalInit ==
    /\ cmd \in Lines
    /\ offered \in {g \in [GrantKinds -> 0..MaxGrants] : g["plain"] + g["forced"] <= MaxGrants}
    /\ EvalStart

\* The nesting limit, the deadline, then block patterns, which a forced grant
\* lifts, then allow patterns.
Enter ==
    /\ At("enter")
    /\ \/ Depth > MaxNesting /\ Leave("deny") /\ UNCHANGED store
       \/ /\ Depth <= MaxNesting
          /\ \/ late /\ Leave("unfinished") /\ UNCHANGED store
             \/ ~late /\ Blocks(Here) /\ Covers(Lifting) /\ Use(Lifting) /\ Leave("grant")
             \/ ~late /\ Blocks(Here) /\ ~Covers(Lifting) /\ Leave("deny") /\ UNCHANGED store
             \/ ~late /\ cmd[Here].mark = "allow" /\ Leave("clear") /\ UNCHANGED store
             \/ ~late /\ ~Blocks(Here) /\ ~Allows(Here) /\ Proceed("open") /\ UNCHANGED store
    /\ UNCHANGED <<cmd, offered, late, views>>

\* Mutant: the grant is looked up only after the nested commands.
OpenLate ==
    /\ At("open")
    /\ \/ late /\ Leave("unfinished")
       \/ ~late /\ Proceed("early")
    /\ UNCHANGED <<cmd, offered, store, late, views>>
\* A text that may hold nested commands has its grant and its whole-command
\* allowlist entries looked up before they are judged.
Open ==
    /\ At("open")
    /\ \/ late /\ Leave("unfinished") /\ UNCHANGED store
       \/ /\ ~late /\ cmd[Here].seen
          /\ \/ Covers(GrantKinds) /\ Use(GrantKinds) /\ Leave("grant")
             \/ /\ ~Covers(GrantKinds) /\ UNCHANGED store
                /\ IF cmd[Here].mark = "listed" THEN Leave("clear") ELSE Proceed("early")
       \/ ~late /\ ~cmd[Here].seen /\ Proceed("early") /\ UNCHANGED store
    /\ UNCHANGED <<cmd, offered, late, views>>

\* The nested commands of this stage that are still to be judged, in order.
Pending == {j \in Kids(Here, Frame.stage) : j > Frame.kid}
Descend ==
    /\ At("early") \/ At("late")
    /\ \E j \in Pending :
         /\ \A i \in Pending : j <= i
         /\ frames' = Append([frames EXCEPT ![Len(frames)].kid = j], Entered(j))
    /\ UNCHANGED <<cmd, offered, store, late, ret, views>>

\* Mutant: an allowlisted rule decides for all the text around it.
DecidesListed(r) == r \in {"deny", "unfinished", "listed"}
\* nested_result_decides
Decides(r) == r \in {"deny", "unfinished"}
Ascend ==
    /\ frames # <<>> /\ ret # None
    /\ IF Decides(ret) THEN Leave(ret)
       ELSE /\ frames' = [frames EXCEPT ![Len(frames)].hit = @ \/ ret = "listed"]
            /\ ret' = None
    /\ UNCHANGED <<cmd, offered, store, late, views>>

\* No keyword, and no tar or sed source to judge later.
Quiet == cmd[Here].find = "quiet" /\ Kids(Here, "late") = {}
Gate ==
    /\ At("early") /\ Pending = {}
    /\ \/ late /\ Leave("unfinished")
       \/ ~late /\ Quiet /\ Leave(Credit("quiet"))
       \/ ~late /\ ~Quiet /\ Proceed("whole")
    /\ UNCHANGED <<cmd, offered, store, late, views>>

\* The whole-command checks: the grant, unless it was looked up before the nested
\* commands, and the allowlist.
Whole ==
    /\ At("whole")
    /\ \/ late /\ Leave("unfinished") /\ UNCHANGED store
       \/ ~late /\ ~cmd[Here].seen /\ Covers(GrantKinds) /\ Use(GrantKinds) /\ Leave("grant")
       \/ /\ ~late /\ (cmd[Here].seen \/ ~Covers(GrantKinds)) /\ UNCHANGED store
          /\ IF cmd[Here].mark = "listed" THEN Leave("clear") ELSE Proceed("late")
    /\ UNCHANGED <<cmd, offered, late, views>>

\* evaluate_packs_with_allowlists_at_depth checks the deadline at every pattern.
Packs ==
    /\ At("late") /\ Pending = {}
    /\ IF late THEN Leave("unfinished")
       ELSE IF cmd[Here].find = "deny" THEN Leave("deny") ELSE Leave(Credit(cmd[Here].find))
    /\ UNCHANGED <<cmd, offered, store, late, views>>

Other == {i \in Roots : i > view}
\* Mutant: the first view's answer stands.
FirstViewStands(r) == r # None
\* A grant, a denial and an unfinished view end the evaluation.
EndsEvaluation(r) == r \notin Allowing \/ Other = {}
\* The other views of a line whose shell is unknown: "an exhausted budget is never
\* proof that the un-run views are clean".
FanOut ==
    /\ frames = <<>> /\ verdict = None
    /\ primary' = IF view = 1 THEN ret ELSE primary
    /\ IF EndsEvaluation(ret)
       THEN /\ verdict' = IF ret \in Allowing THEN primary' ELSE ret
            /\ UNCHANGED <<frames, view>>
       ELSE IF late
       THEN verdict' = "unfinished" /\ UNCHANGED <<frames, view>>
       ELSE \E j \in Other :
              /\ \A i \in Other : j <= i
              /\ frames' = <<Entered(j)>> /\ view' = j /\ UNCHANGED verdict
    /\ ret' = None
    /\ UNCHANGED <<cmd, offered, store, late>>

Expire ==
    /\ verdict = None /\ ~late /\ late' = TRUE
    /\ UNCHANGED <<cmd, offered, store, frames, ret, views>>
\* The user redeems a code for this line, from another process.
RedeemMeanwhile ==
    /\ verdict = None
    /\ grants["plain"] + grants["forced"] + used["plain"] + used["forced"] < MaxGrants
    /\ \E k \in GrantKinds : grants' = [grants EXCEPT ![k] = @ + 1]
    /\ UNCHANGED <<cmd, offered, used, late, frames, ret, views>>

EvalNext == Enter \/ Open \/ Descend \/ Ascend \/ Gate \/ Whole \/ Packs \/ FanOut \/ Expire \/ RedeemMeanwhile
EvalSpec == EvalInit /\ [][EvalNext]_evalVars

--------------------------------------------------------------------------------
(* Properties *)

EvalTypeOK ==
    /\ IsLine(cmd) /\ late \in BOOLEAN
    /\ offered \in [GrantKinds -> Nat] /\ grants \in [GrantKinds -> Nat] /\ used \in [GrantKinds -> Nat]
    /\ frames \in Seq([node : Nodes, stage : {"enter", "open", "early", "whole", "late"},
                       kid : {0} \cup Nodes, hit : BOOLEAN])
    /\ Len(frames) <= MaxNesting + 2
    /\ ret \in {None} \cup Answers /\ view \in Roots
    /\ primary \in {None} \cup Answers /\ verdict \in {None} \cup Answers

\* How deep each command is nested, and whether it is judged at all: nothing in a
\* command that an allow pattern or, in time, an allowlist entry lets run whole.
Depths == LET d[i \in Nodes] == IF cmd[i].parent = 0 THEN 0 ELSE d[cmd[i].parent] + 1 IN d
Shields(p, w) == Allows(p) \/ (cmd[p].mark = "listed" /\ (cmd[p].seen \/ w = "late"))
Judged == LET j[i \in Nodes] == \/ cmd[i].parent = 0
                                \/ j[cmd[i].parent] /\ ~Shields(cmd[i].parent, cmd[i].when)
          IN j
\* Harmful in itself: blocked, nested too deep, or denied by a rule.
OwnHarm(i) == Blocks(i) \/ Depths[i] > MaxNesting \/ (cmd[i].find = "deny" /\ cmd[i].mark = "none")
\* Some command of some view is.
Harmful == \E i \in Nodes : Judged[i] /\ OwnHarm(i)
\* Missed by the cheap predicate: judged, itself or what it is nested in, before the
\* whole-command checks of a view in which the predicate sees no nested command.
Missed == LET m[i \in Nodes] ==
                  LET p == cmd[i].parent
                  IN p # 0 /\ (m[p] \/ (cmd[p].parent = 0 /\ ~cmd[p].seen /\ cmd[i].when = "early"))
          IN m
MissedHarm == \E i \in Nodes : Judged[i] /\ Missed[i] /\ OwnHarm(i)

\* Whatever the order of the stages, wherever the deadline falls and whichever
\* exemption is met first, an evaluation that finishes without a grant denies just
\* the lines that run something harmful in some view.
DecidesOnMerits ==
    verdict \notin {None, "grant", "unfinished"} => (verdict = "deny" <=> Harmful)

\* "It has already been consumed, so replay must not look it up again and turn an
\* approved request into a denial (GH#537)" (evaluator.rs:14066-14068): a line uses
\* up one grant at most, in all its views and nested commands, and then it runs;
\* "only a force allow-once exception may intentionally bypass an explicit config
\* block" (evaluator.rs:14163-14165), and a plain one is not used up in trying.
UsedMeansRuns ==
    /\ used["plain"] + used["forced"] <= 1
    /\ verdict # None => (used["plain"] + used["forced"] = 1 <=> verdict = "grant")
    /\ Blocks(1) => used["plain"] = 0

\* Evaluated to the end in time, with a grant from the start that the configuration
\* lets it use.
GrantAvails ==
    /\ verdict # None /\ ~late
    /\ offered["forced"] > 0 \/ (offered["plain"] > 0 /\ ~Blocks(1))

\* "A false negative [of the predicate] would make an explicitly authorized outer
\* command impossible to run because its nested payload is denied first"
\* (evaluator.rs:13488-13490). It has them: bodies of aliases, texts rebuilt from
\* $IFS, commands deferred or in a brace list (evaluator.rs:14347-14441) are judged
\* before the lookup at 14873 and match nothing at 13491-13519. This is all they
\* cost: a line whose grant avails is denied only for harm in a command that the
\* predicate missed, whatever the views, the exemptions and the codes redeemed.
GrantHonoured ==
    GrantAvails => verdict # "unfinished" /\ (verdict = "deny" => MissedHarm)

\* What the same comment promises, without the exception: the line runs.
AuthorizedRuns == GrantAvails => verdict # "deny"
================================================================================
