---------------------------- MODULE MaskedFindings ----------------------------
(***************************************************************************)
(* From the evaluator's first finding to the verdict on a line.            *)
(*                                                                         *)
(* The evaluator stops at its first finding and knows nothing of policy.   *)
(* When policy, or doubt about the place of the match, lets that finding   *)
(* run, the line is evaluated again with the finding's rule granted, until *)
(* a finding denies or none is left; and again with the doubted text       *)
(* blanked out, one level deeper each time.  An evaluation may run out of  *)
(* time, may see text a proof worker failed to recognise as data, and may  *)
(* meet an allow-once grant redeemed since the one before.                 *)
(*                                                                         *)
(* A line is the sequence of its findings in the order the evaluator would *)
(* report them.                                                            *)
(***************************************************************************)
EXTENDS Integers, Sequences

CONSTANTS
    Rules,
    Sticky,      \* rules reported on paths that consult no rule allowlist
    Modes,       \* decision modes that policy gives to rules
    MaxRounds, MaxDepth,    \* MAX_MASKED_FINDING_ROUNDS, MAX_DOUBTED_OCCURRENCE_ROUNDS
    MaxLine, MaxRedeems     \* bounds: findings on a line, codes redeemed meanwhile

Rank == [deny |-> 4, ask |-> 3, warn |-> 2, log |-> 1]
\* How a finding stands on the line: a plain use; one the rule's regex does not
\* find in the raw text (`rm -r''f`); one in doubtful surroundings (`watch rm`);
\* one in text that is data, if the proof of it ends in time.
Kinds == {"plain", "veiled", "doubted", "data"}
Finding == [rule : Rules, kind : Kinds]

ASSUME RulesAssumption == Sticky \subseteq Rules /\ Modes \subseteq DOMAIN Rank
ASSUME LimitsAssumption == MaxRounds \in Nat \ {0} /\ MaxDepth \in Nat
ASSUME BoundsAssumption == MaxLine \in Nat /\ MaxRedeems \in Nat

Unfinished == -1     \* EvaluationResult::indeterminate_due_to_budget
Clean      == 0      \* nothing denied; a positive answer is a finding's place

VARIABLES
    line, policy,   \* the findings on the line; the mode configured for each rule
    step,           \* where escalate_masked_findings_at is
    blanked,        \* places blanked out at this level
    granted,        \* rules granted to the next evaluation
    best, latest,   \* strictest finding of this level; the last one reported
    doubted,        \* findings of this level that only doubt lets run
    rounds,         \* evaluations past the first of this level
    stack,          \* outer levels: their best finding and blanked places
    answer,         \* what the level returns
    redeemed, live, spent,   \* single-use codes for the line: redeemed by the
                             \* user, in the grant store, used up
    cut             \* history: an evaluation ran out of time

vars  == <<line, policy, step, blanked, granted, best, latest, doubted, rounds,
           stack, answer, redeemed, live, spent, cut>>
input == <<line, policy>>
level == <<blanked, granted, best, latest, doubted, rounds, stack>>
codes == <<redeemed, live, spent>>

Places == DOMAIN line
RuleAt(k) == line[k].rule

\* The rule is found once more, where its use is not in doubt.
Repeated(k, gone) ==
    \E j \in Places \ gone : j # k /\ RuleAt(j) = RuleAt(k) /\ line[j].kind = "plain"

\* Mutant: doubt about one use stands for every use.
ModeOfFirst(k, gone) ==
    IF policy[RuleAt(k)] = "deny" /\ line[k].kind = "doubted" THEN "warn" ELSE policy[RuleAt(k)]
\* resolve_effective_mode on the line without what is gone: a deny in doubt is a
\* warning, unless the rule is repeated.
Mode(k, gone) ==
    IF policy[RuleAt(k)] = "deny" /\ line[k].kind = "doubted" /\ ~Repeated(k, gone)
    THEN "warn" ELSE policy[RuleAt(k)]
RankOf(k, gone) == Rank[Mode(k, gone)]

\* Mutant: no finding is noted as doubted.
NeverNoted(k, gone) == {}
\* note_doubted_occurrence
Noted(k, gone) == {j \in {k} : policy[RuleAt(k)] = "deny" /\ Mode(k, gone) # "deny"}

\* What an evaluation may report when proofs clear the places in `cleared`: the
\* first of these.
Reportable(cleared, grants) ==
    {k \in Places \ (blanked \cup cleared) : RuleAt(k) \notin grants \/ RuleAt(k) \in Sticky}
IsFirst(r, S) == IF S = {} THEN r = Clean ELSE r \in S /\ \A k \in S : r <= k

\* Mutant: a grant covers the line whatever was blanked in it.
CoveredAnyway == live > 0
\* A code covers the raw command, not one with parts blanked out.
Covered == live > 0 /\ blanked = {}

\* One evaluation of the line with these rules granted: result r.
Evaluates(r, grants) ==
    \/ /\ r = Unfinished /\ cut' = TRUE /\ UNCHANGED codes
    \/ /\ Covered /\ r = Clean
       /\ live' = live - 1 /\ spent' = spent + 1 /\ UNCHANGED <<redeemed, cut>>
    \/ /\ ~Covered
       /\ \E cleared \in SUBSET {k \in Places : line[k].kind = "data"} : IsFirst(r, Reportable(cleared, grants))
       /\ UNCHANGED <<codes, cut>>
Results == {Unfinished, Clean} \cup Places

Return(r) == step' = "return" /\ answer' = r
Goto(s) == step' = s /\ UNCHANGED answer

Init ==
    /\ line \in UNION {[1..n -> Finding] : n \in 0..MaxLine}
    /\ policy \in [Rules -> Modes]
    /\ step = "first" /\ blanked = {} /\ granted = {} /\ best = 0 /\ latest = 0 /\ doubted = {}
    /\ rounds = 0 /\ stack = <<>> /\ answer = Clean
    /\ redeemed = 0 /\ live = 0 /\ spent = 0 /\ cut = FALSE

\* The evaluation a level starts with: a denial ends the level, as does anything
\* that is not a finding.
Begin ==
    /\ step = "first"
    /\ \E r \in Results :
         /\ Evaluates(r, {})
         /\ IF r > 0 /\ Mode(r, blanked) # "deny"
            THEN /\ best' = r /\ latest' = r /\ doubted' = Noted(r, blanked) /\ Goto("rounds")
                 /\ UNCHANGED <<blanked, granted, rounds, stack>>
            ELSE Return(r) /\ UNCHANGED level
    /\ UNCHANGED input

\* The round limit, or a finding that its grant did not suppress.
EndRounds ==
    /\ step = "rounds"
    /\ \/ rounds = MaxRounds /\ Return(Unfinished)
       \/ rounds < MaxRounds /\ RuleAt(latest) \in granted /\ Goto("past")
    /\ UNCHANGED <<input, level, codes, cut>>

\* Mutants of Round: the line is evaluated with the latest rule granted, and no
\* other; an evaluation cut short counts as one that found nothing.
RoundWith(grants, unfinished) ==
    /\ step = "rounds" /\ rounds < MaxRounds /\ RuleAt(latest) \notin granted
    /\ granted' = grants
    /\ \E r \in Results :
         /\ Evaluates(r, granted')
         /\ \/ r = Clean /\ Goto("past") /\ UNCHANGED <<best, latest, doubted, rounds>>
            \/ r = Unfinished /\ unfinished /\ UNCHANGED <<best, latest, doubted, rounds>>
            \/ /\ r > 0 /\ Mode(r, blanked) = "deny"
               /\ Return(r) /\ UNCHANGED <<best, latest, doubted, rounds>>
            \/ /\ r > 0 /\ Mode(r, blanked) # "deny"
               /\ doubted' = doubted \cup Noted(r, blanked)
               /\ best' = IF RankOf(r, blanked) > RankOf(best, blanked) THEN r ELSE best
               /\ latest' = r /\ rounds' = rounds + 1 /\ Goto("rounds")
    /\ UNCHANGED <<input, blanked, stack>>
RoundForgetting == RoundWith({RuleAt(latest)}, Return(Unfinished))
RoundTrusting   == RoundWith(granted \cup {RuleAt(latest)}, Goto("past"))

\* The rule of the latest finding is granted and the line evaluated again.
Round ==
    /\ step = "rounds" /\ rounds < MaxRounds /\ RuleAt(latest) \notin granted
    /\ granted' = granted \cup {RuleAt(latest)}
    /\ \E r \in Results :
         /\ Evaluates(r, granted')
         /\ \/ r = Clean /\ Goto("past") /\ UNCHANGED <<best, latest, doubted, rounds>>
            \/ r = Unfinished /\ Return(r) /\ UNCHANGED <<best, latest, doubted, rounds>>
            \/ /\ r > 0 /\ Mode(r, blanked) = "deny"
               /\ Return(r) /\ UNCHANGED <<best, latest, doubted, rounds>>
            \/ /\ r > 0 /\ Mode(r, blanked) # "deny"
               /\ doubted' = doubted \cup Noted(r, blanked)
               /\ best' = IF RankOf(r, blanked) > RankOf(best, blanked) THEN r ELSE best
               /\ latest' = r /\ rounds' = rounds + 1 /\ Goto("rounds")
    /\ UNCHANGED <<input, blanked, stack>>

\* Mutant: one level too many.
Deepest(depth) == depth > MaxDepth
\* The depth limit is checked before the next level.
TooDeep(depth) == depth >= MaxDepth
\* look_past_doubted_occurrences: a level below, without the doubted places and
\* without grants.
LookPast ==
    /\ step = "past"
    /\ \/ doubted \subseteq blanked /\ Return(best) /\ UNCHANGED level
       \/ /\ ~(doubted \subseteq blanked) /\ TooDeep(Len(stack))
          /\ Return(Unfinished) /\ UNCHANGED level
       \/ /\ ~(doubted \subseteq blanked) /\ ~TooDeep(Len(stack))
          /\ stack' = Append(stack, [best |-> best, blanked |-> blanked])
          /\ blanked' = blanked \cup doubted
          /\ granted' = {} /\ best' = 0 /\ latest' = 0 /\ doubted' = {} /\ rounds' = 0
          /\ Goto("first")
    /\ UNCHANGED <<input, codes, cut>>

Outer == stack[Len(stack)]
\* Mutant: the last word is the deepest level's.
AnswerOfInner == IF answer = Clean THEN Outer.best ELSE answer
\* A level's answer replaces the outer level's best finding when it is stricter,
\* or was not reached.
AnswerOfBoth ==
    IF answer = Unfinished THEN Unfinished
    ELSE IF answer > 0 /\ RankOf(answer, blanked) > RankOf(Outer.best, Outer.blanked) THEN answer
    ELSE Outer.best

Unwind ==
    /\ step = "return" /\ stack # <<>>
    /\ answer' = AnswerOfBoth
    /\ blanked' = Outer.blanked
    /\ stack' = SubSeq(stack, 1, Len(stack) - 1)
    /\ UNCHANGED <<input, step, granted, best, latest, doubted, rounds, codes, cut>>

Finish ==
    /\ step = "return" /\ stack = <<>>
    /\ step' = "done" /\ granted' = {} /\ best' = 0 /\ latest' = 0 /\ doubted' = {} /\ rounds' = 0
    /\ UNCHANGED <<input, blanked, stack, answer, codes, cut>>

\* The user redeems a code for the same command, from another process.
Redeem ==
    /\ step # "done" /\ redeemed < MaxRedeems
    /\ redeemed' = redeemed + 1 /\ live' = live + 1
    /\ UNCHANGED <<input, level, step, answer, spent, cut>>

Next == Begin \/ EndRounds \/ Round \/ LookPast \/ Unwind \/ Finish \/ Redeem
Spec == Init /\ [][Next]_vars

--------------------------------------------------------------------------------
(* Properties *)

TypeOK ==
    /\ line \in Seq(Finding) /\ policy \in [Rules -> Modes]
    /\ step \in {"first", "rounds", "past", "return", "done"}
    /\ blanked \subseteq Places /\ doubted \subseteq Places /\ granted \subseteq Rules
    /\ best \in {0} \cup Places /\ latest \in {0} \cup Places
    /\ step \in {"rounds", "past"} => best # 0 /\ latest # 0
    /\ rounds \in 0..MaxRounds
    /\ stack \in Seq([best : Places, blanked : SUBSET Places]) /\ Len(stack) <= MaxDepth
    /\ answer \in Results
    /\ redeemed \in Nat /\ live \in Nat /\ spent \in Nat /\ cut \in BOOLEAN

Done == step = "done"
\* What the caller makes of the answer.
Verdict == IF answer = Unfinished THEN "unfinished" ELSE IF answer = Clean THEN "allow"
           ELSE Mode(answer, {})
Certain(k) == line[k].kind \in {"plain", "veiled"}
\* Findings of rules that cannot be granted end the look past them early.
Grantable == \A k \in Places : RuleAt(k) \in Sticky => Mode(k, {}) = "deny"

\* A line runs, or is put up for review, without a code only when no certain use
\* on it is denied: "so the evaluator skips it and continues to the next
\* finding, until a match resolves to `deny`, nothing else matches, or
\* evaluation cannot finish" (evaluator.rs:32715-32727).
NothingMasked ==
    Done /\ spent = 0 /\ Grantable /\ Verdict \notin {"deny", "unfinished"} =>
        \A k \in Places : Certain(k) => policy[RuleAt(k)] # "deny"

\* The strictest finding decides and, of several, the first: "ties keep the
\* earlier one, so the reported rule is unchanged whenever nothing stricter
\* exists" (evaluator.rs:32728-32729).  A denial ends the search at once.
StrictestFirst ==
    Done /\ spent = 0 /\ Grantable /\ Verdict # "unfinished" =>
        \A k \in Places : line[k].kind # "data" =>
            /\ answer > 0 /\ RankOf(k, {}) <= RankOf(answer, {})
            /\ k < answer /\ Verdict # "deny" => RankOf(k, {}) < RankOf(answer, {})

\* An evaluation that ran out of time is never taken for one that found nothing.
CutShortIsUnfinished == Done /\ cut => answer = Unfinished

\* "the loop already ends when the command runs out of matches; the cap only
\* bounds a pathological line" (evaluator.rs:32692-32694): with time, only more
\* rules or more doubted uses than the limits leave a line unjudged.
OnlyCrowdsUnjudged ==
    Done /\ Grantable /\ answer = Unfinished /\ ~cut =>
        \/ \E f \in [0..MaxRounds -> Places] :
             \A i, j \in 0..MaxRounds : i # j => RuleAt(f[i]) # RuleAt(f[j])
        \/ \E f \in [0..MaxDepth -> Places] :
             \A i \in 0..MaxDepth : line[f[i]].kind = "doubted" /\ (\A j \in 0..MaxDepth : i # j => f[i] # f[j])

\* An answer is unfinished for a cause, and with that cause always.
UnfinishedForCause == CutShortIsUnfinished /\ OnlyCrowdsUnjudged

\* However often the line is evaluated, it uses up one code at most.
OneCodeSpent == spent <= 1
================================================================================
