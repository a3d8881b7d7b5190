------------------------- MODULE MaskedFindingsProofs -------------------------
(***************************************************************************)
(* No certain denial is masked, the first of the strictest findings        *)
(* decides, a line is left unfinished for a cause and uses up one code at  *)
(* most: for every set of rules and policy, every line and every limit on  *)
(* the rounds.                                                             *)
(*                                                                         *)
(* The argument: only doubted uses are ever blanked out, so blanking never *)
(* changes the mode of a finding.  A rule that policy denies is granted    *)
(* only after a doubted use of it was reported, and that use was not yet   *)
(* blanked out, so the level cannot end without looking past it; where it  *)
(* does end, no rule of a certain denied use had been granted, and the     *)
(* evaluator would have reported that use.                                 *)
(*                                                                         *)
(* Of the findings that are let run, those of one rule are let run in one  *)
(* way, so the best finding so far stands for all findings of the rules    *)
(* reported, and comes before all others, since the evaluator reports the  *)
(* first that is not granted.  Each round reports another rule and each    *)
(* level blanks out another doubted use: reaching either limit takes more  *)
(* of them than the limit.                                                 *)
(*                                                                         *)
(* The last sections join these theorems and those about one evaluation    *)
(* for the specification that the instances in MCEvaluation are of, and    *)
(* bound the evaluations one line can cost.                                *)
(***************************************************************************)
EXTENDS MCEvaluation, EvaluatorProofs

Doubtful == {k \in Places : line[k].kind = "doubted"}
CertainDeny == {k \in Places : Certain(k) /\ policy[RuleAt(k)] = "deny"}
Stops(a) == a = Unfinished \/ (a \in Places /\ Mode(a, {}) = "deny")
Levels == [best : Places, blanked : SUBSET Places]

\* Only doubted uses are blanked out, at any level.
OnlyDoubted ==
    /\ blanked \subseteq Doubtful /\ doubted \subseteq Doubtful
    /\ \A i \in DOMAIN stack : stack[i].blanked \subseteq Doubtful /\ Mode(stack[i].best, {}) # "deny"
\* What the rounds of a level have seen so far: findings that are let run, and for
\* every granted rule that policy denies a doubted use not yet blanked out.
GrantsNoted ==
    /\ step = "first" => granted = {}
    /\ step \in {"rounds", "past"} =>
        /\ Mode(best, {}) # "deny" /\ Mode(latest, {}) # "deny"
        /\ \A r \in granted \cup {RuleAt(latest)} : policy[r] = "deny" => ~(doubted \subseteq blanked)
        /\ step = "rounds" /\ RuleAt(latest) \in granted => RuleAt(latest) \in Sticky
\* A certain denied use on the line: the level cannot end unstopped.
NoEscape ==
    Grantable /\ spent = 0 /\ CertainDeny # {} =>
        /\ step = "past" => ~(doubted \subseteq blanked)
        /\ step \in {"return", "done"} => Stops(answer)
\* A code is used up by an evaluation of the whole line, which ends its level.
CodeEnds ==
    /\ spent = 0 \/ (spent = 1 /\ (step \in {"past", "return", "done"} \/ blanked # {}))
    /\ stack # <<>> /\ step # "return" => blanked # {}
CutEnds == cut => answer = Unfinished /\ step \in {"return", "done"}
MaskInv == TypeOK /\ OnlyDoubted /\ GrantsNoted /\ NoEscape /\ CodeEnds /\ CutEnds

\* What follows from the type of the line.
LEMMA PlaceFacts ==
    ASSUME TypeOK, NEW k \in Places
    PROVE  /\ k \in Nat /\ k # 0 /\ k > 0 /\ k # Unfinished /\ k # Clean
           /\ RuleAt(k) \in Rules /\ line[k].kind \in Kinds
           /\ policy[RuleAt(k)] \in Modes
<1>1. line \in Seq(Finding) /\ k \in 1..Len(line)
  BY DEF TypeOK, Places
<1>2. line[k] \in Finding
  BY <1>1
<1> QED BY <1>1, <1>2 DEF Finding, RuleAt, TypeOK, Unfinished, Clean

\* Blanking out doubted uses changes no mode.
LEMMA ModeStable ==
    ASSUME TypeOK, NEW k \in Places, NEW gone, gone \subseteq Doubtful
    PROVE  Mode(k, gone) = Mode(k, {})
<1>1. Repeated(k, gone) <=> Repeated(k, {})
  BY DEF Repeated, Doubtful
<1> QED BY <1>1 DEF Mode

LEMMA NotedFacts ==
    ASSUME TypeOK, NEW k \in Places, blanked \subseteq Doubtful, k \notin blanked, Mode(k, blanked) # "deny"
    PROVE  /\ Noted(k, blanked) \subseteq Doubtful
           /\ policy[RuleAt(k)] = "deny" => k \in Noted(k, blanked)
BY PlaceFacts DEF Noted, Mode, Doubtful

\* A finding that denies ranks above every other.
LEMMA DenyOutranks ==
    ASSUME TypeOK, NEW a \in Places, NEW b \in Places, Mode(a, {}) = "deny", Mode(b, {}) # "deny"
    PROVE  Rank[Mode(a, {})] > Rank[Mode(b, {})]
<1>1. policy[RuleAt(b)] \in DOMAIN Rank
  BY PlaceFacts, RulesAssumption
<1>2. Mode(b, {}) \in {"ask", "warn", "log"}
  BY <1>1 DEF Mode, Rank
<1> QED BY <1>2 DEF Rank

\* What one evaluation may answer.
LEMMA EvaluatesFacts ==
    ASSUME TypeOK, OnlyDoubted, NEW given, NEW r \in Results, Evaluates(r, given)
    PROVE  /\ r > 0 => r \in Places \ blanked /\ (RuleAt(r) \notin given \/ RuleAt(r) \in Sticky)
           /\ r = Clean /\ spent' = spent => \A k \in Places : Certain(k) => RuleAt(k) \in given
           /\ redeemed' \in Nat /\ live' \in Nat /\ spent' \in Nat /\ cut' \in BOOLEAN
           /\ spent' = spent \/ (spent' = spent + 1 /\ r = Clean /\ blanked = {})
           /\ r # Unfinished => cut' = cut
           /\ r = Unfinished => cut' = TRUE
           /\ r > 0 \/ r = Clean \/ r = Unfinished
           /\ r > 0 => r \in Places /\ spent' = spent
<1>0. redeemed \in Nat /\ live \in Nat /\ spent \in Nat /\ cut \in BOOLEAN
  BY DEF TypeOK
<1>1. r > 0 \/ r = Clean \/ r = Unfinished
  BY PlaceFacts DEF Results
<1>2. Unfinished # Clean /\ ~(Unfinished > 0) /\ ~(Clean > 0)
  BY DEF Unfinished, Clean
<1>3. CASE r = Unfinished /\ cut' = TRUE /\ UNCHANGED codes
  BY <1>0, <1>1, <1>2, <1>3 DEF codes
<1>4. CASE /\ Covered /\ r = Clean
           /\ live' = live - 1 /\ spent' = spent + 1 /\ UNCHANGED <<redeemed, cut>>
  <2>1. live' \in Nat /\ spent' \in Nat /\ spent' # spent
    BY <1>0, <1>4 DEF Covered
  <2> QED BY <1>0, <1>2, <1>4, <2>1 DEF Covered
<1>5. CASE /\ ~Covered /\ UNCHANGED <<codes, cut>>
           /\ \E cleared \in SUBSET {k \in Places : line[k].kind = "data"} :
                  IsFirst(r, Reportable(cleared, given))
  <2>1. PICK cleared \in SUBSET {k \in Places : line[k].kind = "data"} :
               IsFirst(r, Reportable(cleared, given))
    BY <1>5
  <2>2. r = Clean \/ r \in Reportable(cleared, given)
    BY <2>1 DEF IsFirst
  <2>3. r \in Reportable(cleared, given) => r \in Places /\ r > 0 /\ r # Clean /\ r # Unfinished
    BY PlaceFacts DEF Reportable
  <2>4. r = Clean => Reportable(cleared, given) = {}
    BY <2>1, <2>3 DEF IsFirst
  <2>5. r = Clean => \A k \in Places : Certain(k) => RuleAt(k) \in given
    BY <2>4 DEF Reportable, OnlyDoubted, Doubtful, Certain
  <2>6. r > 0 => r \in Places \ blanked /\ (RuleAt(r) \notin given \/ RuleAt(r) \in Sticky)
    BY <1>2, <2>2 DEF Reportable
  <2> QED BY <1>0, <1>1, <1>2, <1>5, <2>2, <2>3, <2>5, <2>6 DEF codes
<1> QED BY <1>3, <1>4, <1>5 DEF Evaluates

LEMMA MaskInvInit == Init => MaskInv
<1> SUFFICES ASSUME Init PROVE MaskInv
  OBVIOUS
<1>1. line \in Seq(Finding)
  <2>1. PICK n \in 0..MaxLine : line \in [1..n -> Finding]
    BY DEF Init
  <2> QED BY <2>1, BoundsAssumption
<1>2. TypeOK
  <2>1. stack \in Seq(Levels) /\ Len(stack) <= MaxDepth /\ rounds \in 0..MaxRounds
    BY LimitsAssumption DEF Init
  <2>2. answer \in Results /\ redeemed \in Nat /\ live \in Nat /\ spent \in Nat /\ cut \in BOOLEAN
    BY DEF Init, Results
  <2>3. /\ step = "first" /\ blanked \subseteq Places /\ doubted \subseteq Places /\ granted \subseteq Rules
        /\ best \in {0} \cup Places /\ latest \in {0} \cup Places /\ policy \in [Rules -> Modes]
    BY DEF Init
  <2> QED BY <1>1, <2>1, <2>2, <2>3 DEF TypeOK, Levels
<1>3. OnlyDoubted /\ GrantsNoted /\ NoEscape /\ CodeEnds /\ CutEnds
  BY DEF Init, OnlyDoubted, GrantsNoted, NoEscape, CodeEnds, CutEnds
<1> QED BY <1>2, <1>3 DEF MaskInv

\* A level or an evaluation ends with an answer: what the invariant asks of it.
LEMMA BeginInv == MaskInv /\ Begin => MaskInv'
<1> SUFFICES ASSUME MaskInv, Begin PROVE MaskInv'
  OBVIOUS
<1>t. TypeOK /\ OnlyDoubted /\ GrantsNoted /\ NoEscape /\ CodeEnds /\ CutEnds
  BY DEF MaskInv
<1>1. PICK r \in Results :
        /\ Evaluates(r, {})
        /\ IF r > 0 /\ Mode(r, blanked) # "deny"
           THEN /\ best' = r /\ latest' = r /\ doubted' = Noted(r, blanked) /\ Goto("rounds")
                /\ UNCHANGED <<blanked, granted, rounds, stack>>
           ELSE Return(r) /\ UNCHANGED level
  BY DEF Begin
<1>2. spent = 0 \/ (spent = 1 /\ blanked # {})
  BY <1>t DEF Begin, CodeEnds
<1>3. step = "first" /\ UNCHANGED <<line, policy>> /\ cut = FALSE
  BY <1>t DEF Begin, input, CutEnds
<1>e. PICK none : none = {}
  OBVIOUS
<1>f. Evaluates(r, none)
  BY <1>1, <1>e
<1>4. /\ r > 0 => r \in Places \ blanked /\ spent' = spent
      /\ r = Clean /\ spent' = spent => \A k \in Places : ~Certain(k)
      /\ redeemed' \in Nat /\ live' \in Nat /\ spent' \in Nat /\ cut' \in BOOLEAN
      /\ spent' = spent \/ (spent' = spent + 1 /\ r = Clean /\ blanked = {})
      /\ r # Unfinished => cut' = cut
      /\ r > 0 \/ r = Clean \/ r = Unfinished
  <2>1. /\ r > 0 => r \in Places \ blanked /\ spent' = spent
        /\ r = Clean /\ spent' = spent => \A k \in Places : Certain(k) => RuleAt(k) \in none
        /\ redeemed' \in Nat /\ live' \in Nat /\ spent' \in Nat /\ cut' \in BOOLEAN
        /\ spent' = spent \/ (spent' = spent + 1 /\ r = Clean /\ blanked = {})
        /\ r # Unfinished => cut' = cut
        /\ r > 0 \/ r = Clean \/ r = Unfinished
    BY <1>f, <1>t, EvaluatesFacts
  <2> QED BY <1>e, <2>1
<1>p. Places' = Places /\ Doubtful' = Doubtful /\ CertainDeny' = CertainDeny /\ (Grantable <=> Grantable')
      /\ \A k, g : Mode(k, g)' = Mode(k, g)
  BY <1>3 DEF Places, Doubtful, CertainDeny, Grantable, Mode, Repeated, RuleAt, Certain
<1>5. CASE r > 0 /\ Mode(r, blanked) # "deny"
  <2>1. /\ best' = r /\ latest' = r /\ doubted' = Noted(r, blanked) /\ step' = "rounds" /\ answer' = answer
        /\ UNCHANGED <<blanked, granted, rounds, stack>> /\ cut' = FALSE /\ spent' = spent
    BY <1>1, <1>3, <1>4, <1>5 DEF Goto, Unfinished
  <2>2. r \in Places /\ r \notin blanked /\ Mode(r, {}) # "deny"
    BY <1>4, <1>5, <1>t, ModeStable DEF OnlyDoubted
  <2>3. Noted(r, blanked) \subseteq Doubtful /\ (policy[RuleAt(r)] = "deny" => r \in Noted(r, blanked))
    BY <1>5, <1>t, <2>2, NotedFacts DEF OnlyDoubted
  <2>4. TypeOK'
    BY <1>3, <1>4, <1>p, <1>t, <2>1, <2>2, <2>3, PlaceFacts DEF TypeOK, Doubtful, Places, Results
  <2>5. OnlyDoubted'
    BY <1>t, <1>p, <2>1, <2>3 DEF OnlyDoubted
  <2>6. GrantsNoted'
    BY <1>3, <1>t, <1>p, <2>1, <2>2, <2>3 DEF GrantsNoted, RuleAt
  <2>7. NoEscape' /\ CutEnds'
    BY <2>1 DEF NoEscape, CutEnds
  <2>8. CodeEnds'
    BY <1>2, <1>3, <1>t, <2>1 DEF CodeEnds
  <2> QED BY <2>4, <2>5, <2>6, <2>7, <2>8 DEF MaskInv
<1>6. CASE ~(r > 0 /\ Mode(r, blanked) # "deny")
  <2>1. step' = "return" /\ answer' = r /\ UNCHANGED <<blanked, granted, best, latest, doubted, rounds, stack>>
    BY <1>1, <1>6 DEF Return, level
  <2>2. TypeOK'
    BY <1>3, <1>4, <1>p, <1>t, <2>1 DEF TypeOK, Places, Results
  <2>3. OnlyDoubted' /\ GrantsNoted'
    BY <1>t, <1>p, <2>1 DEF OnlyDoubted, GrantsNoted
  <2>4. NoEscape'
    <3>1. SUFFICES ASSUME Grantable, spent' = 0, CertainDeny # {}
                   PROVE Stops(r)'
      BY <1>p, <2>1 DEF NoEscape
    <3>2. spent' = spent
      BY <1>4, <1>t, <3>1 DEF TypeOK
    <3>3. r # Clean
      BY <1>4, <3>1, <3>2 DEF CertainDeny
    <3>4. r = Unfinished \/ (r \in Places /\ Mode(r, blanked) = "deny")
      BY <1>4, <1>6, <3>3
    <3> QED BY <1>p, <1>t, <3>4, ModeStable DEF Stops, OnlyDoubted
  <2>5. CodeEnds'
    BY <1>2, <1>4, <2>1 DEF CodeEnds
  <2>6. CutEnds'
    BY <1>3, <1>4, <2>1 DEF CutEnds
  <2> QED BY <2>2, <2>3, <2>4, <2>5, <2>6 DEF MaskInv
<1> QED BY <1>5, <1>6

LEMMA EndRoundsInv == MaskInv /\ EndRounds => MaskInv'
<1> SUFFICES ASSUME MaskInv, EndRounds PROVE MaskInv'
  OBVIOUS
<1>t. TypeOK /\ OnlyDoubted /\ GrantsNoted /\ NoEscape /\ CodeEnds /\ CutEnds
  BY DEF MaskInv
<1>1. step = "rounds" /\ UNCHANGED <<line, policy, blanked, granted, best, latest, doubted, rounds, stack,
                                       redeemed, live, spent, cut>>
  BY DEF EndRounds, input, level, codes
<1>p. Places' = Places /\ Doubtful' = Doubtful /\ CertainDeny' = CertainDeny /\ (Grantable <=> Grantable')
      /\ \A k, g : Mode(k, g)' = Mode(k, g)
  BY <1>1 DEF Places, Doubtful, CertainDeny, Grantable, Mode, Repeated, RuleAt, Certain
<1>2. OnlyDoubted'
  BY <1>t, <1>1, <1>p DEF OnlyDoubted
<1>3. CASE step' = "return" /\ answer' = Unfinished
  BY <1>t, <1>1, <1>2, <1>3, <1>p
     DEF MaskInv, TypeOK, Places, Results, GrantsNoted, NoEscape, Stops, CodeEnds, CutEnds
<1>4. CASE RuleAt(latest) \in granted /\ step' = "past" /\ answer' = answer
  <2>1. ~Grantable
    <3>1. latest \in Places /\ RuleAt(latest) \in Sticky /\ Mode(latest, {}) # "deny"
      BY <1>t, <1>1, <1>4 DEF TypeOK, GrantsNoted
    <3> QED BY <3>1 DEF Grantable
  <2>2. TypeOK'
    BY <1>t, <1>1, <1>4 DEF TypeOK, Places, Results
  <2>3. GrantsNoted'
    BY <1>t, <1>1, <1>4, <1>p DEF GrantsNoted, RuleAt
  <2> QED BY <1>t, <1>1, <1>2, <1>4, <1>p, <2>1, <2>2, <2>3 DEF MaskInv, NoEscape, CodeEnds, CutEnds
<1> QED BY <1>3, <1>4 DEF EndRounds, Return, Goto

LEMMA RoundInv == MaskInv /\ Round => MaskInv'
<1> SUFFICES ASSUME MaskInv, Round PROVE MaskInv'
  OBVIOUS
<1>t. TypeOK /\ OnlyDoubted /\ GrantsNoted /\ NoEscape /\ CodeEnds /\ CutEnds
  BY DEF MaskInv
<1>1. /\ step = "rounds" /\ rounds < MaxRounds /\ RuleAt(latest) \notin granted
      /\ granted' = granted \cup {RuleAt(latest)}
      /\ UNCHANGED <<line, policy, blanked, stack>> /\ cut = FALSE
  BY <1>t DEF Round, input, CutEnds, TypeOK
<1>2. PICK r \in Results :
        /\ Evaluates(r, granted')
        /\ \/ r = Clean /\ Goto("past") /\ UNCHANGED <<best, latest, doubted, rounds>>
           \/ r = Unfinished /\ Return(r) /\ UNCHANGED <<best, latest, doubted, rounds>>
           \/ /\ r > 0 /\ Mode(r, blanked) = "deny"
              /\ Return(r) /\ UNCHANGED <<best, latest, doubted, rounds>>
           \/ /\ r > 0 /\ Mode(r, blanked) # "deny"
              /\ doubted' = doubted \cup Noted(r, blanked)
              /\ best' = IF RankOf(r, blanked) > RankOf(best, blanked) THEN r ELSE best
              /\ latest' = r /\ rounds' = rounds + 1 /\ Goto("rounds")
  BY DEF Round
<1>p. Places' = Places /\ Doubtful' = Doubtful /\ CertainDeny' = CertainDeny /\ (Grantable <=> Grantable')
      /\ \A k, g : Mode(k, g)' = Mode(k, g)
  BY <1>1 DEF Places, Doubtful, CertainDeny, Grantable, Mode, Repeated, RuleAt, Certain
<1>l. latest \in Places /\ best \in Places
  BY <1>t, <1>1 DEF TypeOK
<1>g. granted' \subseteq Rules
  BY <1>t, <1>1, <1>l, PlaceFacts DEF TypeOK
<1>3. /\ r > 0 => r \in Places \ blanked /\ (RuleAt(r) \notin granted' \/ RuleAt(r) \in Sticky)
      /\ r = Clean /\ spent' = spent => \A k \in Places : Certain(k) => RuleAt(k) \in granted'
      /\ redeemed' \in Nat /\ live' \in Nat /\ spent' \in Nat /\ cut' \in BOOLEAN
      /\ spent' = spent \/ (spent' = spent + 1 /\ r = Clean /\ blanked = {})
      /\ r # Unfinished => cut' = cut
      /\ r > 0 => r \in Places /\ spent' = spent
  BY <1>2, <1>t, EvaluatesFacts
<1>4. spent = 0 \/ (spent = 1 /\ blanked # {})
  BY <1>t, <1>1 DEF CodeEnds
<1>5. CASE r = Clean /\ Goto("past") /\ UNCHANGED <<best, latest, doubted, rounds>>
  <2>1. step' = "past" /\ answer' = answer /\ UNCHANGED <<best, latest, doubted, rounds>> /\ r # Unfinished /\ r = Clean
    BY <1>5 DEF Goto, Unfinished, Clean
  <2>2. TypeOK'
    BY <1>t, <1>1, <1>3, <1>g, <1>l, <2>1 DEF TypeOK, Places, Results
  <2>3. OnlyDoubted'
    BY <1>t, <1>1, <1>p, <2>1 DEF OnlyDoubted
  <2>4. GrantsNoted'
    BY <1>t, <1>1, <1>p, <2>1 DEF GrantsNoted, RuleAt
  <2>5. NoEscape'
    <3>1. SUFFICES ASSUME Grantable, spent' = 0, CertainDeny # {} PROVE ~(doubted \subseteq blanked)
      BY <1>1, <1>p, <2>1 DEF NoEscape
    <3>2. spent' = spent
      BY <1>3, <1>t, <3>1 DEF TypeOK
    <3>3. PICK c \in CertainDeny : TRUE
      BY <3>1
    <3>4. RuleAt(c) \in granted \cup {RuleAt(latest)} /\ policy[RuleAt(c)] = "deny"
      BY <1>1, <1>3, <2>1, <3>2 DEF CertainDeny
    <3> QED BY <1>t, <1>1, <3>4 DEF GrantsNoted
  <2>6. CodeEnds' /\ CutEnds'
    BY <1>t, <1>1, <1>3, <1>4, <2>1 DEF CodeEnds, CutEnds
  <2> QED BY <2>2, <2>3, <2>4, <2>5, <2>6 DEF MaskInv
<1>6. CASE /\ Return(r) /\ UNCHANGED <<best, latest, doubted, rounds>>
           /\ r = Unfinished \/ (r > 0 /\ Mode(r, blanked) = "deny")
  <2>1. step' = "return" /\ answer' = r /\ UNCHANGED <<best, latest, doubted, rounds>>
    BY <1>6 DEF Return
  <2>2. Stops(r)
    BY <1>3, <1>6, <1>t, ModeStable DEF Stops, OnlyDoubted
  <2>3. TypeOK'
    BY <1>t, <1>1, <1>3, <1>g, <1>l, <2>1 DEF TypeOK, Places, Results
  <2>4. OnlyDoubted' /\ GrantsNoted'
    BY <1>t, <1>1, <1>p, <2>1 DEF OnlyDoubted, GrantsNoted
  <2>5. NoEscape'
    BY <1>p, <2>1, <2>2 DEF NoEscape, Stops
  <2>6. CodeEnds'
    BY <1>t, <1>1, <1>3, <1>4, <2>1 DEF CodeEnds
  <2>7. CutEnds'
    BY <1>1, <1>3, <2>1 DEF CutEnds
  <2> QED BY <2>3, <2>4, <2>5, <2>6, <2>7 DEF MaskInv
<1>7. CASE /\ r > 0 /\ Mode(r, blanked) # "deny"
           /\ doubted' = doubted \cup Noted(r, blanked)
           /\ best' = IF RankOf(r, blanked) > RankOf(best, blanked) THEN r ELSE best
           /\ latest' = r /\ rounds' = rounds + 1 /\ Goto("rounds")
  <2>1. /\ step' = "rounds" /\ answer' = answer /\ latest' = r /\ rounds' = rounds + 1
        /\ doubted' = doubted \cup Noted(r, blanked) /\ (best' = r \/ best' = best) /\ cut' = FALSE
        /\ spent' = spent
    BY <1>1, <1>3, <1>7 DEF Goto, Unfinished
  <2>2. r \in Places /\ r \notin blanked /\ Mode(r, {}) # "deny"
    BY <1>3, <1>7, <1>t, ModeStable DEF OnlyDoubted
  <2>3. Noted(r, blanked) \subseteq Doubtful /\ (policy[RuleAt(r)] = "deny" => r \in Noted(r, blanked))
    BY <1>7, <1>t, <2>2, NotedFacts DEF OnlyDoubted
  <2>4. TypeOK'
    BY <1>t, <1>1, <1>3, <1>g, <1>l, <2>1, <2>2, <2>3, PlaceFacts, LimitsAssumption
       DEF TypeOK, Places, Results, Doubtful
  <2>5. OnlyDoubted'
    BY <1>t, <1>1, <1>p, <2>1, <2>3 DEF OnlyDoubted
  <2>6. GrantsNoted'
    BY <1>t, <1>1, <1>3, <1>7, <1>p, <2>1, <2>2, <2>3 DEF GrantsNoted, RuleAt
  <2>7. NoEscape' /\ CodeEnds' /\ CutEnds'
    BY <1>t, <1>1, <1>4, <2>1 DEF NoEscape, CodeEnds, CutEnds
  <2> QED BY <2>4, <2>5, <2>6, <2>7 DEF MaskInv
<1> QED BY <1>2, <1>5, <1>6, <1>7

LEMMA LookPastInv == MaskInv /\ LookPast => MaskInv'
<1> SUFFICES ASSUME MaskInv, LookPast PROVE MaskInv'
  OBVIOUS
<1>t. TypeOK /\ OnlyDoubted /\ GrantsNoted /\ NoEscape /\ CodeEnds /\ CutEnds
  BY DEF MaskInv
<1>1. step = "past" /\ UNCHANGED <<line, policy, redeemed, live, spent, cut>> /\ cut = FALSE
  BY <1>t DEF LookPast, input, codes, CutEnds, TypeOK
<1>2. best \in Places
  BY <1>t, <1>1 DEF TypeOK
<1>p. Places' = Places /\ Doubtful' = Doubtful /\ CertainDeny' = CertainDeny /\ (Grantable <=> Grantable')
      /\ \A k, g : Mode(k, g)' = Mode(k, g)
  BY <1>1 DEF Places, Doubtful, CertainDeny, Grantable, Mode, Repeated, RuleAt, Certain
<1>3. CASE step' = "return" /\ UNCHANGED level /\ (answer' = Unfinished \/ (answer' = best /\ doubted \subseteq blanked))
  <2>1. UNCHANGED <<blanked, granted, best, latest, doubted, rounds, stack>>
    BY <1>3 DEF level
  <2>2. TypeOK'
    BY <1>t, <1>1, <1>2, <1>3, <2>1 DEF TypeOK, Places, Results
  <2>3. OnlyDoubted' /\ GrantsNoted'
    BY <1>t, <1>p, <1>3, <2>1 DEF OnlyDoubted, GrantsNoted
  <2>4. NoEscape'
    BY <1>t, <1>1, <1>3, <1>p DEF NoEscape, Stops
  <2>5. CodeEnds' /\ CutEnds'
    BY <1>t, <1>1, <1>3, <2>1 DEF CodeEnds, CutEnds
  <2> QED BY <2>2, <2>3, <2>4, <2>5 DEF MaskInv
<1>4. CASE /\ ~(doubted \subseteq blanked) /\ ~TooDeep(Len(stack))
           /\ stack' = Append(stack, [best |-> best, blanked |-> blanked])
           /\ blanked' = blanked \cup doubted
           /\ granted' = {} /\ best' = 0 /\ latest' = 0 /\ doubted' = {} /\ rounds' = 0
           /\ Goto("first")
  <2>1. step' = "first" /\ answer' = answer
    BY <1>4 DEF Goto
  <2>2. [best |-> best, blanked |-> blanked] \in Levels
    BY <1>t, <1>2 DEF Levels, TypeOK
  <2>3. stack \in Seq(Levels) /\ Len(stack) \in Nat /\ Len(stack) < MaxDepth
    BY <1>4, <1>t, LimitsAssumption DEF TypeOK, Levels, TooDeep
  <2>4. stack' \in Seq(Levels) /\ Len(stack') = Len(stack) + 1 /\ Len(stack') <= MaxDepth
        /\ \A i \in DOMAIN stack' : (i \in DOMAIN stack /\ stack'[i] = stack[i])
                                    \/ stack'[i] = [best |-> best, blanked |-> blanked]
    BY <1>4, <2>2, <2>3, LimitsAssumption
  <2>5. TypeOK'
    BY <1>t, <1>1, <1>4, <1>p, <2>1, <2>4, LimitsAssumption DEF TypeOK, Levels, Results
  <2>6. OnlyDoubted'
    BY <1>t, <1>1, <1>4, <1>p, <2>4 DEF OnlyDoubted, GrantsNoted
  <2>7. GrantsNoted' /\ NoEscape' /\ CutEnds'
    BY <1>1, <1>4, <2>1 DEF GrantsNoted, NoEscape, CutEnds
  <2>8. CodeEnds'
    BY <1>t, <1>1, <1>4, <2>1 DEF CodeEnds
  <2> QED BY <2>5, <2>6, <2>7, <2>8 DEF MaskInv
<1> QED BY <1>3, <1>4 DEF LookPast, Return

\* What the levels outside this one are, for Unwind.
LEMMA OuterFacts ==
    ASSUME MaskInv, stack # <<>>
    PROVE  /\ stack \in Seq(Levels) /\ Len(stack) \in DOMAIN stack
           /\ Outer.best \in Places /\ Outer.blanked \subseteq Doubtful /\ Mode(Outer.best, {}) # "deny"
           /\ \A s : s = SubSeq(stack, 1, Len(stack) - 1) =>
                /\ Len(s) = Len(stack) - 1 /\ DOMAIN s = 1..(Len(stack) - 1)
                /\ \A i \in DOMAIN s : i \in DOMAIN stack /\ s[i] = stack[i]
                /\ IF s = <<>> THEN Outer = stack[1] ELSE s[1] = stack[1]
<1>1. stack \in Seq(Levels) /\ Len(stack) \in Nat /\ Len(stack) >= 1 /\ DOMAIN stack = 1..Len(stack)
  BY DEF MaskInv, TypeOK, Levels
<1>2. Len(stack) \in DOMAIN stack /\ Outer \in Levels
  BY <1>1 DEF Outer
<1>3. Outer.best \in Places /\ Outer.blanked \subseteq Doubtful /\ Mode(Outer.best, {}) # "deny"
  BY <1>2 DEF MaskInv, Levels, OnlyDoubted, Outer
<1>4. ASSUME NEW s, s = SubSeq(stack, 1, Len(stack) - 1)
      PROVE /\ Len(s) = Len(stack) - 1 /\ DOMAIN s = 1..(Len(stack) - 1)
            /\ \A i \in DOMAIN s : i \in DOMAIN stack /\ s[i] = stack[i]
            /\ IF s = <<>> THEN Outer = stack[1] ELSE s[1] = stack[1]
  <2>1. s = [i \in 1..(Len(stack) - 1) |-> stack[i]]
    BY <1>1, <1>4
  <2>2. Len(s) = Len(stack) - 1 /\ s \in Seq(Levels)
    BY <1>1, <1>4
  <2>3. s = <<>> <=> Len(stack) = 1
    BY <1>1, <2>2
  <2> QED BY <1>1, <2>1, <2>2, <2>3 DEF Outer
<1>5. stack \in Seq(Levels) /\ Len(stack) \in DOMAIN stack
  BY <1>1
<1> HIDE DEF Outer
<1> QED BY <1>2, <1>3, <1>4, <1>5, Zenon

\* A level that was stopped stops the levels outside it.
LEMMA UnwindStops ==
    ASSUME MaskInv, stack # <<>>, Stops(answer)
    PROVE  Stops(AnswerOfBoth)
<1>t. TypeOK /\ OnlyDoubted
  BY DEF MaskInv
<1>1. Outer.best \in Places /\ Outer.blanked \subseteq Doubtful /\ Mode(Outer.best, {}) # "deny"
  BY OuterFacts
<1>2. CASE answer = Unfinished
  BY <1>2 DEF Stops, AnswerOfBoth
<1>3. CASE answer \in Places /\ Mode(answer, {}) = "deny"
  <2>1. answer > 0 /\ answer # Unfinished
    BY <1>t, <1>3, PlaceFacts
  <2>2. Mode(answer, blanked) = Mode(answer, {})
    BY <1>t, <1>3, ModeStable DEF OnlyDoubted
  <2>3. Mode(Outer.best, Outer.blanked) = Mode(Outer.best, {})
    BY <1>t, <1>1, ModeStable
  <2>4. RankOf(answer, blanked) > RankOf(Outer.best, Outer.blanked)
    BY <1>t, <1>1, <1>3, <2>2, <2>3, DenyOutranks DEF RankOf
  <2> QED BY <1>3, <2>1, <2>4 DEF AnswerOfBoth, Stops
<1> QED BY <1>2, <1>3 DEF Stops

LEMMA UnwindInv == MaskInv /\ Unwind => MaskInv'
<1> SUFFICES ASSUME MaskInv, Unwind PROVE MaskInv'
  OBVIOUS
<1>t. TypeOK /\ OnlyDoubted /\ GrantsNoted /\ NoEscape /\ CodeEnds /\ CutEnds
  BY DEF MaskInv
<1>1. /\ step = "return" /\ stack # <<>> /\ step' = step
      /\ answer' = AnswerOfBoth /\ blanked' = Outer.blanked
      /\ stack' = SubSeq(stack, 1, Len(stack) - 1)
      /\ UNCHANGED <<line, policy, granted, best, latest, doubted, rounds, redeemed, live, spent, cut>>
  BY DEF Unwind, input, codes
<1>p. Places' = Places /\ Doubtful' = Doubtful /\ CertainDeny' = CertainDeny /\ (Grantable <=> Grantable')
      /\ \A k, g : Mode(k, g)' = Mode(k, g)
  BY <1>1 DEF Places, Doubtful, CertainDeny, Grantable, Mode, Repeated, RuleAt, Certain
<1>2. stack \in Seq(Levels) /\ Len(stack) \in Nat /\ Len(stack) >= 1 /\ Len(stack) <= MaxDepth
  BY <1>t, <1>1 DEF TypeOK, Levels
<1>3. Len(stack) \in DOMAIN stack /\ Outer \in Levels
  BY <1>2 DEF Outer
<1>4. Outer.best \in Places /\ Outer.blanked \subseteq Doubtful /\ Mode(Outer.best, {}) # "deny"
      /\ Outer.blanked \subseteq Places
  BY <1>3, <1>t DEF Levels, OnlyDoubted, Outer
<1>5. /\ stack' \in Seq(Levels) /\ Len(stack') = Len(stack) - 1
      /\ \A i \in DOMAIN stack' : i \in DOMAIN stack /\ stack'[i] = stack[i]
  <2>1. Len(stack) - 1 \in 0..Len(stack) /\ DOMAIN stack = 1..Len(stack)
    BY <1>2
  <2>2. \A i \in 1..(Len(stack) - 1) : stack[i] \in Levels
    BY <1>2
  <2>3. stack' = [i \in 1..(Len(stack) - 1) |-> stack[i]]
    BY <1>1, <1>2
  <2> QED BY <2>1, <2>2, <2>3
<1>6. answer' \in Results /\ (answer = Unfinished => answer' = Unfinished)
      /\ (answer' = answer \/ answer' = Outer.best)
  BY <1>1, <1>4, <1>t DEF AnswerOfBoth, TypeOK, Results
<1>7. TypeOK'
  BY <1>t, <1>1, <1>2, <1>4, <1>5, <1>6, <1>p, LimitsAssumption DEF TypeOK, Levels, Results
<1>8. OnlyDoubted' /\ GrantsNoted'
  BY <1>t, <1>1, <1>4, <1>5, <1>p DEF OnlyDoubted, GrantsNoted
<1>9. Stops(answer) => Stops(answer')
  BY <1>1, UnwindStops
<1>10. NoEscape'
  BY <1>t, <1>1, <1>9, <1>p DEF NoEscape, Stops
<1>11. CodeEnds' /\ CutEnds'
  BY <1>t, <1>1, <1>6 DEF CodeEnds, CutEnds
<1> QED BY <1>7, <1>8, <1>10, <1>11 DEF MaskInv

LEMMA FinishInv == MaskInv /\ Finish => MaskInv'
<1> SUFFICES ASSUME MaskInv, Finish PROVE MaskInv'
  OBVIOUS
<1>1. /\ step = "return" /\ stack = <<>> /\ step' = "done" /\ granted' = {} /\ best' = 0 /\ latest' = 0
      /\ doubted' = {} /\ rounds' = 0
      /\ UNCHANGED <<line, policy, blanked, stack, answer, redeemed, live, spent, cut>>
  BY DEF Finish, input, codes
<1>p. Places' = Places /\ Doubtful' = Doubtful /\ CertainDeny' = CertainDeny /\ (Grantable <=> Grantable')
      /\ \A k, g : Mode(k, g)' = Mode(k, g)
  BY <1>1 DEF Places, Doubtful, CertainDeny, Grantable, Mode, Repeated, RuleAt, Certain
<1>2. TypeOK'
  BY <1>1, <1>p, LimitsAssumption DEF MaskInv, TypeOK, Results
<1>3. OnlyDoubted' /\ GrantsNoted'
  BY <1>1, <1>p DEF MaskInv, OnlyDoubted, GrantsNoted
<1>4. NoEscape' /\ CodeEnds' /\ CutEnds'
  BY <1>1, <1>p DEF MaskInv, NoEscape, CodeEnds, CutEnds, Stops
<1> QED BY <1>2, <1>3, <1>4 DEF MaskInv

LEMMA MaskInvStep == MaskInv /\ [Next]_vars => MaskInv'
<1> SUFFICES ASSUME MaskInv, [Next]_vars PROVE MaskInv'
  OBVIOUS
<1>1. CASE Redeem \/ UNCHANGED vars
  <2>1. /\ UNCHANGED <<line, policy, blanked, granted, best, latest, doubted, rounds, stack, step, answer, spent, cut>>
        /\ redeemed' \in Nat /\ live' \in Nat
    BY <1>1 DEF Redeem, vars, input, level, MaskInv, TypeOK
  <2>p. Places' = Places /\ Doubtful' = Doubtful /\ CertainDeny' = CertainDeny /\ (Grantable <=> Grantable')
        /\ \A k, g : Mode(k, g)' = Mode(k, g)
    BY <2>1 DEF Places, Doubtful, CertainDeny, Grantable, Mode, Repeated, RuleAt, Certain
  <2>2. TypeOK'
    BY <2>1, <2>p DEF MaskInv, TypeOK, Results
  <2>3. OnlyDoubted' /\ GrantsNoted'
    BY <2>1, <2>p DEF MaskInv, OnlyDoubted, GrantsNoted, RuleAt
  <2>4. NoEscape' /\ CodeEnds' /\ CutEnds'
    BY <2>1, <2>p DEF MaskInv, NoEscape, CodeEnds, CutEnds, Stops
  <2> QED BY <2>2, <2>3, <2>4 DEF MaskInv
<1> QED BY <1>1, BeginInv, EndRoundsInv, RoundInv, LookPastInv, UnwindInv, FinishInv DEF Next

\* A line runs, or is put up for review, without a code only when no certain use on
\* it is denied, whatever the policy, the order of the findings, the doubt about
\* some of them and the limits (evaluator.rs:32733-32935).
THEOREM NoCertainDenyMasked == Spec => []NothingMasked
<1>1. MaskInv => NothingMasked
  BY PlaceFacts DEF MaskInv, NothingMasked, NoEscape, Stops, Done, Verdict, CertainDeny
<1> QED BY MaskInvInit, MaskInvStep, <1>1, PTL DEF Spec

\* An evaluation that ran out of time leaves the line unfinished, in whichever round
\* and at whichever level it ran (evaluator.rs:32820-32823 and 32916-32918).
THEOREM CutShort == Spec => []CutShortIsUnfinished
<1>1. MaskInv => CutShortIsUnfinished
  BY DEF MaskInv, CutEnds, CutShortIsUnfinished
<1> QED BY MaskInvInit, MaskInvStep, <1>1, PTL DEF Spec

\* However often a line is evaluated, and however many codes are redeemed for it
\* meanwhile, it uses up one code at most (evaluator.rs:14072, 32733-32935).
THEOREM OneCode == Spec => []OneCodeSpent
<1>1. MaskInv => OneCodeSpent
  BY DEF MaskInv, CodeEnds, OneCodeSpent
<1> QED BY MaskInvInit, MaskInvStep, <1>1, PTL DEF Spec

\* Every variable keeps its type, and the limits on rounds and levels are kept.
THEOREM RoundsTypeCorrect == Spec => []TypeOK
<1>1. MaskInv => TypeOK
  BY DEF MaskInv
<1> QED BY MaskInvInit, MaskInvStep, <1>1, PTL DEF Spec

--------------------------------------------------------------------------------
(* The strictest finding, the first of several                             *)

\* Findings that bear on the verdict and let the line run; b is as strict as k,
\* and stricter than a k before it.
Matters == {k \in Places : line[k].kind # "data" /\ Mode(k, {}) # "deny"}
Dominated(k, b) == RankOf(k, {}) <= RankOf(b, {}) /\ (k < b => RankOf(k, {}) < RankOf(b, {}))
Tops(b, gone) == \A k \in Matters \ gone : b \in Places /\ Dominated(k, b)

\* The best of a level dominates what was reported or stands for it, and comes
\* before what was not; once the level is through, it dominates all that is not
\* blanked out.
TopInv ==
    /\ IF stack = <<>> THEN blanked = {} ELSE stack[1].blanked = {}
    /\ step = "done" => stack = <<>>
    /\ Grantable /\ spent = 0 =>
        /\ step \in {"rounds", "past"} =>
               \A k \in Matters \ blanked :
                   IF RuleAt(k) \in granted \cup {RuleAt(latest)} THEN Dominated(k, best) ELSE best <= k
        /\ step = "past" => Tops(best, blanked)
        /\ \A i \in DOMAIN stack : Tops(stack[i].best, stack[i].blanked)
        /\ step \in {"return", "done"} => Stops(answer) \/ Tops(answer, blanked)

\* What an evaluation reports comes before everything it might have reported.
LEMMA EvaluatesFirst ==
    ASSUME TypeOK, NEW given, NEW r \in Results, Evaluates(r, given)
    PROVE  /\ r > 0 => \A k \in Places \ blanked : line[k].kind # "data" /\ RuleAt(k) \notin given => r <= k
           /\ r = Clean /\ spent' = spent =>
                \A k \in Places \ blanked : line[k].kind # "data" => RuleAt(k) \in given
<1>1. Unfinished # Clean /\ ~(Unfinished > 0) /\ ~(Clean > 0) /\ spent \in Nat
  BY DEF Unfinished, Clean, TypeOK
<1>2. CASE r = Unfinished \/ spent' = spent + 1
  BY <1>1, <1>2 DEF Evaluates, codes
<1>3. CASE /\ ~Covered /\ UNCHANGED <<codes, cut>>
           /\ \E cleared \in SUBSET {k \in Places : line[k].kind = "data"} :
                  IsFirst(r, Reportable(cleared, given))
  <2>1. PICK cleared \in SUBSET {k \in Places : line[k].kind = "data"} :
               IsFirst(r, Reportable(cleared, given))
    BY <1>3
  <2>2. \A k \in Places \ blanked : line[k].kind # "data" /\ RuleAt(k) \notin given =>
            k \in Reportable(cleared, given)
    BY DEF Reportable
  <2>3. \A k \in Reportable(cleared, given) : k # Clean
    BY PlaceFacts DEF Reportable
  <2> QED BY <1>1, <2>1, <2>2, <2>3 DEF IsFirst
<1> QED BY <1>2, <1>3 DEF Evaluates

\* Ranks are numbers; what is let run of one rule is let run in one way.
LEMMA RankFacts ==
    ASSUME TypeOK, NEW k \in Places
    PROVE  RankOf(k, {}) \in 1..4 /\ (Mode(k, {}) = "deny" => RankOf(k, {}) = 4)
<1>1. policy[RuleAt(k)] \in DOMAIN Rank
  BY PlaceFacts, RulesAssumption
<1>2. Mode(k, {}) \in {"deny", "ask", "warn", "log"}
  BY <1>1 DEF Mode, Rank
<1> QED BY <1>2 DEF RankOf, Rank

LEMMA SameRank ==
    ASSUME TypeOK, NEW k \in Matters, NEW r \in Places, Mode(r, {}) # "deny", RuleAt(k) = RuleAt(r)
    PROVE  RankOf(k, {}) = RankOf(r, {})
BY DEF Matters, RankOf, Mode

\* Nothing that is said of the findings changes with them.
LEMMA FindingsStay ==
    ASSUME UNCHANGED <<line, policy>>
    PROVE  /\ Places' = Places /\ Matters' = Matters /\ Doubtful' = Doubtful /\ (Grantable <=> Grantable')
           /\ \A k, g : Mode(k, g)' = Mode(k, g)
           /\ \A k, g : RankOf(k, g)' = RankOf(k, g)
           /\ \A k, b : Dominated(k, b)' <=> Dominated(k, b)
           /\ \A b, g : Tops(b, g)' <=> Tops(b, g)
           /\ \A k : RuleAt(k)' = RuleAt(k)
           /\ \A a : Stops(a)' <=> Stops(a)
<1>1. Places' = Places /\ (\A k, g : Mode(k, g)' = Mode(k, g)) /\ (\A k : RuleAt(k)' = RuleAt(k))
  BY DEF Places, Mode, Repeated, RuleAt
<1>2. Matters' = Matters /\ Doubtful' = Doubtful /\ (Grantable <=> Grantable')
  BY <1>1 DEF Matters, Doubtful, Grantable
<1>3. \A k, g : RankOf(k, g)' = RankOf(k, g)
  BY <1>1 DEF RankOf
<1>4. \A k, b : Dominated(k, b)' <=> Dominated(k, b)
  BY <1>3 DEF Dominated
<1>5. \A b, g : Tops(b, g)' <=> Tops(b, g)
  BY <1>1, <1>2, <1>4 DEF Tops
<1>6. \A a : Stops(a)' <=> Stops(a)
  BY <1>1 DEF Stops
<1> QED BY <1>1, <1>2, <1>3, <1>4, <1>5, <1>6

LEMMA TopBegin == MaskInv /\ TopInv /\ Begin => TopInv'
<1> SUFFICES ASSUME MaskInv, TopInv, Begin PROVE TopInv'
  OBVIOUS
<1>t. TypeOK /\ OnlyDoubted /\ GrantsNoted
  BY DEF MaskInv
<1>1. step = "first" /\ granted = {} /\ UNCHANGED <<line, policy>>
  BY <1>t DEF Begin, input, GrantsNoted
<1>e. PICK none : none = {}
  OBVIOUS
<1>2. PICK r \in Results :
        /\ Evaluates(r, none)
        /\ IF r > 0 /\ Mode(r, blanked) # "deny"
           THEN /\ best' = r /\ latest' = r /\ doubted' = Noted(r, blanked) /\ Goto("rounds")
                /\ UNCHANGED <<blanked, granted, rounds, stack>>
           ELSE Return(r) /\ UNCHANGED level
  BY <1>e DEF Begin
<1>p. /\ Matters' = Matters /\ (Grantable <=> Grantable')
      /\ \A k, b : Dominated(k, b)' <=> Dominated(k, b)
      /\ \A b, g : Tops(b, g)' <=> Tops(b, g)
      /\ \A k : RuleAt(k)' = RuleAt(k)
      /\ \A a : Stops(a)' <=> Stops(a)
  BY <1>1, FindingsStay
<1>3. /\ r > 0 => r \in Places /\ spent' = spent
      /\ r > 0 \/ r = Clean \/ r = Unfinished
      /\ spent' \in Nat /\ (spent' = spent \/ spent' = spent + 1)
  BY <1>2, <1>t, EvaluatesFacts
<1>4. /\ r > 0 => \A k \in Matters \ blanked : r <= k
      /\ r = Clean /\ spent' = spent => Matters \ blanked = {}
  <2>1. /\ r > 0 => \A k \in Places \ blanked : line[k].kind # "data" /\ RuleAt(k) \notin none => r <= k
        /\ r = Clean /\ spent' = spent =>
             \A k \in Places \ blanked : line[k].kind # "data" => RuleAt(k) \in none
    BY <1>2, <1>t, EvaluatesFirst
  <2> QED BY <1>e, <2>1 DEF Matters
<1>5. UNCHANGED <<blanked, granted, stack>>
  BY <1>2 DEF level
<1>6. spent' = 0 => spent = 0
  BY <1>3, <1>t DEF TypeOK
<1>7. CASE r > 0 /\ Mode(r, blanked) # "deny"
  <2>1. step' = "rounds" /\ best' = r /\ latest' = r
    BY <1>2, <1>7 DEF Goto
  <2>2. r \in Places /\ Mode(r, {}) # "deny"
    BY <1>3, <1>7, <1>t, ModeStable DEF OnlyDoubted
  <2>3. \A k \in Matters \ blanked : IF RuleAt(k) \in {RuleAt(r)} THEN Dominated(k, r) ELSE r <= k
    <3> SUFFICES ASSUME NEW k \in Matters \ blanked
                 PROVE IF RuleAt(k) \in {RuleAt(r)} THEN Dominated(k, r) ELSE r <= k
      OBVIOUS
    <3>1. r <= k /\ r \in Int /\ k \in Int
      BY <1>4, <1>7, <1>t, <2>2, PlaceFacts DEF Matters
    <3>2. RuleAt(k) = RuleAt(r) => RankOf(k, {}) = RankOf(r, {})
      BY <1>t, <2>2, SameRank
    <3>3. RankOf(r, {}) \in 1..4
      BY <1>t, <2>2, RankFacts
    <3> QED BY <3>1, <3>2, <3>3 DEF Dominated
  <2> QED BY <1>1, <1>5, <1>6, <1>p, <2>1, <2>3 DEF TopInv
<1>8. CASE ~(r > 0 /\ Mode(r, blanked) # "deny")
  <2>1. step' = "return" /\ answer' = r
    BY <1>2, <1>8 DEF Return
  <2>2. spent' = 0 => Stops(r) \/ Tops(r, blanked)
    <3>1. CASE r = Clean /\ spent' = 0
      BY <1>3, <1>4, <1>6, <1>t, <3>1 DEF Tops, TypeOK
    <3>2. CASE r = Unfinished
      BY <3>2 DEF Stops
    <3>3. CASE r > 0
      BY <1>3, <1>8, <1>t, <3>3, ModeStable DEF Stops, OnlyDoubted
    <3> QED BY <1>3, <3>1, <3>2, <3>3
  <2> QED BY <1>1, <1>5, <1>6, <1>p, <2>1, <2>2 DEF TopInv
<1> QED BY <1>7, <1>8

LEMMA TopEndRounds == MaskInv /\ TopInv /\ EndRounds => TopInv'
<1> SUFFICES ASSUME MaskInv, TopInv, EndRounds PROVE TopInv'
  OBVIOUS
<1>t. TypeOK /\ OnlyDoubted /\ GrantsNoted
  BY DEF MaskInv
<1>1. step = "rounds" /\ UNCHANGED <<line, policy, blanked, stack, spent>>
  BY DEF EndRounds, input, level, codes
<1>p. (Grantable <=> Grantable') /\ (\A b, g : Tops(b, g)' <=> Tops(b, g)) /\ (\A a : Stops(a)' <=> Stops(a))
  BY <1>1, FindingsStay
<1>2. CASE step' = "return" /\ answer' = Unfinished
  BY <1>1, <1>2, <1>p DEF TopInv, Stops
<1>3. CASE RuleAt(latest) \in granted /\ step' = "past"
  <2>1. latest \in Places /\ RuleAt(latest) \in Sticky /\ Mode(latest, {}) # "deny"
    BY <1>t, <1>1, <1>3 DEF TypeOK, GrantsNoted
  <2>2. ~Grantable
    BY <2>1 DEF Grantable
  <2> QED BY <1>1, <1>3, <1>p, <2>2 DEF TopInv
<1> QED BY <1>2, <1>3 DEF EndRounds, Return, Goto

LEMMA TopRound == MaskInv /\ TopInv /\ Round => TopInv'
<1> SUFFICES ASSUME MaskInv, TopInv, Round PROVE TopInv'
  OBVIOUS
<1>t. TypeOK /\ OnlyDoubted /\ GrantsNoted
  BY DEF MaskInv
<1>1. /\ step = "rounds" /\ granted' = granted \cup {RuleAt(latest)}
      /\ UNCHANGED <<line, policy, blanked, stack>>
  BY DEF Round, input
<1>2. PICK r \in Results :
        /\ Evaluates(r, granted')
        /\ \/ r = Clean /\ Goto("past") /\ UNCHANGED <<best, latest, doubted, rounds>>
           \/ r = Unfinished /\ Return(r) /\ UNCHANGED <<best, latest, doubted, rounds>>
           \/ /\ r > 0 /\ Mode(r, blanked) = "deny"
              /\ Return(r) /\ UNCHANGED <<best, latest, doubted, rounds>>
           \/ /\ r > 0 /\ Mode(r, blanked) # "deny"
              /\ doubted' = doubted \cup Noted(r, blanked)
              /\ best' = IF RankOf(r, blanked) > RankOf(best, blanked) THEN r ELSE best
              /\ latest' = r /\ rounds' = rounds + 1 /\ Goto("rounds")
  BY DEF Round
<1>p. /\ Matters' = Matters /\ (Grantable <=> Grantable')
      /\ \A k, b : Dominated(k, b)' <=> Dominated(k, b)
      /\ \A b, g : Tops(b, g)' <=> Tops(b, g)
      /\ \A k : RuleAt(k)' = RuleAt(k)
      /\ \A a : Stops(a)' <=> Stops(a)
  BY <1>1, FindingsStay
<1>3. /\ r > 0 => r \in Places /\ spent' = spent /\ (RuleAt(r) \notin granted' \/ RuleAt(r) \in Sticky)
      /\ spent' \in Nat /\ (spent' = spent \/ spent' = spent + 1)
  BY <1>2, <1>t, EvaluatesFacts
<1>4. /\ r > 0 => \A k \in Matters \ blanked : RuleAt(k) \notin granted' => r <= k
      /\ r = Clean /\ spent' = spent => \A k \in Matters \ blanked : RuleAt(k) \in granted'
  <2>1. /\ r > 0 => \A k \in Places \ blanked : line[k].kind # "data" /\ RuleAt(k) \notin granted' => r <= k
        /\ r = Clean /\ spent' = spent =>
             \A k \in Places \ blanked : line[k].kind # "data" => RuleAt(k) \in granted'
    BY <1>2, <1>t, EvaluatesFirst
  <2> QED BY <2>1 DEF Matters
<1>6. spent' = 0 => spent = 0 /\ spent' = spent
  BY <1>3, <1>t DEF TypeOK
<1>7. best \in Places /\ Mode(best, {}) # "deny"
  BY <1>1, <1>t DEF TypeOK, GrantsNoted
<1>i. Grantable /\ spent = 0 =>
        /\ \A k \in Matters \ blanked : IF RuleAt(k) \in granted' THEN Dominated(k, best) ELSE best <= k
        /\ \A i \in DOMAIN stack : Tops(stack[i].best, stack[i].blanked)
  BY <1>1 DEF TopInv
<1>s. (IF stack = <<>> THEN blanked = {} ELSE stack[1].blanked = {})
  BY DEF TopInv
<1>8. CASE r = Clean /\ Goto("past") /\ UNCHANGED <<best, latest, doubted, rounds>>
  <2>1. step' = "past" /\ best' = best /\ latest' = latest /\ granted' \cup {RuleAt(latest)} = granted'
    BY <1>1, <1>8 DEF Goto
  <2>2. Grantable /\ spent' = 0 => Tops(best, blanked)
    BY <1>4, <1>6, <1>7, <1>8, <1>i DEF Tops
  <2> QED BY <1>1, <1>6, <1>i, <1>s, <1>p, <2>1, <2>2 DEF TopInv
<1>9. CASE Return(r) /\ (r = Unfinished \/ (r > 0 /\ Mode(r, blanked) = "deny"))
  <2>1. step' = "return" /\ answer' = r
    BY <1>9 DEF Return
  <2>2. Stops(r)
    BY <1>3, <1>9, <1>t, ModeStable DEF Stops, OnlyDoubted
  <2> QED BY <1>1, <1>6, <1>i, <1>s, <1>p, <2>1, <2>2 DEF TopInv
<1>10. CASE /\ r > 0 /\ Mode(r, blanked) # "deny"
            /\ best' = IF RankOf(r, blanked) > RankOf(best, blanked) THEN r ELSE best
            /\ latest' = r /\ Goto("rounds")
  <2>1. step' = "rounds" /\ latest' = r
    BY <1>10 DEF Goto
  <2>2. r \in Places /\ Mode(r, {}) # "deny" /\ RankOf(r, blanked) = RankOf(r, {})
        /\ RankOf(best, blanked) = RankOf(best, {})
    BY <1>3, <1>7, <1>10, <1>t, ModeStable DEF OnlyDoubted, RankOf
  <2>3. best' = IF RankOf(r, {}) > RankOf(best, {}) THEN r ELSE best
    BY <1>10, <2>2
  <2>4. ASSUME Grantable, spent = 0, NEW k \in Matters \ blanked
        PROVE IF RuleAt(k) \in granted' \cup {RuleAt(r)} THEN Dominated(k, best') ELSE best' <= k
    <3>1. RuleAt(r) \notin granted'
      BY <1>3, <1>10, <2>2, <2>4 DEF Grantable
    <3>2. k \in Places /\ k \in Int /\ r \in Int /\ best \in Int
      BY <1>7, <1>t, <2>2, PlaceFacts DEF Matters
    <3>3. RankOf(k, {}) \in Int /\ RankOf(r, {}) \in Int /\ RankOf(best, {}) \in Int
      BY <1>7, <1>t, <2>2, <3>2, RankFacts
    <3>4. CASE RuleAt(k) \in granted'
      BY <1>i, <2>3, <2>4, <3>2, <3>3, <3>4 DEF Dominated
    <3>5. CASE RuleAt(k) = RuleAt(r)
      <4>1. RankOf(k, {}) = RankOf(r, {})
        BY <1>t, <2>2, <3>5, SameRank
      <4>2. r <= k /\ best <= k
        BY <1>4, <1>10, <1>i, <2>4, <3>1, <3>5
      <4>3. Dominated(k, best')
        BY <2>3, <3>2, <3>3, <4>1, <4>2 DEF Dominated
      <4> QED BY <3>5, <4>3
    <3>6. CASE RuleAt(k) \notin granted' \cup {RuleAt(r)}
      BY <1>4, <1>10, <1>i, <2>3, <2>4, <3>6
    <3> QED BY <3>4, <3>5, <3>6
  <2> QED BY <1>1, <1>6, <1>i, <1>s, <1>p, <2>1, <2>4 DEF TopInv
<1> QED BY <1>2, <1>8, <1>9, <1>10

LEMMA TopLookPast == MaskInv /\ TopInv /\ LookPast => TopInv'
<1> SUFFICES ASSUME MaskInv, TopInv, LookPast PROVE TopInv'
  OBVIOUS
<1>t. TypeOK /\ OnlyDoubted /\ GrantsNoted
  BY DEF MaskInv
<1>1. step = "past" /\ UNCHANGED <<line, policy, spent>>
  BY DEF LookPast, input, codes
<1>p. (Grantable <=> Grantable') /\ (\A b, g : Tops(b, g)' <=> Tops(b, g)) /\ (\A a : Stops(a)' <=> Stops(a))
  BY <1>1, FindingsStay
<1>i. Grantable /\ spent = 0 => Tops(best, blanked) /\ \A i \in DOMAIN stack : Tops(stack[i].best, stack[i].blanked)
  BY <1>1 DEF TopInv
<1>s. (IF stack = <<>> THEN blanked = {} ELSE stack[1].blanked = {})
  BY DEF TopInv
<1>2. CASE Return(best) /\ UNCHANGED level
  BY <1>1, <1>2, <1>i, <1>s, <1>p DEF TopInv, Return, level
<1>3. CASE Return(Unfinished) /\ UNCHANGED level
  <2>1. Stops(Unfinished)
    BY DEF Stops
  <2> QED BY <1>1, <1>3, <1>i, <1>s, <1>p, <2>1 DEF TopInv, Return, level
<1>4. CASE stack' = Append(stack, [best |-> best, blanked |-> blanked]) /\ Goto("first")
  <2>1. step' = "first" /\ stack \in Seq(Levels)
    BY <1>4, <1>t DEF Goto, TypeOK, Levels
  <2>2. /\ stack' # <<>> /\ (stack = <<>> => stack'[1] = [best |-> best, blanked |-> blanked])
        /\ (stack # <<>> => stack'[1] = stack[1])
        /\ \A i \in DOMAIN stack' : (i \in DOMAIN stack /\ stack'[i] = stack[i])
                                    \/ stack'[i] = [best |-> best, blanked |-> blanked]
    BY <1>4, <2>1
  <2>3. Grantable /\ spent = 0 => \A i \in DOMAIN stack' : Tops(stack'[i].best, stack'[i].blanked)
    BY <1>i, <2>2
  <2> QED BY <1>1, <1>s, <1>p, <2>1, <2>2, <2>3 DEF TopInv
<1> QED BY <1>2, <1>3, <1>4 DEF LookPast

LEMMA TopUnwind == MaskInv /\ TopInv /\ Unwind => TopInv'
<1> SUFFICES ASSUME MaskInv, TopInv, Unwind PROVE TopInv'
  OBVIOUS
<1>t. TypeOK /\ OnlyDoubted
  BY DEF MaskInv
<1>1. /\ step = "return" /\ stack # <<>> /\ step' = "return"
      /\ answer' = AnswerOfBoth /\ blanked' = Outer.blanked
      /\ stack' = SubSeq(stack, 1, Len(stack) - 1)
      /\ UNCHANGED <<line, policy, spent>>
  BY DEF Unwind, input, codes
<1>p. (Grantable <=> Grantable') /\ (\A b, g : Tops(b, g)' <=> Tops(b, g)) /\ (\A a : Stops(a)' <=> Stops(a))
  BY <1>1, FindingsStay
<1>2. Outer.best \in Places /\ Outer.blanked \subseteq Doubtful /\ Len(stack) \in DOMAIN stack
  BY <1>1, OuterFacts
<1>3. /\ \A i \in DOMAIN stack' : i \in DOMAIN stack /\ stack'[i] = stack[i]
      /\ IF stack' = <<>> THEN Outer = stack[1] ELSE stack'[1] = stack[1]
  BY <1>1, OuterFacts
<1>4. Grantable /\ spent = 0 => \A i \in DOMAIN stack : Tops(stack[i].best, stack[i].blanked)
  BY DEF TopInv
<1>5. IF stack' = <<>> THEN blanked' = {} ELSE stack'[1].blanked = {}
  BY <1>1, <1>3 DEF TopInv
<1>6. ASSUME Grantable, spent = 0 PROVE Stops(AnswerOfBoth) \/ Tops(AnswerOfBoth, Outer.blanked)
  <2>1. Tops(Outer.best, Outer.blanked)
    BY <1>2, <1>4, <1>6 DEF Outer
  <2>2. CASE Stops(answer)
    BY <1>1, <2>2, UnwindStops
  <2>3. CASE answer > 0 /\ answer # Unfinished /\ RankOf(answer, blanked) > RankOf(Outer.best, Outer.blanked)
    <3>1. answer \in Places
      BY <1>t, <2>3 DEF TypeOK, Results, Unfinished, Clean
    <3>2. RankOf(answer, {}) > RankOf(Outer.best, {})
      BY <1>t, <1>2, <2>3, <3>1, ModeStable DEF RankOf, OnlyDoubted
    <3>3. \A k \in Matters : RankOf(k, {}) \in Int
      BY <1>t, RankFacts DEF Matters
    <3>4. RankOf(answer, {}) \in Int /\ RankOf(Outer.best, {}) \in Int
      BY <1>t, <1>2, <3>1, RankFacts
    <3>5. Tops(answer, Outer.blanked)
      BY <2>1, <3>1, <3>2, <3>3, <3>4 DEF Tops, Dominated
    <3> QED BY <2>3, <3>5 DEF AnswerOfBoth
  <2> QED BY <2>1, <2>2, <2>3 DEF AnswerOfBoth, Stops
<1> QED BY <1>1, <1>3, <1>4, <1>5, <1>6, <1>p DEF TopInv

LEMMA TopStep == MaskInv /\ TopInv /\ [Next]_vars => TopInv'
<1> SUFFICES ASSUME MaskInv, TopInv, [Next]_vars PROVE TopInv'
  OBVIOUS
<1>1. CASE Redeem \/ Finish \/ UNCHANGED vars
  <2>1. /\ UNCHANGED <<line, policy, blanked, stack, answer, spent>>
        /\ \/ UNCHANGED <<granted, best, latest, step>>
           \/ step = "return" /\ step' = "done" /\ stack = <<>>
    BY <1>1 DEF Redeem, Finish, vars, input, level, codes
  <2>p. /\ Matters' = Matters /\ (Grantable <=> Grantable')
        /\ \A k, b : Dominated(k, b)' <=> Dominated(k, b)
        /\ \A b, g : Tops(b, g)' <=> Tops(b, g)
        /\ \A k : RuleAt(k)' = RuleAt(k)
        /\ \A a : Stops(a)' <=> Stops(a)
    BY <2>1, FindingsStay
  <2> QED BY <2>1, <2>p DEF TopInv
<1> QED BY <1>1, TopBegin, TopEndRounds, TopRound, TopLookPast, TopUnwind DEF Next

\* The strictest finding decides and, of several, the first, unless a denial ended the
\* search: over every order of the findings, with any rounds and levels, however the
\* proof workers end (evaluator.rs:32728-32729, 32850-32857 and 32920-32926).
THEOREM StrictestDecides == Spec => []StrictestFirst
<1>1. MaskInv /\ TopInv => StrictestFirst
  <2> SUFFICES ASSUME MaskInv, TopInv, Done, spent = 0, Grantable, Verdict # "unfinished",
                      NEW k \in Places, line[k].kind # "data"
               PROVE  /\ answer > 0 /\ RankOf(k, {}) <= RankOf(answer, {})
                      /\ k < answer /\ Verdict # "deny" => RankOf(k, {}) < RankOf(answer, {})
    BY DEF StrictestFirst
  <2>t. TypeOK /\ answer # Unfinished /\ blanked = {} /\ (Stops(answer) \/ Tops(answer, {}))
    BY DEF MaskInv, TopInv, Verdict, Done
  <2>1. CASE Stops(answer)
    <3>1. answer \in Places /\ Mode(answer, {}) = "deny"
      BY <2>t, <2>1 DEF Stops
    <3>2. answer > 0 /\ answer # Clean /\ Verdict = "deny"
      BY <2>t, <3>1, PlaceFacts DEF Verdict
    <3> QED BY <2>t, <3>1, <3>2, RankFacts
  <2>2. CASE ~Stops(answer) /\ Mode(k, {}) # "deny"
    <3>1. k \in Matters \ {}
      BY <2>2 DEF Matters
    <3>2. answer \in Places /\ Dominated(k, answer)
      BY <2>2, <2>t, <3>1 DEF Tops
    <3> QED BY <2>t, <3>2, PlaceFacts DEF Dominated
  <2>3. CASE ~Stops(answer) /\ Mode(k, {}) = "deny"
    <3>1. policy[RuleAt(k)] = "deny" /\ (line[k].kind = "doubted" => Repeated(k, {}))
      BY <2>3 DEF Mode
    <3>2. line[k].kind = "doubted" => CertainDeny # {}
      <4>1. SUFFICES ASSUME line[k].kind = "doubted" PROVE CertainDeny # {}
        OBVIOUS
      <4>2. PICK j \in Places : RuleAt(j) = RuleAt(k) /\ line[j].kind = "plain"
        BY <3>1, <4>1 DEF Repeated
      <4>3. j \in CertainDeny
        BY <3>1, <4>2 DEF CertainDeny, Certain
      <4> QED BY <4>3
    <3>3. line[k].kind # "doubted" => k \in CertainDeny
      BY <2>t, <3>1, PlaceFacts DEF CertainDeny, Certain, Kinds
    <3>4. CertainDeny # {}
      BY <3>2, <3>3
    <3> QED BY <2>3, <3>4 DEF MaskInv, NoEscape, Done
  <2> QED BY <2>1, <2>2, <2>3
<1>2. Init => TopInv
  BY DEF Init, TopInv
<1> QED BY MaskInvInit, MaskInvStep, <1>1, <1>2, TopStep, PTL DEF Spec

--------------------------------------------------------------------------------
(* What leaves a line unjudged                                             *)

\* The rounds of a level reported n + 1 rules, the latest last; n places of S.
Reported(n) ==
    \E f \in [0..n -> Places] :
        /\ f[n] = latest /\ granted = {RuleAt(f[i]) : i \in 0..(n - 1)}
        /\ \A i, j \in 0..n : i # j => RuleAt(f[i]) # RuleAt(f[j])
Holds(n, S) == \E g \in [1..n -> S] : \A i, j \in 1..n : i # j => g[i] # g[j]

\* More rules than rounds, or more doubted uses than levels.
Crowded ==
    \/ \E f \in [0..MaxRounds -> Places] :
         \A i, j \in 0..MaxRounds : i # j => RuleAt(f[i]) # RuleAt(f[j])
    \/ \E f \in [0..MaxDepth -> Places] :
         \A i \in 0..MaxDepth : line[f[i]].kind = "doubted" /\ (\A j \in 0..MaxDepth : i # j => f[i] # f[j])

\* Each round reports another rule, each level blanks out another doubted use.
CrowdInv ==
    /\ step = "first" => rounds = 0
    /\ step = "rounds" /\ Grantable => Reported(rounds)
    /\ Holds(Len(stack), blanked)
    /\ \A i \in DOMAIN stack : Holds(i - 1, stack[i].blanked)
    /\ step \in {"return", "done"} /\ answer = Unfinished /\ Grantable /\ ~cut => Crowded

LEMMA LinePolicyStay ==
    ASSUME UNCHANGED <<line, policy>>
    PROVE  Places' = Places /\ (\A k : RuleAt(k)' = RuleAt(k)) /\ (Crowded' <=> Crowded)
<1>1. Places' = Places /\ (\A k : RuleAt(k)' = RuleAt(k))
  BY DEF Places, RuleAt
<1> QED BY <1>1 DEF Crowded

LEMMA CrowdBegin == MaskInv /\ CrowdInv /\ Begin => CrowdInv'
<1> SUFFICES ASSUME MaskInv, CrowdInv, Begin PROVE CrowdInv'
  OBVIOUS
<1>t. TypeOK /\ OnlyDoubted /\ GrantsNoted
  BY DEF MaskInv
<1>1. step = "first" /\ rounds = 0 /\ granted = {} /\ UNCHANGED <<line, policy>>
  BY <1>t DEF Begin, input, GrantsNoted, CrowdInv
<1>2. PICK r \in Results :
        /\ Evaluates(r, {})
        /\ IF r > 0 /\ Mode(r, blanked) # "deny"
           THEN /\ best' = r /\ latest' = r /\ doubted' = Noted(r, blanked) /\ Goto("rounds")
                /\ UNCHANGED <<blanked, granted, rounds, stack>>
           ELSE Return(r) /\ UNCHANGED level
  BY DEF Begin
<1>p. Places' = Places /\ (\A k : RuleAt(k)' = RuleAt(k)) /\ (Crowded' <=> Crowded)
  BY <1>1, LinePolicyStay
<1>3. /\ r > 0 => r \in Places
      /\ r = Unfinished => cut' = TRUE
  <2>e. PICK none : none = {}
    OBVIOUS
  <2>1. Evaluates(r, none)
    BY <1>2, <2>e
  <2> QED BY <2>1, <1>t, EvaluatesFacts
<1>4. UNCHANGED <<blanked, stack>>
  BY <1>2 DEF level
<1>h. Holds(Len(stack), blanked)' /\ \A i \in DOMAIN stack' : Holds(i - 1, stack'[i].blanked)
  BY <1>4 DEF CrowdInv, Holds
<1>5. CASE r > 0 /\ Mode(r, blanked) # "deny"
  <2>1. step' = "rounds" /\ latest' = r /\ granted' = {} /\ rounds' = 0
    BY <1>1, <1>2, <1>5 DEF Goto
  <2>2. Reported(rounds)'
    <3> DEFINE f == [i \in 0..0 |-> r]
    <3>1. f \in [0..0 -> Places] /\ f[0] = r
      BY <1>3, <1>5
    <3>2. \A i, j \in 0..0 : i = j
      OBVIOUS
    <3> HIDE DEF f
    <3>3. granted' = {RuleAt(f[i]) : i \in 0..(0 - 1)}
      BY <2>1
    <3>4. \A i, j \in 0..0 : i # j => RuleAt(f[i]) # RuleAt(f[j])
      BY <3>2
    <3> QED BY <1>p, <2>1, <3>1, <3>3, <3>4 DEF Reported
  <2> QED BY <1>h, <2>1, <2>2 DEF CrowdInv, Holds
<1>6. CASE Return(r)
  <2>1. step' = "return" /\ answer' = r
    BY <1>6 DEF Return
  <2> QED BY <1>3, <1>h, <2>1 DEF CrowdInv, Holds
<1> QED BY <1>2, <1>5, <1>6

LEMMA CrowdEndRounds == MaskInv /\ CrowdInv /\ EndRounds => CrowdInv'
<1> SUFFICES ASSUME MaskInv, CrowdInv, EndRounds PROVE CrowdInv'
  OBVIOUS
<1>1. step = "rounds" /\ UNCHANGED <<line, policy, blanked, granted, best, latest, doubted, rounds, stack, cut>>
  BY DEF EndRounds, input, level
<1>p. Places' = Places /\ (Crowded' <=> Crowded) /\ (Grantable <=> Grantable')
  BY <1>1, LinePolicyStay, FindingsStay
<1>h. Holds(Len(stack), blanked)' /\ \A i \in DOMAIN stack' : Holds(i - 1, stack'[i].blanked)
  <2>1. \A n, gone : Holds(n, gone)' <=> Holds(n, gone)
    BY <1>1, <1>p DEF Holds
  <2> QED BY <1>1, <2>1 DEF CrowdInv
<1>2. CASE rounds = MaxRounds /\ step' = "return"
  <2>1. Grantable => Crowded
    BY <1>1, <1>2 DEF CrowdInv, Reported, Crowded
  <2> QED BY <1>2, <1>h, <1>p, <2>1 DEF CrowdInv, Holds
<1>3. CASE step' = "past"
  BY <1>3, <1>h DEF CrowdInv, Holds
<1> QED BY <1>2, <1>3 DEF EndRounds, Return, Goto

LEMMA CrowdRound == MaskInv /\ CrowdInv /\ Round => CrowdInv'
<1> SUFFICES ASSUME MaskInv, CrowdInv, Round PROVE CrowdInv'
  OBVIOUS
<1>t. TypeOK /\ OnlyDoubted /\ GrantsNoted
  BY DEF MaskInv
<1>1. /\ step = "rounds" /\ rounds \in Nat /\ granted' = granted \cup {RuleAt(latest)}
      /\ UNCHANGED <<line, policy, blanked, stack>>
  BY <1>t DEF Round, input, TypeOK
<1>2. PICK r \in Results :
        /\ Evaluates(r, granted')
        /\ \/ r = Clean /\ Goto("past") /\ UNCHANGED <<best, latest, doubted, rounds>>
           \/ r = Unfinished /\ Return(r) /\ UNCHANGED <<best, latest, doubted, rounds>>
           \/ /\ r > 0 /\ Mode(r, blanked) = "deny"
              /\ Return(r) /\ UNCHANGED <<best, latest, doubted, rounds>>
           \/ /\ r > 0 /\ Mode(r, blanked) # "deny"
              /\ doubted' = doubted \cup Noted(r, blanked)
              /\ best' = IF RankOf(r, blanked) > RankOf(best, blanked) THEN r ELSE best
              /\ latest' = r /\ rounds' = rounds + 1 /\ Goto("rounds")
  BY DEF Round
<1>p. Places' = Places /\ (\A k : RuleAt(k)' = RuleAt(k)) /\ (Crowded' <=> Crowded) /\ (Grantable <=> Grantable')
  BY <1>1, LinePolicyStay, FindingsStay
<1>3. /\ r > 0 => r \in Places /\ (RuleAt(r) \notin granted' \/ RuleAt(r) \in Sticky)
      /\ r = Unfinished => cut' = TRUE
  BY <1>2, <1>t, EvaluatesFacts
<1>h. Holds(Len(stack), blanked)' /\ \A i \in DOMAIN stack' : Holds(i - 1, stack'[i].blanked)
  BY <1>1 DEF CrowdInv, Holds
<1>5. CASE Goto("past")
  BY <1>5, <1>h DEF CrowdInv, Goto, Holds
<1>6. CASE Return(r) /\ (r > 0 \/ r = Unfinished)
  <2>1. step' = "return" /\ answer' = r
    BY <1>6 DEF Return
  <2> QED BY <1>3, <1>h, <2>1 DEF CrowdInv, Holds
<1>7. CASE r > 0 /\ Mode(r, blanked) # "deny" /\ latest' = r /\ rounds' = rounds + 1 /\ Goto("rounds")
  <2>1. step' = "rounds" /\ latest' = r /\ rounds' = rounds + 1 /\ rounds \in Nat
    BY <1>1, <1>7 DEF Goto
  <2>2. ASSUME Grantable PROVE Reported(rounds)'
    <3>1. PICK f \in [0..rounds -> Places] :
             /\ f[rounds] = latest /\ granted = {RuleAt(f[i]) : i \in 0..(rounds - 1)}
             /\ \A i, j \in 0..rounds : i # j => RuleAt(f[i]) # RuleAt(f[j])
      BY <1>1, <2>2 DEF CrowdInv, Reported
    <3>2. r \in Places /\ RuleAt(r) \notin granted'
      BY <1>3, <1>7, <1>t, <2>2, ModeStable DEF Grantable, OnlyDoubted
    <3> DEFINE g == [i \in 0..(rounds + 1) |-> IF i = rounds + 1 THEN r ELSE f[i]]
    <3>3. g \in [0..(rounds + 1) -> Places] /\ g[rounds + 1] = r /\ \A i \in 0..rounds : g[i] = f[i]
      BY <2>1, <3>2
    <3>4. granted' = {RuleAt(f[i]) : i \in 0..rounds}
      <4>1. 0..rounds = 0..(rounds - 1) \cup {rounds}
        BY <2>1
      <4>2. {RuleAt(f[i]) : i \in 0..rounds} = {RuleAt(f[i]) : i \in 0..(rounds - 1)} \cup {RuleAt(f[rounds])}
        BY <4>1
      <4> QED BY <1>1, <3>1, <4>2
    <3>5. granted' = {RuleAt(g[i]) : i \in 0..rounds}
      BY <3>3, <3>4
    <3>6. \A i, j \in 0..(rounds + 1) : i # j => RuleAt(g[i]) # RuleAt(g[j])
      <4>1. \A i \in 0..rounds : RuleAt(g[i]) # RuleAt(r)
        BY <3>2, <3>5
      <4>2. \A i \in 0..(rounds + 1) : i \in 0..rounds \/ i = rounds + 1
        BY <2>1
      <4> HIDE DEF g
      <4> QED BY <3>1, <3>3, <4>1, <4>2
    <3>7. (rounds + 1) - 1 = rounds
      BY <2>1
    <3> HIDE DEF g
    <3> QED BY <1>p, <2>1, <3>3, <3>5, <3>6, <3>7 DEF Reported
  <2> QED BY <1>h, <1>p, <2>1, <2>2 DEF CrowdInv, Holds
<1> QED BY <1>2, <1>5, <1>6, <1>7

LEMMA CrowdLookPast == MaskInv /\ CrowdInv /\ LookPast => CrowdInv'
<1> SUFFICES ASSUME MaskInv, CrowdInv, LookPast PROVE CrowdInv'
  OBVIOUS
<1>t. TypeOK /\ OnlyDoubted
  BY DEF MaskInv
<1>1. step = "past" /\ best \in Places /\ UNCHANGED <<line, policy, cut>>
  BY <1>t DEF LookPast, input, TypeOK
<1>p. Places' = Places /\ (Crowded' <=> Crowded)
  BY <1>1, LinePolicyStay
<1>s. stack \in Seq(Levels) /\ Len(stack) \in Nat /\ Len(stack) <= MaxDepth /\ DOMAIN stack = 1..Len(stack)
  BY <1>t DEF TypeOK, Levels
<1>2. CASE Return(best) /\ UNCHANGED level
  <2>1. answer' # Unfinished /\ step' = "return" /\ UNCHANGED <<stack, blanked>>
    BY <1>1, <1>2, <1>t, PlaceFacts DEF Return, level
  <2> QED BY <2>1 DEF CrowdInv, Holds
<1>3. CASE ~(doubted \subseteq blanked) /\ TooDeep(Len(stack)) /\ Return(Unfinished) /\ UNCHANGED level
  <2>0. Len(stack) >= MaxDepth
    BY <1>3 DEF TooDeep
  <2>1. Len(stack) = MaxDepth
    <3>1. Len(stack) \in Nat /\ Len(stack) <= MaxDepth /\ MaxDepth \in Nat
      BY <1>s, LimitsAssumption
    <3>2. \A a, b \in Nat : a <= b /\ a >= b => a = b
      OBVIOUS
    <3> QED BY <2>0, <3>1, <3>2, Zenon
  <2>2. PICK d \in doubted : d \notin blanked
    BY <1>3
  <2>3. PICK g \in [1..MaxDepth -> blanked] : \A i, j \in 1..MaxDepth : i # j => g[i] # g[j]
    BY <2>1 DEF CrowdInv, Holds
  <2> DEFINE f == [i \in 0..MaxDepth |-> IF i = 0 THEN d ELSE g[i]]
  <2>4. \A i \in 0..MaxDepth : i = 0 \/ i \in 1..MaxDepth
    BY LimitsAssumption
  <2>5. f[0] = d /\ (\A i \in 1..MaxDepth : f[i] = g[i] /\ g[i] \in blanked) /\ 0 \in 0..MaxDepth
    BY <2>3, LimitsAssumption
  <2>6. f \in [0..MaxDepth -> Doubtful]
    BY <2>2, <2>4, <2>5, <1>t DEF OnlyDoubted
  <2> HIDE DEF f
  <2>7. f \in [0..MaxDepth -> Places] /\ \A i \in 0..MaxDepth : line[f[i]].kind = "doubted"
    BY <2>6 DEF Doubtful
  <2>8. \A i, j \in 0..MaxDepth : i # j => f[i] # f[j]
    BY <2>2, <2>3, <2>4, <2>5
  <2>9. Crowded
    BY <2>7, <2>8 DEF Crowded
  <2> QED BY <1>3, <1>p, <2>9 DEF CrowdInv, Holds, Return, level
<1>4. CASE /\ ~(doubted \subseteq blanked)
           /\ stack' = Append(stack, [best |-> best, blanked |-> blanked])
           /\ blanked' = blanked \cup doubted
           /\ rounds' = 0
           /\ Goto("first")
  <2>1. step' = "first"
    BY <1>4 DEF Goto
  <2> DEFINE n == Len(stack)
  <2>2. PICK d \in doubted : d \notin blanked
    BY <1>4
  <2>3. PICK g \in [1..n -> blanked] : \A i, j \in 1..n : i # j => g[i] # g[j]
    BY DEF CrowdInv, Holds
  <2>4. Holds(n + 1, blanked')
    <3> DEFINE h == [i \in 1..(n + 1) |-> IF i = n + 1 THEN d ELSE g[i]]
    <3>1. \A i \in 1..(n + 1) : i = n + 1 \/ i \in 1..n
      BY <1>s
    <3>2. h[n + 1] = d /\ (\A i \in 1..n : h[i] = g[i] /\ g[i] \in blanked) /\ n + 1 \in 1..(n + 1)
      BY <1>s, <2>3
    <3>3. h \in [1..(n + 1) -> blanked']
      BY <1>4, <2>2, <3>1, <3>2
    <3> HIDE DEF h
    <3>4. \A i, j \in 1..(n + 1) : i # j => h[i] # h[j]
      BY <2>2, <2>3, <3>1, <3>2
    <3> HIDE DEF n
    <3> QED BY <3>3, <3>4 DEF Holds
  <2>5. Len(stack') = n + 1 /\ DOMAIN stack' = 1..(n + 1)
        /\ \A i \in 1..(n + 1) : \/ i \in DOMAIN stack /\ stack'[i] = stack[i]
                                 \/ i = n + 1 /\ stack'[i] = [best |-> best, blanked |-> blanked]
    BY <1>4, <1>s
  <2>6. \A i \in DOMAIN stack' : Holds(i - 1, stack'[i].blanked)
    <3>1. Holds(n, blanked) /\ \A i \in DOMAIN stack : Holds(i - 1, stack[i].blanked)
      BY DEF CrowdInv
    <3>2. (n + 1) - 1 = n
      BY <1>s
    <3> HIDE DEF n
    <3> QED BY <2>5, <3>1, <3>2
  <2> HIDE DEF n
  <2>7. Holds(Len(stack'), blanked')
    BY <2>4, <2>5
  <2> QED BY <1>4, <2>1, <2>6, <2>7 DEF CrowdInv, Holds
<1> QED BY <1>2, <1>3, <1>4 DEF LookPast

LEMMA CrowdUnwind == MaskInv /\ CrowdInv /\ Unwind => CrowdInv'
<1> SUFFICES ASSUME MaskInv, CrowdInv, Unwind PROVE CrowdInv'
  OBVIOUS
<1>1. /\ step = "return" /\ stack # <<>> /\ step' = "return"
      /\ answer' = AnswerOfBoth /\ blanked' = Outer.blanked
      /\ stack' = SubSeq(stack, 1, Len(stack) - 1)
      /\ UNCHANGED <<line, policy, cut>>
  BY DEF Unwind, input
<1>p. (Crowded' <=> Crowded) /\ (Grantable <=> Grantable')
  BY <1>1, LinePolicyStay, FindingsStay
<1>2. /\ Outer.best \in Places /\ Len(stack) \in DOMAIN stack
      /\ Len(stack') = Len(stack) - 1
      /\ \A i \in DOMAIN stack' : i \in DOMAIN stack /\ stack'[i] = stack[i]
  BY <1>1, OuterFacts
<1>3. answer' = Unfinished => answer = Unfinished
  BY <1>1, <1>2, PlaceFacts DEF AnswerOfBoth, MaskInv
<1>4. Holds(Len(stack'), blanked')
  BY <1>1, <1>2 DEF CrowdInv, Outer
<1>5. \A i \in DOMAIN stack' : Holds(i - 1, stack'[i].blanked)
  BY <1>2 DEF CrowdInv
<1> QED BY <1>1, <1>3, <1>4, <1>5, <1>p DEF CrowdInv, Holds

LEMMA CrowdStep == MaskInv /\ CrowdInv /\ [Next]_vars => CrowdInv'
<1> SUFFICES ASSUME MaskInv, CrowdInv, [Next]_vars PROVE CrowdInv'
  OBVIOUS
<1>1. CASE Redeem \/ Finish \/ UNCHANGED vars
  <2>1. /\ UNCHANGED <<line, policy, blanked, stack, answer, cut>>
        /\ \/ UNCHANGED <<granted, latest, rounds, step>>
           \/ step = "return" /\ step' = "done"
    BY <1>1 DEF Redeem, Finish, vars, input, level
  <2>p. /\ Places' = Places /\ (\A k : RuleAt(k)' = RuleAt(k)) /\ (Crowded' <=> Crowded)
        /\ (Grantable <=> Grantable')
    BY <2>1, LinePolicyStay, FindingsStay
  <2>2. Holds(Len(stack), blanked)' /\ \A i \in DOMAIN stack' : Holds(i - 1, stack'[i].blanked)
    BY <2>1 DEF CrowdInv, Holds
  <2>3. CASE UNCHANGED <<granted, latest, rounds, step>>
    <3>1. step = "rounds" /\ Grantable => Reported(rounds)'
      BY <2>1, <2>3, <2>p DEF CrowdInv, Reported
    <3> QED BY <2>1, <2>2, <2>3, <2>p, <3>1 DEF CrowdInv, Holds
  <2>4. CASE step = "return" /\ step' = "done"
    BY <2>1, <2>2, <2>4, <2>p DEF CrowdInv, Holds
  <2> QED BY <2>1, <2>3, <2>4
<1> QED BY <1>1, CrowdBegin, CrowdEndRounds, CrowdRound, CrowdLookPast, CrowdUnwind DEF Next

\* A line is left unjudged whenever an evaluation of it ran out of time, and otherwise
\* only when it has more rules than rounds or more doubted uses than levels, whatever
\* the two limits are (evaluator.rs:32692-32702, 32833-32837 and 32902-32908).
THEOREM UnjudgedForCause == Spec => []UnfinishedForCause
<1>1. MaskInv /\ CrowdInv => UnfinishedForCause
  BY DEF MaskInv, CutEnds, CrowdInv, Crowded, UnfinishedForCause, CutShortIsUnfinished, OnlyCrowdsUnjudged, Done
<1>2. Init => CrowdInv
  <2> SUFFICES ASSUME Init PROVE CrowdInv
    OBVIOUS
  <2>1. [i \in 1..0 |-> 0] \in [1..0 -> {}] /\ Len(stack) = 0 /\ DOMAIN stack = {} /\ 1..0 = {}
    BY DEF Init
  <2>2. Holds(0, {})
    <3>1. \A i, j \in 1..0 : FALSE
      OBVIOUS
    <3> QED BY <2>1, <3>1 DEF Holds
  <2> QED BY <2>1, <2>2 DEF Init, CrowdInv
<1> QED BY MaskInvInit, MaskInvStep, <1>1, <1>2, CrowdStep, PTL DEF Spec

--------------------------------------------------------------------------------
(* A line is evaluated a bounded number of times                           *)

\* Evaluations still to come at most, at this level and at those below it.
OfLevel == MaxRounds + 1
Below   == OfLevel * (MaxDepth - Len(stack))
Ahead   == CASE step = "first"  -> OfLevel + Below
             [] step = "rounds" -> (MaxRounds - rounds) + Below
             [] step = "past"   -> Below
             [] OTHER -> 0

LEMMA Products ==
    \A n, a, b \in Nat : /\ n * a \in Nat
                         /\ a <= b => n * a <= n * b
                         /\ n * (a + 1) = n + n * a
<1>1. \A n, a \in Nat : n * a \in Nat /\ n * (a + 1) = n + n * a
  OBVIOUS
<1>2. \A n, a, k \in Nat : n * (a + k) = n * a + n * k /\ n * k \in Nat /\ n * a \in Nat
  OBVIOUS
<1>3. ASSUME NEW n \in Nat, NEW a \in Nat, NEW b \in Nat, a <= b PROVE n * a <= n * b
  <2>1. b - a \in Nat /\ a + (b - a) = b
    BY <1>3
  <2>2. n * (a + (b - a)) = n * a + n * (b - a) /\ n * (b - a) \in Nat /\ n * a \in Nat
    BY <1>2, <2>1
  <2> HIDE DEF Ahead
  <2> QED BY <2>1, <2>2
<1> QED BY <1>1, <1>3

LEMMA AheadType ==
    TypeOK => /\ OfLevel \in Nat /\ MaxRounds \in Nat /\ MaxDepth \in Nat
              /\ Len(stack) \in 0..MaxDepth /\ rounds \in 0..MaxRounds
              /\ Below \in Nat /\ OfLevel + Below <= OfLevel * (MaxDepth + 1)
              /\ Ahead \in 0..(OfLevel + Below)
<1> SUFFICES ASSUME TypeOK
             PROVE  /\ OfLevel \in Nat /\ MaxRounds \in Nat /\ MaxDepth \in Nat
                    /\ Len(stack) \in 0..MaxDepth /\ rounds \in 0..MaxRounds
                    /\ Below \in Nat /\ OfLevel + Below <= OfLevel * (MaxDepth + 1)
                    /\ Ahead \in 0..(OfLevel + Below)
  OBVIOUS
<1>1. MaxRounds \in Nat /\ MaxDepth \in Nat /\ rounds \in 0..MaxRounds /\ Len(stack) \in 0..MaxDepth
  BY LimitsAssumption DEF TypeOK
<1>2. OfLevel \in Nat /\ OfLevel = MaxRounds + 1
  BY <1>1 DEF OfLevel
<1>3. MaxDepth - Len(stack) \in Nat /\ MaxDepth - Len(stack) <= MaxDepth
  BY <1>1
<1>4. Below \in Nat /\ Below <= OfLevel * MaxDepth /\ OfLevel * (MaxDepth + 1) = OfLevel + OfLevel * MaxDepth
      /\ OfLevel * MaxDepth \in Nat
  BY <1>1, <1>2, <1>3, Products DEF Below
<1>5. OfLevel + Below <= OfLevel * (MaxDepth + 1)
  BY <1>2, <1>4
<1>6. Ahead \in {OfLevel + Below, (MaxRounds - rounds) + Below, Below, 0}
  BY DEF Ahead
<1>7. Ahead \in 0..(OfLevel + Below)
  BY <1>1, <1>2, <1>4, <1>6
<1> QED BY <1>1, <1>2, <1>4, <1>5, <1>7

Spends == Ahead' <= Ahead /\ (Begin \/ Round => Ahead' < Ahead)

LEMMA AheadStep == TypeOK /\ TypeOK' /\ [Next]_vars => [Spends]_vars
<1> SUFFICES ASSUME TypeOK, TypeOK', Next PROVE Spends
  OBVIOUS
<1>1. /\ OfLevel \in Nat /\ MaxRounds \in Nat /\ MaxDepth \in Nat /\ OfLevel = MaxRounds + 1
      /\ Len(stack) \in 0..MaxDepth /\ rounds \in 0..MaxRounds /\ Below \in Nat /\ Ahead \in Nat
  BY AheadType DEF OfLevel
<1>2. rounds' \in 0..MaxRounds
  BY DEF TypeOK
<1>3. CASE Begin
  <2>1. UNCHANGED stack /\ rounds' = rounds /\ step = "first" /\ step' \in {"rounds", "return"}
    BY <1>3 DEF Begin, Return, Goto, level
  <2>2. Below' = Below /\ Ahead = OfLevel + Below
    BY <2>1 DEF Below, OfLevel, Ahead
  <2>3. Ahead' = (MaxRounds - rounds) + Below \/ Ahead' = 0
    BY <2>1, <2>2 DEF Ahead
  <2> QED BY <1>1, <2>2, <2>3 DEF Spends
<1>4. CASE Round
  <2>1. /\ UNCHANGED stack /\ step = "rounds" /\ rounds < MaxRounds
        /\ \/ step' = "rounds" /\ rounds' = rounds + 1
           \/ step' \in {"past", "return"}
    BY <1>4 DEF Round, Return, Goto
  <2>2. Below' = Below /\ Ahead = (MaxRounds - rounds) + Below
    BY <2>1 DEF Below, OfLevel, Ahead
  <2>3. Ahead' = (MaxRounds - (rounds + 1)) + Below \/ Ahead' = Below \/ Ahead' = 0
    BY <2>1, <2>2 DEF Ahead
  <2> QED BY <1>1, <2>1, <2>2, <2>3 DEF Spends
<1>5. CASE EndRounds
  <2>1. /\ UNCHANGED stack /\ step = "rounds" /\ step' \in {"past", "return"}
    BY <1>5 DEF EndRounds, Return, Goto, level
  <2>2. Below' = Below /\ Ahead = (MaxRounds - rounds) + Below
    BY <2>1 DEF Below, OfLevel, Ahead
  <2>3. Ahead' = Below \/ Ahead' = 0
    BY <2>1, <2>2 DEF Ahead
  <2>4. ~Begin /\ ~Round
    <3>1. (rounds = MaxRounds \/ RuleAt(latest) \in granted) /\ step = "rounds"
      BY <1>5 DEF EndRounds
    <3> QED BY <1>1, <3>1 DEF Begin, Round
  <2> QED BY <1>1, <2>2, <2>3, <2>4 DEF Spends
<1>6. CASE LookPast
  <2>1. step = "past" /\ Ahead = Below /\ ~Begin /\ ~Round
    BY <1>6 DEF LookPast, Ahead, Begin, Round
  <2>2. CASE step' = "return"
    BY <1>1, <2>1, <2>2 DEF Spends, Ahead
  <2>3. CASE step' # "return"
    <3>1. /\ stack' = Append(stack, [best |-> best, blanked |-> blanked]) /\ step' = "first"
          /\ ~TooDeep(Len(stack))
      BY <1>6, <2>3 DEF LookPast, Return, Goto
    <3>2. stack \in Seq([best : Places, blanked : SUBSET Places])
      BY DEF TypeOK
    <3>3. Len(stack') = Len(stack) + 1 /\ Len(stack) < MaxDepth
      BY <1>1, <3>1, <3>2 DEF TooDeep
    <3>4. MaxDepth - Len(stack') \in Nat /\ MaxDepth - Len(stack) = (MaxDepth - Len(stack')) + 1
      BY <1>1, <3>3
    <3>5. Below = OfLevel + Below' /\ Ahead' = OfLevel + Below'
      BY <1>1, <3>1, <3>4, Products DEF Below, Ahead, OfLevel
    <3>6. Ahead' = Ahead
      BY <2>1, <3>5
    <3> QED BY <1>1, <2>1, <3>6 DEF Spends
  <2> QED BY <2>2, <2>3
<1>7. CASE Unwind \/ Finish
  <2>1. step = "return" /\ step' \in {"return", "done"}
    BY <1>7 DEF Unwind, Finish
  <2>2. ~Begin /\ ~Round
    BY <2>1 DEF Begin, Round
  <2> QED BY <1>1, <2>1, <2>2 DEF Spends, Ahead
<1>8. CASE Redeem
  <2>1. UNCHANGED <<step, stack, rounds>> /\ live' = live + 1
    BY <1>8 DEF Redeem, level
  <2>2. Ahead' = Ahead
    BY <2>1 DEF Ahead, Below, OfLevel
  <2>3. ~Begin /\ ~Round
    <3>1. live \in Nat /\ redeemed' # redeemed
      BY <1>8 DEF TypeOK, Redeem
    <3> QED BY <3>1, <1>8 DEF Begin, Round, Evaluates, codes
  <2> QED BY <1>1, <2>2, <2>3 DEF Spends
<1> QED BY <1>3, <1>4, <1>5, <1>6, <1>7, <1>8 DEF Next

\* "Upper bound on the re-evaluations" (evaluator.rs:32690): each level evaluates
\* the line MaxRounds + 1 times at most and there are MaxDepth + 1 levels, so no
\* line, policy or timing has it evaluated more than their product: every
\* evaluation uses one up, and nothing gives one back.
THEOREM EvaluationsBounded ==
    Spec => [](Ahead \in 0..((MaxRounds + 1) * (MaxDepth + 1))) /\ [][Spends]_vars
<1>1. TypeOK => Ahead \in 0..((MaxRounds + 1) * (MaxDepth + 1))
  <2> SUFFICES ASSUME TypeOK PROVE Ahead \in 0..((MaxRounds + 1) * (MaxDepth + 1))
    OBVIOUS
  <2>1. /\ OfLevel \in Nat /\ Below \in Nat /\ OfLevel + Below <= OfLevel * (MaxDepth + 1)
        /\ Ahead \in 0..(OfLevel + Below)
    BY AheadType
  <2> DEFINE all == OfLevel * (MaxDepth + 1)
  <2>2. all \in Nat /\ all = (MaxRounds + 1) * (MaxDepth + 1)
    BY <2>1, LimitsAssumption, Products DEF OfLevel
  <2>3. OfLevel + Below <= all
    BY <2>1
  <2> HIDE DEF all
  <2>4. Ahead \in 0..all
    BY <2>1, <2>2, <2>3
  <2> QED BY <2>2, <2>4
<1>2. MaskInv => TypeOK
  BY DEF MaskInv
<1> QED BY MaskInvInit, MaskInvStep, AheadStep, <1>1, <1>2, PTL DEF Spec

--------------------------------------------------------------------------------
(* The rounds and the evaluations side by side                             *)

\* The rounds are those of their own specification throughout; so are the
\* evaluations in the behaviours that are about them, and they rest in the others.
LEMMA RoundsWithin == PartSpec => Spec
<1>1. PartInit => Init
  BY DEF PartInit
<1>2. [PartNext]_<<part, vars, evalVars>> => [Next]_vars
  BY DEF PartNext
<1> QED BY <1>1, <1>2, PTL DEF PartSpec, Spec

LEMMA EvaluationWithin == PartSpec /\ part = "evaluation" => EvalSpec
<1>1. PartInit /\ part = "evaluation" => EvalInit
  BY DEF PartInit
<1>2. [PartNext]_<<part, vars, evalVars>> => [EvalNext]_evalVars
  BY DEF PartNext
<1> QED BY <1>1, <1>2, PTL DEF PartSpec, EvalSpec

Resting == /\ part = "rounds" /\ verdict = None /\ used = [k \in GrantKinds |-> 0]
           /\ EvalTypeOK

LEMMA RestingStart == PartInit /\ part = "rounds" => Resting
<1> SUFFICES ASSUME PartInit, part = "rounds" PROVE Resting
  OBVIOUS
<1> DEFINE quiet == [parent |-> 0, when |-> "early", mark |-> "none", find |-> "quiet", seen |-> FALSE]
<1>1. /\ cmd = <<quiet>> /\ offered = [k \in GrantKinds |-> 0] /\ EvalStart
  BY DEF PartInit
<1>2. quiet \in Command
  BY DEF Command, Marks, Finds
<1>3. /\ Nodes = {1} /\ Roots = {1} /\ IsLine(cmd)
  BY <1>1, <1>2 DEF Nodes, Roots, IsLine
<1>4. frames = <<Entered(1)>> /\ Len(frames) = 1
  BY <1>1 DEF EvalStart
<1>5. Entered(1) \in [node : Nodes, stage : {"enter", "open", "early", "whole", "late"},
                     kid : {0} \cup Nodes, hit : BOOLEAN]
  BY <1>3 DEF Entered
<1>6. EvalTypeOK
  <2>1. /\ offered \in [GrantKinds -> Nat] /\ grants = offered /\ used \in [GrantKinds -> Nat]
        /\ late \in BOOLEAN /\ ret = None /\ view = 1 /\ primary = None /\ verdict = None
    BY <1>1 DEF EvalStart
  <2>2. frames \in Seq([node : Nodes, stage : {"enter", "open", "early", "whole", "late"},
                       kid : {0} \cup Nodes, hit : BOOLEAN])
    BY <1>4, <1>5
  <2> QED BY <1>3, <1>4, <2>1, <2>2, EvaluatorBounds DEF EvalTypeOK
<1> QED BY <1>1, <1>6 DEF EvalStart, Resting

LEMMA RestingStays == Resting /\ [PartNext]_<<part, vars, evalVars>> => Resting'
<1> SUFFICES ASSUME Resting, [PartNext]_<<part, vars, evalVars>> PROVE Resting'
  OBVIOUS
<1>1. UNCHANGED <<part, evalVars>>
  BY DEF PartNext, Resting
<1> QED BY <1>1 DEF Resting, EvalTypeOK, evalVars, store, views, Nodes, Roots

\* With both in one behaviour, as a run checks them, the types and every promise
\* of either hold for all their constants.
THEOREM EvaluationCorrect ==
    PartSpec => [](/\ TypesOK /\ NothingMasked /\ StrictestFirst /\ UnfinishedForCause /\ OneCodeSpent
                   /\ DecidesOnMerits /\ UsedMeansRuns /\ GrantHonoured)
<1> DEFINE Evaluated == EvalTypeOK /\ DecidesOnMerits /\ UsedMeansRuns /\ GrantHonoured
<1>1. PartSpec => [](TypeOK /\ NothingMasked /\ StrictestFirst /\ UnfinishedForCause /\ OneCodeSpent)
  BY RoundsWithin, RoundsTypeCorrect, NoCertainDenyMasked, StrictestDecides, UnjudgedForCause, OneCode, PTL
<1>2. PartSpec /\ part = "evaluation" => []Evaluated
  BY EvaluationWithin, EvaluatorTypeCorrect, JudgedOnMerits, GrantUsedByLineThatRuns, GrantIsHonoured, PTL
<1>3. PartSpec /\ part = "rounds" => []Evaluated
  <2>1. Resting => Evaluated
    BY DEF Resting, GrantKinds, DecidesOnMerits, UsedMeansRuns, GrantHonoured, None
  <2> QED BY <2>1, RestingStart, RestingStays, PTL DEF PartSpec
<1>4. PartInit => part \in {"evaluation", "rounds"}
  BY DEF PartInit
<1>5. PartSpec => []Evaluated
  <2>1. PartInit => part = "evaluation" \/ part = "rounds"
    BY <1>4
  <2> QED BY <2>1, <1>2, <1>3, PTL DEF PartSpec
<1>6. TypesOK <=> TypeOK /\ EvalTypeOK
  BY DEF TypesOK
<1> QED BY <1>1, <1>5, <1>6, PTL
================================================================================
