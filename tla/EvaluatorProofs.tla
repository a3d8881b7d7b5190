--------------------------- MODULE EvaluatorProofs ---------------------------
(***************************************************************************)
(* A grant is used up once and the line then runs; a block gives way to a  *)
(* forced grant alone; a line that finishes without a grant is denied just *)
(* when it runs something harmful; and a grant offered from the start is   *)
(* honoured, but for harm that the predicate before the first lookup       *)
(* misses. All hold for every set of lines, nesting limit and number of    *)
(* grants.                                                                 *)
(*                                                                         *)
(* What a command deserves is told by closed sets: it is sane when some    *)
(* set of harmless commands holds it and all that is judged of what its    *)
(* members run. Under the evaluator's frames this is the invariant         *)
(* MeritInv: the frames are a chain of nested commands, each as deep as it *)
(* stands, and each returns what its command deserves. That the model's    *)
(* recursive functions, Depths and Judged, exist and obey their equations  *)
(* is shown by least counterexample. HonourInv adds that a grant stays at  *)
(* hand until the outermost command is past its checks, and that only what *)
(* the predicate missed is judged before.                                  *)
(***************************************************************************)
EXTENDS Evaluator, WellFoundedInduction, TLAPS

Frames == [node : Nodes, stage : {"enter", "open", "early", "whole", "late"},
           kid : {0} \cup Nodes, hit : BOOLEAN]
Typed ==
    /\ cmd \in Lines
    /\ grants \in [GrantKinds -> Nat] /\ used \in [GrantKinds -> Nat]
    /\ frames \in Seq(Frames)
Total == used["plain"] + used["forced"]
\* The one use there may have been ended the evaluation of its command: nothing is
\* under evaluation any more.
UsedOnce ==
    /\ Total = 0 \/ (Total = 1 /\ frames = <<>> /\ (ret = "grant" \/ verdict = "grant"))
    /\ ret = "grant" => frames = <<>> /\ Total = 1 /\ verdict = None
    /\ verdict = "grant" => Total = 1
    /\ verdict # None => frames = <<>> /\ ret = None
    /\ verdict = None => primary # "grant"
\* The outermost command is a view of the line, and past its first stage no block
\* matches it.
OutermostUnblocked ==
    /\ frames # <<>> => /\ frames[1].node \in Roots
                        /\ frames[1].stage # "enter" => ~Blocks(frames[1].node)
    /\ Blocks(1) => used["plain"] = 0
EvalInv == Typed /\ UsedOnce /\ OutermostUnblocked

\* The text is the same in every view, so a block that matches one matches all.
LEMMA SameText ==
    ASSUME cmd \in Lines
    PROVE  /\ 1 \in Nodes /\ Nodes \subseteq Nat
           /\ \A i \in Roots : Blocks(i) <=> Blocks(1)
           /\ 1 \in Roots
<1>1. IsLine(cmd)
  BY LinesAssumption
<1>2. cmd \in Seq(Command) /\ cmd # <<>> /\ \A i \in DOMAIN cmd : cmd[i].parent < i
  BY <1>1 DEF IsLine
<1>3. 1 \in Nodes /\ Nodes \subseteq Nat
  BY <1>2 DEF Nodes
<1>4. cmd[1].parent = 0
  <2>1. cmd[1].parent \in Nat /\ cmd[1].parent < 1
    <3>1. cmd[1] \in Command /\ cmd[1].parent < 1
      BY <1>2, <1>3 DEF Nodes
    <3> QED BY <3>1 DEF Command
  <2> QED BY <2>1
<1>5. \A i \in Roots : cmd[i].mark = cmd[1].mark
  BY <1>1 DEF IsLine, Roots, Nodes
<1> QED BY <1>3, <1>4, <1>5 DEF Roots, Blocks

LEMMA EvalInvInit == EvalInit => EvalInv
<1> SUFFICES ASSUME EvalInit PROVE EvalInv
  OBVIOUS
<1>1. 1 \in Nodes /\ 1 \in Roots
  BY SameText DEF EvalInit
<1>2. Entered(1) \in Frames
  BY <1>1 DEF Entered, Frames
<1>3. grants \in [GrantKinds -> Nat]
  BY EvaluatorBounds DEF EvalInit, EvalStart
<1>4. Typed
  BY <1>2, <1>3 DEF EvalInit, EvalStart, Typed
<1>5. UsedOnce
  BY DEF EvalInit, EvalStart, UsedOnce, Total, GrantKinds, None
<1>6. OutermostUnblocked
  BY <1>1 DEF EvalInit, EvalStart, OutermostUnblocked, Entered, GrantKinds
<1> QED BY <1>4, <1>5, <1>6 DEF EvalInv

\* What the stack of commands looks like after a command proceeds or returns.
LEMMA ProceedFrames ==
    ASSUME Typed, frames # <<>>, NEW s \in {"open", "early", "whole", "late"}, Proceed(s)
    PROVE  /\ frames' \in Seq(Frames) /\ frames' # <<>> /\ Len(frames') = Len(frames)
           /\ ret' = ret
           /\ frames'[1].node = frames[1].node
           /\ frames'[1].stage = IF Len(frames) = 1 THEN s ELSE frames[1].stage
<1>1. Len(frames) \in DOMAIN frames /\ frames[Len(frames)] \in Frames /\ 1 \in DOMAIN frames
  BY DEF Typed
<1>2. [frames[Len(frames)] EXCEPT !.stage = s, !.kid = 0] \in Frames
  BY <1>1 DEF Frames
<1>3. frames' = [frames EXCEPT ![Len(frames)] = [@ EXCEPT !.stage = s, !.kid = 0]]
  BY <1>1 DEF Proceed, Typed, Frames
<1>4. frames' \in Seq(Frames) /\ Len(frames') = Len(frames)
  BY <1>1, <1>2, <1>3 DEF Typed
<1>5. frames[1] \in Frames
  BY <1>1 DEF Typed
<1> QED BY <1>1, <1>3, <1>4, <1>5 DEF Proceed, Frames

LEMMA LeaveFrames ==
    ASSUME Typed, frames # <<>>, NEW r, Leave(r)
    PROVE  /\ frames' \in Seq(Frames) /\ ret' = r
           /\ Len(frames) = 1 <=> frames' = <<>>
           /\ frames' # <<>> => frames'[1] = frames[1]
<1>1. Len(frames) \in Nat /\ Len(frames) >= 1 /\ frames \in Seq(Frames)
  BY DEF Typed
<1>2. PICK n : n = Len(frames)
  OBVIOUS
<1>3. frames' = SubSeq(frames, 1, n - 1) /\ ret' = r
  BY <1>2 DEF Leave
<1>4. frames' \in Seq(Frames) /\ Len(frames') = n - 1 /\ \A p \in 1..(n - 1) : frames'[p] = frames[p]
  BY <1>1, <1>2, <1>3
<1>5. n # 1 => 1 \in 1..(n - 1) /\ frames' # <<>>
  BY <1>1, <1>2, <1>4
<1>6. n = 1 => frames' = <<>>
  BY <1>4
<1> QED BY <1>2, <1>3, <1>4, <1>5, <1>6

LEMMA UseAdds ==
    ASSUME Typed, NEW kinds \in SUBSET GrantKinds, Use(kinds)
    PROVE  /\ grants' \in [GrantKinds -> Nat] /\ used' \in [GrantKinds -> Nat]
           /\ Total' = Total + 1
           /\ "plain" \notin kinds => used'["plain"] = used["plain"]
<1>1. PICK k \in kinds : /\ grants[k] > 0 /\ grants' = [grants EXCEPT ![k] = @ - 1]
                         /\ used' = [used EXCEPT ![k] = @ + 1]
  BY DEF Use
<1>2. k \in GrantKinds /\ grants[k] \in Nat /\ used[k] \in Nat
  BY <1>1 DEF Typed
<1>3. grants' \in [GrantKinds -> Nat] /\ used' \in [GrantKinds -> Nat]
  BY <1>1, <1>2 DEF Typed
<1>4. used'["plain"] = IF k = "plain" THEN used["plain"] + 1 ELSE used["plain"]
  BY <1>1, <1>2 DEF Typed, GrantKinds
<1>5. used'["forced"] = IF k = "forced" THEN used["forced"] + 1 ELSE used["forced"]
  BY <1>1, <1>2 DEF Typed, GrantKinds
<1>6. used["plain"] \in Nat /\ used["forced"] \in Nat /\ k \in {"plain", "forced"}
  BY <1>2 DEF Typed, GrantKinds
<1>7. Total' = Total + 1
  BY <1>4, <1>5, <1>6 DEF Total
<1> QED BY <1>1, <1>3, <1>4, <1>7

\* A command that goes on to its next stage without a grant.
LEMMA ProceedInv ==
    ASSUME EvalInv, At("enter") \/ At("open") \/ At("early") \/ At("whole"),
           NEW s \in {"open", "early", "late", "whole"}, Proceed(s),
           Frame.stage = "enter" => ~Blocks(Here),
           UNCHANGED <<cmd, offered, store, late, views>>
    PROVE  EvalInv'
<1>1. Typed /\ frames # <<>> /\ ret = None
  BY DEF EvalInv, At
<1>2. /\ frames' \in Seq(Frames) /\ frames' # <<>> /\ Len(frames') = Len(frames) /\ ret' = ret
      /\ frames'[1].node = frames[1].node
      /\ frames'[1].stage = IF Len(frames) = 1 THEN s ELSE frames[1].stage
  BY <1>1, ProceedFrames
<1>3. Typed'
  BY <1>1, <1>2 DEF Typed, store, Frames, Nodes
<1>4. UsedOnce'
  BY <1>1, <1>2 DEF EvalInv, UsedOnce, store, views, Total, None
<1>5. Len(frames) = 1 => ~Blocks(frames[1].node)
  BY <1>1 DEF Frame, Here, EvalInv, OutermostUnblocked
<1>6. OutermostUnblocked'
  BY <1>1, <1>2, <1>5 DEF EvalInv, OutermostUnblocked, store, Roots, Nodes, Blocks
<1> QED BY <1>3, <1>4, <1>6 DEF EvalInv

\* A command that returns without a grant.
LEMMA LeaveInv ==
    ASSUME EvalInv, frames # <<>>, NEW r, r # "grant", Leave(r),
           UNCHANGED <<cmd, offered, store, late, views>>
    PROVE  EvalInv'
<1>1. Typed
  BY DEF EvalInv
<1>2. /\ frames' \in Seq(Frames) /\ ret' = r
      /\ frames' # <<>> => frames'[1] = frames[1]
  BY <1>1, LeaveFrames
<1>3. Typed'
  BY <1>1, <1>2 DEF Typed, store, Frames, Nodes
<1>4. UsedOnce'
  BY <1>2 DEF EvalInv, UsedOnce, store, views, Total, None
<1>5. OutermostUnblocked'
  BY <1>2 DEF EvalInv, OutermostUnblocked, store, Roots, Nodes, Blocks
<1> QED BY <1>3, <1>4, <1>5 DEF EvalInv

\* A command that returns with the grant it used up: the outermost one.
LEMMA GrantInv ==
    ASSUME EvalInv, frames # <<>>, ret = None, NEW kinds \in SUBSET GrantKinds,
           Covers(kinds), Use(kinds), Leave("grant"),
           "plain" \in kinds => ~Blocks(Here),
           UNCHANGED <<cmd, offered, late, views>>
    PROVE  EvalInv'
<1>1. Typed /\ Len(frames) = 1 /\ Here = frames[1].node /\ 1 \in DOMAIN frames
  <2>1. Typed /\ Len(frames) \in Nat
    BY DEF EvalInv, Typed
  <2>2. Len(frames) = 1
    BY <2>1 DEF Covers, Depth
  <2> QED BY <2>1, <2>2 DEF Here, Frame
<1>2. frames' = <<>> /\ ret' = "grant"
  BY <1>1, LeaveFrames
<1>3. /\ grants' \in [GrantKinds -> Nat] /\ used' \in [GrantKinds -> Nat]
      /\ Total' = Total + 1
      /\ "plain" \notin kinds => used'["plain"] = used["plain"]
  BY <1>1, UseAdds
<1>4. Typed'
  BY <1>1, <1>2, <1>3 DEF Typed
<1>5. Total = 0 /\ verdict = None
  BY DEF EvalInv, UsedOnce
<1>6. UsedOnce'
  BY <1>2, <1>3, <1>5 DEF EvalInv, UsedOnce, views, None
<1>7. "plain" \in kinds => ~Blocks(1)
  BY <1>1, SameText DEF EvalInv, Typed, OutermostUnblocked
<1>8. OutermostUnblocked'
  BY <1>2, <1>3, <1>7 DEF EvalInv, OutermostUnblocked, Blocks
<1> QED BY <1>4, <1>6, <1>8 DEF EvalInv

LEMMA EvalInvStep == EvalInv /\ [EvalNext]_evalVars => EvalInv'
<1> SUFFICES ASSUME EvalInv, [EvalNext]_evalVars PROVE EvalInv'
  OBVIOUS
<1>t. Typed
  BY DEF EvalInv
<1>s. Lifting \in SUBSET GrantKinds /\ "plain" \notin Lifting
  BY DEF Lifting, GrantKinds
<1>1. CASE Enter
  <2>1. frames # <<>> /\ ret = None /\ Frame.stage = "enter"
    BY <1>1 DEF Enter, At
  <2>2. CASE Covers(Lifting) /\ Use(Lifting) /\ Leave("grant")
    BY <1>1, <1>s, <2>1, <2>2, GrantInv DEF Enter
  <2>3. CASE ~Blocks(Here) /\ Proceed("open") /\ UNCHANGED store
    BY <1>1, <2>1, <2>3, ProceedInv DEF Enter, At
  <2>4. CASE UNCHANGED store /\ \E r \in {"deny", "unfinished", "clear"} : Leave(r)
    BY <1>1, <2>1, <2>4, LeaveInv DEF Enter
  <2> QED BY <1>1, <2>2, <2>3, <2>4 DEF Enter
<1>2. CASE Open
  <2>1. frames # <<>> /\ ret = None /\ Frame.stage = "open"
    BY <1>2 DEF Open, At
  <2>2. CASE Covers(GrantKinds) /\ Use(GrantKinds) /\ Leave("grant")
    <3>1. ~Blocks(Here)
      <4>1. Len(frames) \in Nat /\ Len(frames) - 1 = 0
        BY <1>t, <2>2 DEF Covers, Depth, Typed
      <4>2. Frame = frames[1]
        BY <4>1 DEF Frame
      <4> QED BY <2>1, <4>2 DEF Here, EvalInv, OutermostUnblocked
    <3> QED BY <1>2, <2>1, <2>2, <3>1, GrantInv DEF Open
  <2>3. CASE Proceed("early") /\ UNCHANGED store
    BY <1>2, <2>1, <2>3, ProceedInv DEF Open
  <2>4. CASE UNCHANGED store /\ \E r \in {"unfinished", "clear"} : Leave(r)
    BY <1>2, <2>1, <2>4, LeaveInv DEF Open
  <2> QED BY <1>2, <2>2, <2>3, <2>4 DEF Open
<1>3. CASE Descend
  <2>1. PICK j \in Pending : frames' = Append([frames EXCEPT ![Len(frames)].kid = j], Entered(j))
    BY <1>3 DEF Descend
  <2>2. frames # <<>> /\ ret = None /\ UNCHANGED <<cmd, offered, store, late, ret, views>>
    BY <1>3 DEF Descend, At
  <2>3. j \in Nodes
    BY DEF Pending, Kids
  <2>4. Len(frames) \in DOMAIN frames /\ 1 \in DOMAIN frames
    BY <1>t, <2>2 DEF Typed
  <2>5. DEFINE up == [frames EXCEPT ![Len(frames)].kid = j]
  <2>6. up \in Seq(Frames) /\ Len(up) = Len(frames) /\ up[1].node = frames[1].node
        /\ up[1].stage = frames[1].stage
    <3>1. frames[Len(frames)] \in Frames /\ frames[1] \in Frames
      BY <1>t, <2>4 DEF Typed
    <3>2. [frames[Len(frames)] EXCEPT !.kid = j] \in Frames
      BY <2>3, <3>1 DEF Frames
    <3>3. up = [frames EXCEPT ![Len(frames)] = [frames[Len(frames)] EXCEPT !.kid = j]]
      OBVIOUS
    <3> HIDE DEF up
    <3>4. up \in Seq(Frames) /\ Len(up) = Len(frames)
      BY <1>t, <2>4, <3>2, <3>3 DEF Typed
    <3>5. up[1] = IF Len(frames) = 1 THEN [frames[1] EXCEPT !.kid = j] ELSE frames[1]
      BY <1>t, <2>4, <3>3 DEF Typed
    <3> QED BY <3>1, <3>4, <3>5 DEF Frames
  <2>7. Entered(j) \in Frames
    BY <2>3 DEF Entered, Frames
  <2> HIDE DEF up
  <2>8. frames' = Append(up, Entered(j))
    BY <2>1 DEF up
  <2>9. frames' \in Seq(Frames) /\ frames' # <<>> /\ frames'[1] = up[1]
    BY <2>4, <2>6, <2>7, <2>8, <1>t DEF Typed
  <2>10. Typed'
    BY <1>t, <2>2, <2>9 DEF Typed, store, Frames, Nodes
  <2>11. UsedOnce'
    BY <2>2, <2>9 DEF EvalInv, UsedOnce, store, views, Total, None
  <2>12. OutermostUnblocked'
    BY <2>2, <2>6, <2>9 DEF EvalInv, OutermostUnblocked, store, Roots, Nodes, Blocks
  <2> QED BY <2>10, <2>11, <2>12 DEF EvalInv
<1>4. CASE Ascend
  <2>1. frames # <<>> /\ ret # None /\ ret # "grant"
    BY <1>4 DEF Ascend, EvalInv, UsedOnce
  <2>2. CASE Decides(ret)
    BY <1>4, <2>1, <2>2, LeaveInv DEF Ascend
  <2>3. CASE ~Decides(ret)
    <3>1. /\ frames' = [frames EXCEPT ![Len(frames)].hit = @ \/ ret = "listed"]
          /\ ret' = None /\ UNCHANGED <<cmd, offered, store, late, views>>
      BY <1>4, <2>3 DEF Ascend
    <3>2. Len(frames) \in DOMAIN frames /\ 1 \in DOMAIN frames
      BY <1>t, <2>1 DEF Typed
    <3>3. frames[Len(frames)] \in Frames /\ frames[1] \in Frames
      BY <1>t, <3>2 DEF Typed
    <3>4. PICK top \in Frames : /\ frames' = [frames EXCEPT ![Len(frames)] = top]
                                /\ top.node = Frame.node /\ top.stage = Frame.stage
      <4>1. DEFINE top == [frames[Len(frames)] EXCEPT !.hit = @ \/ ret = "listed"]
      <4>2. top \in Frames /\ top.node = Frame.node /\ top.stage = Frame.stage
        BY <3>3 DEF Frames, Frame
      <4>3. frames' = [frames EXCEPT ![Len(frames)] = top]
        BY <3>1
      <4> QED BY <4>2, <4>3
    <3>5. frames' \in Seq(Frames) /\ frames' # <<>>
      BY <1>t, <2>1, <3>2, <3>4 DEF Typed
    <3>6. frames'[1].node = frames[1].node /\ frames'[1].stage = frames[1].stage
      BY <1>t, <3>2, <3>4 DEF Typed, Frame
    <3>7. Typed'
      BY <1>t, <3>1, <3>5 DEF Typed, store, Frames, Nodes
    <3>8. UsedOnce'
      BY <2>1, <3>1 DEF EvalInv, UsedOnce, store, views, Total, None
    <3>9. OutermostUnblocked'
      BY <2>1, <3>1, <3>6 DEF EvalInv, OutermostUnblocked, store, Roots, Nodes, Blocks
    <3> QED BY <3>7, <3>8, <3>9 DEF EvalInv
  <2> QED BY <2>2, <2>3
<1>5. CASE Gate
  <2>1. frames # <<>> /\ ret = None /\ Frame.stage = "early"
    BY <1>5 DEF Gate, At
  <2>2. CASE Proceed("whole")
    BY <1>5, <2>1, <2>2, ProceedInv DEF Gate
  <2>3. CASE \E r \in {"unfinished", "listed", "clear"} : Leave(r)
    BY <1>5, <2>1, <2>3, LeaveInv DEF Gate
  <2> QED BY <1>5, <2>2, <2>3 DEF Gate, Credit
<1>6. CASE Whole
  <2>1. frames # <<>> /\ ret = None /\ Frame.stage = "whole"
    BY <1>6 DEF Whole, At
  <2>2. CASE Covers(GrantKinds) /\ Use(GrantKinds) /\ Leave("grant")
    <3>1. ~Blocks(Here)
      <4>1. Len(frames) \in Nat /\ Len(frames) - 1 = 0
        BY <1>t, <2>2 DEF Covers, Depth, Typed
      <4>2. Frame = frames[1]
        BY <4>1 DEF Frame
      <4> QED BY <2>1, <4>2 DEF Here, EvalInv, OutermostUnblocked
    <3> QED BY <1>6, <2>1, <2>2, <3>1, GrantInv DEF Whole
  <2>3. CASE Proceed("late") /\ UNCHANGED store
    BY <1>6, <2>1, <2>3, ProceedInv DEF Whole
  <2>4. CASE UNCHANGED store /\ \E r \in {"unfinished", "clear"} : Leave(r)
    BY <1>6, <2>1, <2>4, LeaveInv DEF Whole
  <2> QED BY <1>6, <2>2, <2>3, <2>4 DEF Whole
<1>7. CASE Packs
  <2>1. frames # <<>> /\ \E r \in {"unfinished", "deny", "listed", "clear"} : Leave(r)
    BY <1>7 DEF Packs, At, Credit
  <2> QED BY <1>7, <2>1, LeaveInv DEF Packs
<1>8. CASE FanOut
  <2>1. frames = <<>> /\ verdict = None /\ ret' = None /\ UNCHANGED <<cmd, offered, store, late>>
    BY <1>8 DEF FanOut
  <2>2. primary' = ret \/ primary' = primary
    BY <1>8 DEF FanOut
  <2>3. CASE EndsEvaluation(ret)
    <3>1. verdict' = (IF ret \in Allowing THEN primary' ELSE ret) /\ frames' = <<>>
      BY <1>8, <2>1, <2>3 DEF FanOut
    <3>2. Typed'
      BY <1>t, <2>1, <3>1 DEF Typed, store, Frames, Nodes
    <3>3. verdict' = "grant" <=> ret = "grant"
      BY <2>1, <2>2, <3>1 DEF EvalInv, UsedOnce, Allowing
    <3>4. verdict' = None => primary' # "grant"
      BY <2>2, <3>1, <3>3, <2>1 DEF EvalInv, UsedOnce, None
    <3>5. UsedOnce'
      BY <2>1, <3>1, <3>3, <3>4 DEF EvalInv, UsedOnce, store, Total, None
    <3>6. OutermostUnblocked'
      BY <2>1, <3>1 DEF EvalInv, OutermostUnblocked, store, Blocks
    <3> QED BY <3>2, <3>5, <3>6 DEF EvalInv
  <2>4. CASE ~EndsEvaluation(ret)
    <3>1. ret \in Allowing
      BY <2>4 DEF EndsEvaluation
    <3>2. Total = 0 /\ primary' # "grant"
      BY <2>1, <2>2, <3>1 DEF EvalInv, UsedOnce, Allowing, None
    <3>3. CASE late
      <4>1. verdict' = "unfinished" /\ frames' = <<>>
        BY <1>8, <2>1, <2>4, <3>3 DEF FanOut
      <4>2. Typed'
        BY <1>t, <2>1, <4>1 DEF Typed, store, Frames, Nodes
      <4>3. UsedOnce'
        BY <2>1, <3>2, <4>1 DEF UsedOnce, store, Total, None
      <4>4. OutermostUnblocked'
        BY <2>1, <4>1 DEF EvalInv, OutermostUnblocked, store, Blocks
      <4> QED BY <4>2, <4>3, <4>4 DEF EvalInv
    <3>4. CASE ~late
      <4>1. PICK j \in Other : frames' = <<Entered(j)>> /\ UNCHANGED verdict
        BY <1>8, <2>4, <3>4 DEF FanOut
      <4>2. j \in Roots /\ j \in Nodes
        BY DEF Other, Roots
      <4>3. Entered(j) \in Frames /\ Entered(j).node = j /\ Entered(j).stage = "enter"
        BY <4>2 DEF Entered, Frames
      <4>4. frames' \in Seq(Frames)
        BY <4>1, <4>3
      <4>5. Typed'
        BY <1>t, <2>1, <4>4 DEF Typed, store, Frames, Nodes
      <4>6. UsedOnce'
        BY <2>1, <3>2, <4>1 DEF UsedOnce, store, Total, None
      <4>7. OutermostUnblocked'
        BY <2>1, <4>1, <4>2, <4>3 DEF EvalInv, OutermostUnblocked, store, Blocks, Roots, Nodes
      <4> QED BY <4>5, <4>6, <4>7 DEF EvalInv
    <3> QED BY <3>3, <3>4
  <2> QED BY <2>3, <2>4
<1>9. CASE Expire
  <2>1. UNCHANGED <<cmd, offered, store, frames, ret, views>>
    BY <1>9 DEF Expire
  <2> QED BY <2>1 DEF EvalInv, Typed, UsedOnce, OutermostUnblocked, store, views, Frames, Nodes, Roots, Blocks, Total
<1>10. CASE RedeemMeanwhile
  <2>1. UNCHANGED <<cmd, used, frames, ret, views>>
    BY <1>10 DEF RedeemMeanwhile
  <2>2. grants' \in [GrantKinds -> Nat]
    BY <1>10, <1>t DEF RedeemMeanwhile, Typed
  <2> QED BY <2>1, <2>2 DEF EvalInv, Typed, UsedOnce, OutermostUnblocked, views, Frames, Nodes, Roots, Blocks, Total
<1>11. CASE UNCHANGED evalVars
  BY <1>11 DEF evalVars, EvalInv, Typed, UsedOnce, OutermostUnblocked, store, views, Frames, Nodes, Roots, Blocks, Total
<1> QED BY <1>1, <1>2, <1>3, <1>4, <1>5, <1>6, <1>7, <1>8, <1>9, <1>10, <1>11 DEF EvalNext

\* A line uses up one grant at most, in all its views and nested commands, and a
\* line that used one up runs (evaluator.rs:14066-14072, the order of GH#537); for
\* a blocked line no plain grant is used up (evaluator.rs:14163-14172).
THEOREM GrantUsedByLineThatRuns == EvalSpec => []UsedMeansRuns
<1>1. EvalInv => UsedMeansRuns
  BY DEF EvalInv, UsedOnce, OutermostUnblocked, UsedMeansRuns, Total, None
<1> QED BY EvalInvInit, EvalInvStep, <1>1, PTL DEF EvalSpec

--------------------------------------------------------------------------------
(* What a line deserves                                                    *)

\* Sane: in a set of harmless commands that holds all that is judged of what its
\* members run.
Bare(i) == {k \in Nodes : cmd[k].parent = i /\ ~Shields(i, cmd[k].when)}
Sane(i) == \E G \in SUBSET Nodes : i \in G /\ \A g \in G : ~OwnHarm(g) /\ Bare(g) \subseteq G

\* What the stages a command has passed tell of it, and of the commands judged in it.
FrameOK(f) ==
    /\ f.stage # "enter" => ~Blocks(f.node) /\ ~Allows(f.node) /\ Depths[f.node] <= MaxNesting
    /\ f.stage \in {"early", "whole", "late"} => ~(cmd[f.node].mark = "listed" /\ cmd[f.node].seen)
    /\ f.stage = "late" => cmd[f.node].mark # "listed"
    /\ f.stage \in {"early", "late"} => \A k \in Kids(f.node, f.stage) : k < f.kid => Sane(k)
    /\ f.stage \in {"whole", "late"} => \A k \in Kids(f.node, "early") : Sane(k)
\* A nested command of it is being judged, or was the last one judged.
Waits(f) == f.stage \in {"early", "late"} /\ f.kid \in Kids(f.node, f.stage)

\* The commands under evaluation are nested in one another, and as deep as they stand.
ChainInv ==
    /\ \A p \in DOMAIN frames : FrameOK(frames[p]) /\ Depths[frames[p].node] = p - 1
    /\ \A p \in DOMAIN frames : p + 1 \in DOMAIN frames => Waits(frames[p]) /\ frames[p + 1].node = frames[p].kid
    /\ frames # <<>> => frames[1].node = view
\* The command last judged.
Last == IF frames = <<>> THEN view ELSE Frame.kid
RetInv ==
    /\ ret # None /\ frames # <<>> => Waits(Frame)
    /\ ret = None /\ frames # <<>> /\ Waits(Frame) => Sane(Frame.kid)
    /\ frames = <<>> /\ verdict = None => ret # None
    /\ ret \in Allowing => Sane(Last)
    /\ ret = "deny" => ~Sane(Last)
ViewInv ==
    /\ view \in Roots /\ \A r \in Roots : r < view => Sane(r)
    /\ view # 1 => primary \in Allowing
    /\ verdict \in Allowing => ~Harmful
    /\ verdict = "deny" => Harmful
MeritInv == ChainInv /\ RetInv /\ ViewInv

\* A line with a grant from the start that the configuration lets it use.
Honoured == offered["forced"] > 0 \/ (offered["plain"] > 0 /\ ~Blocks(1))
\* Codes offered are there or used up.
StillThere == \A k \in GrantKinds : offered[k] <= grants[k] + used[k]
\* Such a line uses its grant before its outermost command is judged on its own words,
\* and before anything nested in it is, unless the predicate sees nothing there.
HonourInv ==
    /\ StillThere
    /\ ret = "unfinished" \/ verdict = "unfinished" => late
    /\ Honoured =>
        /\ frames # <<>> =>
            /\ frames[1].stage # "late"
            /\ frames[1].stage \in {"early", "whole"} => ~cmd[frames[1].node].seen
        /\ (frames = <<>> /\ ret = "deny") \/ verdict = "deny" => MissedHarm
\* What is returned is an answer.
ReplyInv ==
    /\ late \in BOOLEAN /\ offered \in [GrantKinds -> Nat]
    /\ ret \in {None} \cup Answers /\ primary \in {None} \cup Answers /\ verdict \in {None} \cup Answers

\* A set of numbers has a least one.
LEMMA LeastOne == ASSUME NEW S \in SUBSET Nat, S # {} PROVE \E m \in S : \A k \in S : m <= k
<1> DEFINE below == {p \in Nat \X Nat : p[1] < p[2]}
<1>1. IsWellFoundedOn(below, Nat)
  BY NatLessThanWellFounded, Zenon DEF OpToRel
<1>2. \A i, j \in Nat : <<i, j>> \in below <=> i < j
  OBVIOUS
<1> HIDE DEF below
<1>3. PICK m \in S : \A k \in S : <<k, m>> \notin below
  BY <1>1, WFMin
<1>4. \A k \in S : ~(k < m)
  BY <1>2, <1>3
<1> QED BY <1>4

\* A command is nested in one that comes before it.
LEMMA Nesting ==
    ASSUME cmd \in Lines
    PROVE  /\ Len(cmd) \in Nat /\ Nodes = 1..Len(cmd) /\ Nodes \subseteq Nat
           /\ \A i \in Nodes : /\ cmd[i].parent \in Nat /\ cmd[i].parent < i
                               /\ cmd[i].parent = 0 \/ cmd[i].parent \in Nodes
                               /\ cmd[i].when \in {"early", "late"} /\ cmd[i].mark \in Marks
                               /\ cmd[i].seen \in BOOLEAN /\ cmd[i].find \in Finds
<1>1. cmd \in Seq(Command) /\ \A i \in DOMAIN cmd : cmd[i].parent < i
  BY LinesAssumption DEF IsLine
<1>2. Len(cmd) \in Nat /\ Nodes = 1..Len(cmd)
  BY <1>1 DEF Nodes
<1>3. ASSUME NEW i \in Nodes
      PROVE /\ cmd[i].parent \in Nat /\ cmd[i].parent < i
            /\ cmd[i].parent = 0 \/ cmd[i].parent \in Nodes
            /\ cmd[i].when \in {"early", "late"} /\ cmd[i].mark \in Marks
            /\ cmd[i].seen \in BOOLEAN /\ cmd[i].find \in Finds
  <2>1. cmd[i] \in Command /\ cmd[i].parent < i
    BY <1>1 DEF Nodes
  <2>2. cmd[i].parent \in Nat /\ i \in 1..Len(cmd)
    BY <1>2, <2>1 DEF Command
  <2>3. cmd[i].parent = 0 \/ cmd[i].parent \in Nodes
    BY <1>2, <2>1, <2>2
  <2> QED BY <2>1, <2>2, <2>3 DEF Command
<1> QED BY <1>2, <1>3

\* What is told of a command from the one it is nested in is told of every command.
Told(d, n, V, root, up) ==
    /\ d \in [1..n -> V]
    /\ \A i \in 1..n : d[i] = IF cmd[i].parent = 0 THEN root ELSE up[<<i, d[cmd[i].parent]>>]
LEMMA ToldDownwards ==
    ASSUME cmd \in Lines, NEW V, NEW root \in V, NEW up, up \in [Nodes \X V -> V]
    PROVE  \E d : Told(d, Len(cmd), V, root, up)
<1> DEFINE open == {n \in 0..Len(cmd) : ~\E d : Told(d, n, V, root, up)}
<1>1. Len(cmd) \in Nat /\ Nodes = 1..Len(cmd)
  BY Nesting
<1>2. \E d : Told(d, 0, V, root, up)
  <2>1. [i \in 1..0 |-> root] \in [1..0 -> V] /\ 1..0 = {}
    OBVIOUS
  <2> QED BY <2>1 DEF Told
<1>3. ASSUME NEW n \in 0..Len(cmd), n # Len(cmd), \E d : Told(d, n, V, root, up) PROVE \E d : Told(d, n + 1, V, root, up)
  <2>1. PICK d : Told(d, n, V, root, up)
    BY <1>3
  <2>d. /\ d \in [1..n -> V]
        /\ \A i \in 1..n : d[i] = IF cmd[i].parent = 0 THEN root ELSE up[<<i, d[cmd[i].parent]>>]
    BY <2>1 DEF Told
  <2>2. n \in Nat /\ n + 1 \in Nodes /\ n + 1 \notin 1..n /\ \A i \in 1..(n + 1) : i \in 1..n \/ i = n + 1
    BY <1>1, <1>3
  <2>3. \A i \in 1..(n + 1) : cmd[i].parent = 0 \/ cmd[i].parent \in 1..n
    BY <1>1, <1>3, <2>2, Nesting
  <2> DEFINE last == IF cmd[n + 1].parent = 0 THEN root ELSE up[<<n + 1, d[cmd[n + 1].parent]>>]
             e == [i \in 1..(n + 1) |-> IF i = n + 1 THEN last ELSE d[i]]
  <2>4. last \in V
    <3>1. CASE cmd[n + 1].parent = 0
      BY <3>1
    <3>2. CASE cmd[n + 1].parent # 0
      <4>1. d[cmd[n + 1].parent] \in V
        BY <2>d, <2>2, <2>3, <3>2
      <4> QED BY <2>2, <3>2, <4>1
    <3> QED BY <3>1, <3>2
  <2>5. e[n + 1] = last /\ \A i \in 1..n : e[i] = d[i]
    BY <2>2
  <2>6. e \in [1..(n + 1) -> V]
    BY <2>d, <2>2, <2>4
  <2> HIDE DEF e
  <2>7. \A i \in 1..(n + 1) : e[i] = IF cmd[i].parent = 0 THEN root ELSE up[<<i, e[cmd[i].parent]>>]
    BY <2>d, <2>2, <2>3, <2>5
  <2> QED BY <2>6, <2>7 DEF Told
<1>4. open = {}
  <2>1. SUFFICES ASSUME open # {} PROVE FALSE
    OBVIOUS
  <2>0. open \in SUBSET Nat
    BY <1>1
  <2>2. PICK m \in open : \A k \in open : m <= k
    <3> HIDE DEF open
    <3> QED BY <2>0, <2>1, LeastOne
  <2>3. m # 0 /\ m \in 0..Len(cmd)
    BY <1>2, <2>2
  <2>4. m - 1 \in 0..Len(cmd) /\ m - 1 # Len(cmd) /\ m - 1 \notin open /\ (m - 1) + 1 = m
    BY <1>1, <2>2, <2>3
  <2>5. \E d : Told(d, m - 1, V, root, up)
    BY <2>4
  <2>6. \E d : Told(d, (m - 1) + 1, V, root, up)
    BY <1>3, <2>4, <2>5
  <2> QED BY <2>2, <2>4, <2>6
<1>5. \E d : Told(d, Len(cmd), V, root, up)
  BY <1>1, <1>4
<1> QED BY <1>5

LEMMA DepthsTold ==
    ASSUME cmd \in Lines
    PROVE  Depths = [i \in Nodes |-> IF cmd[i].parent = 0 THEN 0 ELSE Depths[cmd[i].parent] + 1]
<1> DEFINE up == [x \in Nodes \X Nat |-> x[2] + 1]
<1>1. up \in [Nodes \X Nat -> Nat]
  OBVIOUS
<1>2. \A i \in Nodes, v \in Nat : up[<<i, v>>] = v + 1
  OBVIOUS
<1> HIDE DEF up
<1>3. PICK d : Told(d, Len(cmd), Nat, 0, up)
  BY <1>1, ToldDownwards
<1>d. /\ d \in [Nodes -> Nat]
      /\ \A i \in Nodes : d[i] = IF cmd[i].parent = 0 THEN 0 ELSE up[<<i, d[cmd[i].parent]>>]
  BY <1>3, Nesting DEF Told
<1>4. \A i \in Nodes : d[i] = IF cmd[i].parent = 0 THEN 0 ELSE d[cmd[i].parent] + 1
  BY <1>2, <1>d, Nesting
<1>5. d = [i \in Nodes |-> IF cmd[i].parent = 0 THEN 0 ELSE d[cmd[i].parent] + 1]
  BY <1>d, <1>4
<1> QED BY <1>5 DEF Depths

LEMMA JudgedTold ==
    ASSUME cmd \in Lines
    PROVE  Judged = [i \in Nodes |-> \/ cmd[i].parent = 0
                                     \/ Judged[cmd[i].parent] /\ ~Shields(cmd[i].parent, cmd[i].when)]
<1> DEFINE up == [x \in Nodes \X BOOLEAN |-> x[2] /\ ~Shields(cmd[x[1]].parent, cmd[x[1]].when)]
<1>1. up \in [Nodes \X BOOLEAN -> BOOLEAN]
  OBVIOUS
<1>2. \A i \in Nodes, v \in BOOLEAN : up[<<i, v>>] = (v /\ ~Shields(cmd[i].parent, cmd[i].when))
  OBVIOUS
<1> HIDE DEF up
<1>3. PICK d : Told(d, Len(cmd), BOOLEAN, TRUE, up)
  BY <1>1, ToldDownwards
<1>d. /\ d \in [Nodes -> BOOLEAN]
      /\ \A i \in Nodes : d[i] = IF cmd[i].parent = 0 THEN TRUE ELSE up[<<i, d[cmd[i].parent]>>]
  BY <1>3, Nesting DEF Told
<1>4. \A i \in Nodes : d[i] = (\/ cmd[i].parent = 0
                               \/ d[cmd[i].parent] /\ ~Shields(cmd[i].parent, cmd[i].when))
  <2> SUFFICES ASSUME NEW i \in Nodes
               PROVE  d[i] = (\/ cmd[i].parent = 0
                              \/ d[cmd[i].parent] /\ ~Shields(cmd[i].parent, cmd[i].when))
    OBVIOUS
  <2>1. CASE cmd[i].parent = 0
    BY <1>d, <2>1
  <2>2. CASE cmd[i].parent # 0
    <3>1. d[cmd[i].parent] \in BOOLEAN
      BY <1>d, <2>2, Nesting
    <3>2. d[i] = (d[cmd[i].parent] /\ ~Shields(cmd[i].parent, cmd[i].when))
      BY <1>2, <1>d, <2>2, <3>1
    <3> QED BY <2>2, <3>2
  <2> QED BY <2>1, <2>2
<1>5. d = [i \in Nodes |-> \/ cmd[i].parent = 0
                           \/ d[cmd[i].parent] /\ ~Shields(cmd[i].parent, cmd[i].when)]
  BY <1>d, <1>4
<1> QED BY <1>5 DEF Judged

LEMMA MissedTold ==
    ASSUME cmd \in Lines
    PROVE  Missed = [i \in Nodes |->
               /\ cmd[i].parent # 0
               /\ \/ Missed[cmd[i].parent]
                  \/ cmd[cmd[i].parent].parent = 0 /\ ~cmd[cmd[i].parent].seen /\ cmd[i].when = "early"]
<1> DEFINE first(i) == cmd[cmd[i].parent].parent = 0 /\ ~cmd[cmd[i].parent].seen /\ cmd[i].when = "early"
           up == [x \in Nodes \X BOOLEAN |-> x[2] \/ first(x[1])]
<1>1. up \in [Nodes \X BOOLEAN -> BOOLEAN]
  OBVIOUS
<1>2. \A i \in Nodes, v \in BOOLEAN : up[<<i, v>>] = (v \/ first(i))
  OBVIOUS
<1> HIDE DEF up, first
<1>3. PICK d : Told(d, Len(cmd), BOOLEAN, FALSE, up)
  BY <1>1, ToldDownwards
<1>d. /\ d \in [Nodes -> BOOLEAN]
      /\ \A i \in Nodes : d[i] = IF cmd[i].parent = 0 THEN FALSE ELSE up[<<i, d[cmd[i].parent]>>]
  BY <1>3, Nesting DEF Told
<1>4. \A i \in Nodes : d[i] = (cmd[i].parent # 0 /\ (d[cmd[i].parent] \/ first(i)))
  <2> SUFFICES ASSUME NEW i \in Nodes PROVE d[i] = (cmd[i].parent # 0 /\ (d[cmd[i].parent] \/ first(i)))
    OBVIOUS
  <2>1. CASE cmd[i].parent = 0
    BY <1>d, <2>1
  <2>2. CASE cmd[i].parent # 0
    <3>1. d[cmd[i].parent] \in BOOLEAN
      BY <1>d, <2>2, Nesting
    <3>2. d[i] = (d[cmd[i].parent] \/ first(i))
      BY <1>2, <1>d, <2>2, <3>1
    <3> QED BY <2>2, <3>2
  <2> QED BY <2>1, <2>2
<1>5. d = [i \in Nodes |-> cmd[i].parent # 0 /\ (d[cmd[i].parent] \/ first(i))]
  BY <1>d, <1>4
<1> QED BY <1>5 DEF Missed, first

\* A command is sane when it is harmless in itself and all that is judged in it is sane.
LEMMA SaneUnfolds ==
    ASSUME NEW i \in Nodes
    PROVE  Sane(i) <=> ~OwnHarm(i) /\ \A k \in Bare(i) : Sane(k)
<1>1. ASSUME NEW g \in Nodes, Sane(g) PROVE ~OwnHarm(g) /\ \A k \in Bare(g) : Sane(k)
  BY <1>1 DEF Sane
<1>2. ASSUME ~OwnHarm(i), \A k \in Bare(i) : Sane(k) PROVE Sane(i)
  <2> DEFINE G == {g \in Nodes : Sane(g)} \cup {i}
  <2>1. G \in SUBSET Nodes /\ i \in G
    OBVIOUS
  <2>2. \A g \in G : ~OwnHarm(g) /\ \A k \in Bare(g) : Sane(k)
    BY <1>1, <1>2
  <2>3. \A g \in G : Bare(g) \subseteq G
    BY <2>2 DEF Bare
  <2> HIDE DEF G
  <2> QED BY <2>1, <2>2, <2>3 DEF Sane
<1> QED BY <1>1, <1>2

\* A line is harmful when some view of it is not sane.
LEMMA HarmInAView == ASSUME cmd \in Lines PROVE Harmful <=> \E r \in Roots : ~Sane(r)
<1>h. Harmful <=> \E i \in Nodes : Judged[i] /\ OwnHarm(i)
  BY DEF Harmful
<1>n. /\ Nodes \subseteq Nat
      /\ \A i \in Nodes : cmd[i].parent < i /\ (cmd[i].parent = 0 \/ cmd[i].parent \in Nodes)
  BY Nesting
<1>j. \A i \in Nodes : Judged[i] <=> \/ cmd[i].parent = 0
                                     \/ Judged[cmd[i].parent] /\ ~Shields(cmd[i].parent, cmd[i].when)
  BY JudgedTold
<1>1. ASSUME ~Harmful, NEW r \in Roots PROVE Sane(r)
  <2> DEFINE G == {i \in Nodes : Judged[i]}
  <2>1. r \in G
    BY <1>j DEF Roots
  <2>2. \A g \in G : ~OwnHarm(g) /\ Bare(g) \subseteq G
    BY <1>1, <1>h, <1>j DEF Bare
  <2> QED BY <2>1, <2>2 DEF Sane
<1>2. ASSUME \A r \in Roots : Sane(r), NEW x \in Nodes, Judged[x], ~Sane(x) PROVE FALSE
  <2> DEFINE S == {i \in Nodes : Judged[i] /\ ~Sane(i)}
  <2>1. S \in SUBSET Nat /\ S # {}
    BY <1>2, <1>n
  <2>2. PICK m \in S : \A k \in S : m <= k
    BY <2>1, LeastOne
  <2>3. m \in Nodes /\ Judged[m] /\ ~Sane(m) /\ cmd[m].parent # 0
    BY <1>2, <2>2 DEF Roots
  <2> DEFINE p == cmd[m].parent
  <2>4. p \in Nodes /\ p < m /\ Judged[p] /\ ~Shields(p, cmd[m].when)
    BY <1>n, <1>j, <2>3
  <2>5. Sane(p)
    <3>1. ~Sane(p) => p \in S
      BY <2>4, Zenon
    <3>2. m \in Nat /\ p \in Nat
      BY <1>n, <2>3, <2>4
    <3> HIDE DEF S, p
    <3> QED BY <2>2, <2>4, <3>1, <3>2
  <2>6. m \in Bare(p)
    BY <2>3, <2>4 DEF Bare
  <2> QED BY <2>3, <2>4, <2>5, <2>6, SaneUnfolds
<1> QED BY <1>1, <1>2, <1>h, SaneUnfolds

\* A nested command that is judged early though the predicate misses it is sane, or
\* there is harm among those missed.
LEMMA HarmAmongMissed ==
    ASSUME cmd \in Lines, NEW r \in Roots, ~cmd[r].seen,
           NEW k \in Kids(r, "early"), k \in Bare(r), ~MissedHarm
    PROVE  Sane(k)
<1> DEFINE G == {g \in Nodes : Judged[g] /\ Missed[g]}
<1>n. \A i \in Nodes : cmd[i].parent = 0 \/ cmd[i].parent \in Nodes
  BY Nesting
<1>z. 0 \notin Nodes
  BY Nesting
<1>j. \A i \in Nodes : Judged[i] <=> \/ cmd[i].parent = 0
                                     \/ Judged[cmd[i].parent] /\ ~Shields(cmd[i].parent, cmd[i].when)
  BY JudgedTold
<1>m. \A i \in Nodes : Missed[i] <=>
          /\ cmd[i].parent # 0
          /\ \/ Missed[cmd[i].parent]
             \/ cmd[cmd[i].parent].parent = 0 /\ ~cmd[cmd[i].parent].seen /\ cmd[i].when = "early"
  BY MissedTold
<1>1. r \in Nodes /\ cmd[r].parent = 0 /\ k \in Nodes /\ cmd[k].parent = r /\ cmd[k].when = "early"
  BY DEF Roots, Kids
<1>2. k \in G
  <2>1. ~Shields(r, cmd[k].when) /\ Judged[r]
    BY <1>1, <1>j DEF Bare
  <2>2. Judged[k]
    BY <1>1, <1>j, <2>1
  <2>3. Missed[k]
    BY <1>1, <1>m, <1>z
  <2> QED BY <1>1, <2>2, <2>3
<1>3. \A g \in G : ~OwnHarm(g)
  BY DEF MissedHarm
<1>4. ASSUME NEW g \in G, NEW b \in Bare(g) PROVE b \in G
  <2>1. b \in Nodes /\ cmd[b].parent = g /\ ~Shields(g, cmd[b].when) /\ g \in Nodes
    BY DEF Bare
  <2>2. Judged[b]
    BY <1>j, <2>1
  <2>3. Missed[b]
    BY <1>m, <1>z, <2>1
  <2> QED BY <2>1, <2>2, <2>3
<1> HIDE DEF G
<1>5. G \in SUBSET Nodes
  BY DEF G
<1> QED BY <1>2, <1>3, <1>4, <1>5 DEF Sane

\* What a line deserves does not change while it is evaluated.
LEMMA LineStays ==
    ASSUME UNCHANGED cmd
    PROVE  /\ Nodes' = Nodes /\ Roots' = Roots /\ Depths' = Depths
           /\ \A i, w : Kids(i, w)' = Kids(i, w)
           /\ \A i : (Sane(i)' <=> Sane(i)) /\ (Blocks(i)' <=> Blocks(i))
           /\ \A f : (FrameOK(f)' <=> FrameOK(f)) /\ (Waits(f)' <=> Waits(f))
           /\ (Harmful' <=> Harmful) /\ (MissedHarm' <=> MissedHarm)
<1>1. Nodes' = Nodes
  BY DEF Nodes
<1>2. Roots' = Roots /\ (\A i, w : Kids(i, w)' = Kids(i, w)) /\ \A i : Blocks(i)' <=> Blocks(i)
  BY <1>1 DEF Roots, Kids, Blocks
<1>3. Depths' = Depths
  BY <1>1 DEF Depths
<1>4. \A i, w : Shields(i, w)' <=> Shields(i, w)
  BY DEF Shields, Allows
<1>5. Judged' = Judged
  BY <1>1 DEF Judged, Shields, Allows
<1>6. \A i : OwnHarm(i)' <=> OwnHarm(i)
  BY <1>2, <1>3 DEF OwnHarm
<1>7. \A i : Bare(i)' = Bare(i)
  BY <1>1, <1>4 DEF Bare
<1>8. \A i : Sane(i)' <=> Sane(i)
  BY <1>1, <1>6, <1>7 DEF Sane
<1>9. \A f : (FrameOK(f)' <=> FrameOK(f)) /\ (Waits(f)' <=> Waits(f))
  BY <1>2, <1>3, <1>8 DEF FrameOK, Waits, Allows
<1>10. Harmful' <=> Harmful
  BY <1>1, <1>5, <1>6 DEF Harmful
<1>11. Missed' = Missed
  BY <1>1 DEF Missed
<1>12. MissedHarm' <=> MissedHarm
  BY <1>1, <1>5, <1>6, <1>11 DEF MissedHarm
<1> QED BY <1>1, <1>2, <1>3, <1>8, <1>9, <1>10, <1>12

\* The command at the top, when one is under evaluation.
LEMMA TopFacts ==
    ASSUME Typed, ChainInv, frames # <<>>
    PROVE  /\ Len(frames) \in Nat /\ Len(frames) >= 1 /\ DOMAIN frames = 1..Len(frames)
           /\ Len(frames) \in DOMAIN frames /\ 1 \in DOMAIN frames
           /\ Frame \in Frames /\ Here \in Nodes /\ FrameOK(Frame)
           /\ Depth \in Nat /\ Depths[Here] = Depth
           /\ Len(frames) = 1 => Here = view /\ Here = frames[1].node
<1>1. Len(frames) \in Nat /\ Len(frames) >= 1 /\ DOMAIN frames = 1..Len(frames)
  BY DEF Typed
<1>2. Len(frames) \in DOMAIN frames /\ 1 \in DOMAIN frames
  BY <1>1
<1>3. Frame \in Frames
  BY <1>2 DEF Typed, Frame
<1>4. Here \in Nodes
  BY <1>3 DEF Here, Frames
<1>5. FrameOK(Frame) /\ Depths[Here] = Depth
  BY <1>2 DEF ChainInv, Frame, Here, Depth
<1>6. Len(frames) = 1 => Here = view /\ Here = frames[1].node
  BY DEF ChainInv, Frame, Here
<1>7. Depth \in Nat
  BY <1>1 DEF Depth
<1> QED BY <1>1, <1>2, <1>3, <1>4, <1>5, <1>6, <1>7

\* A command that returns what it deserves.
LEMMA LeaveMerit ==
    ASSUME Typed, MeritInv, frames # <<>>, NEW r \in Answers, Leave(r),
           r \in Allowing => Sane(Here), r = "deny" => ~Sane(Here),
           UNCHANGED <<cmd, views>>
    PROVE  MeritInv'
<1>t. ChainInv /\ RetInv /\ ViewInv
  BY DEF MeritInv
<1> DEFINE n == Len(frames)
<1>1. /\ n \in Nat /\ n >= 1 /\ DOMAIN frames = 1..n
      /\ n = 1 => Here = view
  BY <1>t, TopFacts
<1>2. ret' = r /\ r # None /\ frames' = SubSeq(frames, 1, n - 1)
  BY DEF Leave, Answers, Allowing, None
<1>3. Len(frames') = n - 1 /\ DOMAIN frames' = 1..(n - 1) /\ \A p \in 1..(n - 1) : frames'[p] = frames[p]
  <2>1. frames \in Seq(Frames)
    BY DEF Typed
  <2> QED BY <1>1, <1>2, <2>1
<1>4. (frames' = <<>> <=> n = 1) /\ n - 1 \in Nat /\ (n # 1 => n - 1 \in DOMAIN frames /\ (n - 1) + 1 = n)
  <2>1. frames' \in Seq(Frames)
    BY <1>2, LeaveFrames
  <2> QED BY <1>1, <1>3, <2>1
<1>5. n # 1 => Waits(frames[n - 1]) /\ Here = frames[n - 1].kid
  <2>1. n # 1 => (n - 1) + 1 \in DOMAIN frames /\ n - 1 \in DOMAIN frames
    BY <1>1, <1>4
  <2>2. n # 1 => Waits(frames[n - 1]) /\ frames[(n - 1) + 1].node = frames[n - 1].kid
    BY <1>t, <2>1 DEF ChainInv
  <2> QED BY <1>4, <2>2 DEF Here, Frame
<1>6. Last' = Here
  <2>1. CASE n = 1
    BY <1>1, <1>4, <2>1 DEF Last, views
  <2>2. CASE n # 1
    <3>1. Frame' = frames[n - 1]
      BY <1>1, <1>3, <1>4, <2>2 DEF Frame
    <3> QED BY <1>4, <1>5, <2>2, <3>1 DEF Last
  <2> QED BY <2>1, <2>2
<1>p. /\ Depths' = Depths /\ Roots' = Roots /\ (Harmful' <=> Harmful)
      /\ \A i : Sane(i)' <=> Sane(i)
      /\ \A f : (FrameOK(f)' <=> FrameOK(f)) /\ (Waits(f)' <=> Waits(f))
  BY LineStays
<1>7. ChainInv'
  <2>1. \A p \in DOMAIN frames' : p \in DOMAIN frames /\ frames'[p] = frames[p]
    BY <1>1, <1>3
  <2>2. \A p \in DOMAIN frames' : FrameOK(frames'[p]) /\ Depths[frames'[p].node] = p - 1
    BY <1>t, <2>1 DEF ChainInv
  <2>3. \A p \in DOMAIN frames' : p + 1 \in DOMAIN frames' =>
            Waits(frames'[p]) /\ frames'[p + 1].node = frames'[p].kid
    BY <1>t, <2>1 DEF ChainInv
  <2>4. frames' # <<>> => frames'[1].node = view'
    BY <1>1, <1>3, <1>4, <1>t DEF ChainInv, views
  <2> QED BY <1>p, <2>2, <2>3, <2>4 DEF ChainInv
<1>8. RetInv'
  <2>1. frames' # <<>> => Waits(Frame')
    <3>1. n # 1 => Frame' = frames[n - 1]
      BY <1>1, <1>3, <1>4 DEF Frame
    <3> QED BY <1>4, <1>5, <3>1
  <2> QED BY <1>2, <1>6, <1>p, <2>1 DEF RetInv
<1>9. ViewInv'
  BY <1>t, <1>p DEF ViewInv, views
<1> QED BY <1>7, <1>8, <1>9 DEF MeritInv

\* A command whose record at the top changes: the others keep theirs.
LEMMA TopChanges ==
    ASSUME Typed, ChainInv, frames # <<>>, NEW top \in Frames, FrameOK(top), top.node = Here,
           frames' = [frames EXCEPT ![Len(frames)] = top], UNCHANGED <<cmd, views>>
    PROVE  /\ ChainInv' /\ frames' # <<>> /\ Len(frames') = Len(frames) /\ Frame' = top /\ Here' = Here
           /\ \A p \in DOMAIN frames : p # Len(frames) => frames'[p] = frames[p]
<1> DEFINE n == Len(frames)
<1>1. n \in Nat /\ n >= 1 /\ DOMAIN frames = 1..n /\ n \in DOMAIN frames
  BY TopFacts
<1>2. frames \in Seq(Frames)
  BY DEF Typed
<1>3. /\ DOMAIN frames' = DOMAIN frames /\ frames'[n] = top
      /\ \A p \in DOMAIN frames : p # n => frames'[p] = frames[p]
  BY <1>1
<1>4. Len(frames') = n /\ frames' # <<>>
  BY <1>1, <1>2
<1>p. /\ Depths' = Depths
      /\ \A f : (FrameOK(f)' <=> FrameOK(f)) /\ (Waits(f)' <=> Waits(f))
  BY LineStays
<1>5. \A p \in DOMAIN frames : FrameOK(frames'[p]) /\ Depths[frames'[p].node] = p - 1
  BY <1>1, <1>3 DEF ChainInv, Here, Frame
<1>6. \A p \in DOMAIN frames : p + 1 \in DOMAIN frames =>
          Waits(frames'[p]) /\ frames'[p + 1].node = frames'[p].kid
  <2> SUFFICES ASSUME NEW p \in DOMAIN frames, p + 1 \in DOMAIN frames
               PROVE  Waits(frames'[p]) /\ frames'[p + 1].node = frames'[p].kid
    OBVIOUS
  <2>1. p # n /\ frames'[p] = frames[p]
    BY <1>1, <1>3
  <2>2. frames'[p + 1].node = frames[p + 1].node
    BY <1>3 DEF Here, Frame
  <2> QED BY <2>1, <2>2 DEF ChainInv
<1>7. frames'[1].node = view'
  <2>1. frames'[1].node = frames[1].node
    BY <1>1, <1>3 DEF Here, Frame
  <2> QED BY <2>1 DEF ChainInv, views
<1>8. ChainInv'
  BY <1>3, <1>5, <1>6, <1>7, <1>p DEF ChainInv
<1> QED BY <1>3, <1>4, <1>8 DEF Frame, Here

\* A command that goes on to its next stage.
LEMMA ProceedMerit ==
    ASSUME Typed, MeritInv, frames # <<>>, ret = None,
           NEW s \in {"open", "early", "whole", "late"}, Proceed(s),
           \A f : f.node = Here /\ f.stage = s /\ f.kid = 0 => FrameOK(f),
           UNCHANGED <<cmd, views>>
    PROVE  MeritInv' /\ Frame'.stage = s /\ Here' = Here /\ Len(frames') = Len(frames) /\ frames' # <<>>
<1>t. ChainInv /\ RetInv /\ ViewInv
  BY DEF MeritInv
<1>1. Frame \in Frames /\ Len(frames) \in DOMAIN frames
  BY <1>t, TopFacts
<1>2. PICK top \in Frames :
                 /\ top.node = Here /\ top.stage = s /\ top.kid = 0
                 /\ frames' = [frames EXCEPT ![Len(frames)] = top]
  <2> DEFINE top == [Frame EXCEPT !.stage = s, !.kid = 0]
  <2>1. top \in Frames /\ top.node = Here /\ top.stage = s /\ top.kid = 0
    BY <1>1 DEF Frames, Here
  <2>2. frames' = [frames EXCEPT ![Len(frames)] = top]
    BY <1>1 DEF Proceed, Frame, Typed, Frames
  <2> QED BY <2>1, <2>2
<1>3. /\ ChainInv' /\ frames' # <<>> /\ Len(frames') = Len(frames) /\ Frame' = top /\ Here' = Here
  BY <1>2, <1>t, TopChanges
<1>4. ~Waits(top)
  <2>1. 0 \notin Nodes
    BY Nesting DEF Typed
  <2> QED BY <1>2, <2>1 DEF Waits, Kids
<1>p. /\ Roots' = Roots /\ (Harmful' <=> Harmful) /\ \A i : Sane(i)' <=> Sane(i)
      /\ \A f : (FrameOK(f)' <=> FrameOK(f)) /\ (Waits(f)' <=> Waits(f))
  BY LineStays
<1>5. RetInv'
  <2>1. ret' = None /\ frames' # <<>> /\ ~Waits(Frame')
    BY <1>3, <1>4 DEF Proceed
  <2> QED BY <1>p, <2>1 DEF RetInv, Allowing, None
<1>6. ViewInv'
  BY <1>t, <1>p DEF ViewInv, views
<1> QED BY <1>2, <1>3, <1>5, <1>6 DEF MeritInv

\* A harmless command is sane when what is judged of the commands in it is.
LEMMA SaneWhen ==
    ASSUME cmd \in Lines, NEW i \in Nodes, ~OwnHarm(i),
           \A k \in Kids(i, "early") : Shields(i, "early") \/ Sane(k),
           \A k \in Kids(i, "late") : Shields(i, "late") \/ Sane(k)
    PROVE  Sane(i)
<1>1. \A k \in Bare(i) : k \in Kids(i, "early") \cup Kids(i, "late") /\ ~Shields(i, cmd[k].when)
  BY Nesting DEF Bare, Kids
<1>2. \A k \in Bare(i) : Sane(k)
  BY <1>1 DEF Kids
<1> QED BY <1>2, SaneUnfolds

\* What a command judges in its stages is shielded by nothing.
LEMMA Unshielded ==
    ASSUME NEW f, FrameOK(f), f.stage \in {"early", "whole", "late"}
    PROVE  /\ Kids(f.node, "early") \subseteq Bare(f.node) \/ f.stage # "early"
           /\ Kids(f.node, "late") \subseteq Bare(f.node) \/ f.stage # "late"
BY DEF FrameOK, Kids, Bare, Shields

\* Judging the nested commands in order leaves none of the earlier ones.
LEMMA SweptBefore ==
    ASSUME Typed, MeritInv, frames # <<>>, ret = None, Frame.stage \in {"early", "late"},
           NEW k \in Kids(Here, Frame.stage), k \notin Pending
    PROVE  Sane(k)
<1>1. FrameOK(Frame) /\ Frame \in Frames /\ Nodes \subseteq Nat /\ k \in Nodes
  BY TopFacts, Nesting DEF MeritInv, Typed, Kids
<1>2. Frame.kid \in Nat /\ k \in Nat
  <2>1. Frame.kid = 0 \/ Frame.kid \in Nodes
    BY <1>1 DEF Frames
  <2>2. Nodes \subseteq Nat /\ k \in Nodes
    BY <1>1
  <2>3. 0 \in Nat
    OBVIOUS
  <2> QED BY <2>1, <2>2, <2>3, Zenon
<1>3. k <= Frame.kid
  BY <1>2 DEF Pending
<1>4. CASE k < Frame.kid
  BY <1>1, <1>4 DEF FrameOK, Here
<1>5. CASE k = Frame.kid
  BY <1>5 DEF MeritInv, RetInv, Waits, Here
<1> QED BY <1>2, <1>3, <1>4, <1>5

LEMMA MeritEnter == Typed /\ MeritInv /\ Enter => MeritInv'
<1> SUFFICES ASSUME Typed, MeritInv, Enter PROVE MeritInv'
  OBVIOUS
<1>1. frames # <<>> /\ ret = None /\ Frame.stage = "enter" /\ UNCHANGED <<cmd, views>>
  BY DEF Enter, At
<1>2. Here \in Nodes /\ FrameOK(Frame) /\ Depth \in Nat /\ Depths[Here] = Depth /\ cmd \in Lines
  BY <1>1, TopFacts DEF MeritInv, Typed
<1>3. CASE Leave("deny") /\ (Depth > MaxNesting \/ Blocks(Here))
  <2>1. ~Sane(Here)
    BY <1>2, <1>3, SaneUnfolds DEF OwnHarm
  <2> QED BY <1>1, <1>3, <2>1, LeaveMerit DEF Answers, Allowing
<1>4. CASE Leave("unfinished") \/ Leave("grant")
  BY <1>1, <1>4, LeaveMerit DEF Answers, Allowing
<1>5. CASE Leave("clear") /\ Depth <= MaxNesting /\ cmd[Here].mark = "allow"
  <2>1. ~OwnHarm(Here)
    BY <1>2, <1>5, EvaluatorBounds DEF OwnHarm, Blocks
  <2>2. Shields(Here, "early") /\ Shields(Here, "late")
    BY <1>5 DEF Shields, Allows
  <2>3. Sane(Here)
    BY <1>2, <2>1, <2>2, SaneWhen
  <2> QED BY <1>1, <1>5, <2>3, LeaveMerit DEF Answers, Allowing
<1>6. CASE Proceed("open") /\ Depth <= MaxNesting /\ ~Blocks(Here) /\ ~Allows(Here)
  <2>1. \A f : f.node = Here /\ f.stage = "open" /\ f.kid = 0 => FrameOK(f)
    BY <1>2, <1>6 DEF FrameOK
  <2> QED BY <1>1, <1>6, <2>1, ProceedMerit
<1> QED BY <1>3, <1>4, <1>5, <1>6 DEF Enter

LEMMA MeritOpen == Typed /\ MeritInv /\ Open => MeritInv'
<1> SUFFICES ASSUME Typed, MeritInv, Open PROVE MeritInv'
  OBVIOUS
<1>1. frames # <<>> /\ ret = None /\ Frame.stage = "open" /\ UNCHANGED <<cmd, views>>
  BY DEF Open, At
<1>2. Here \in Nodes /\ FrameOK(Frame) /\ cmd \in Lines
  BY <1>1, TopFacts DEF MeritInv, Typed
<1>3. ~Blocks(Here) /\ ~Allows(Here) /\ Depths[Here] <= MaxNesting
  BY <1>1, <1>2 DEF FrameOK, Here
<1>d. Depths[Here] \in Nat
  BY <1>1, TopFacts DEF MeritInv
<1>4. CASE Leave("unfinished") \/ Leave("grant")
  BY <1>1, <1>4, LeaveMerit DEF Answers, Allowing
<1>5. CASE Leave("clear") /\ cmd[Here].mark = "listed" /\ cmd[Here].seen
  <2>1. ~OwnHarm(Here)
    BY <1>3, <1>d, <1>5, EvaluatorBounds DEF OwnHarm
  <2>2. Shields(Here, "early") /\ Shields(Here, "late")
    BY <1>5 DEF Shields
  <2>3. Sane(Here)
    BY <1>2, <2>1, <2>2, SaneWhen
  <2> QED BY <1>1, <1>5, <2>3, LeaveMerit DEF Answers, Allowing
<1>6. CASE Proceed("early") /\ ~(cmd[Here].mark = "listed" /\ cmd[Here].seen)
  <2>n. \A k \in Nodes : ~(k < 0)
    BY <1>2, Nesting
  <2>1. \A f : f.node = Here /\ f.stage = "early" /\ f.kid = 0 => FrameOK(f)
    BY <1>2, <1>3, <1>6, <2>n DEF FrameOK, Kids
  <2> QED BY <1>1, <1>6, <2>1, ProceedMerit
<1> QED BY <1>4, <1>5, <1>6 DEF Open

LEMMA MeritDescend == Typed /\ MeritInv /\ Descend => MeritInv'
<1> SUFFICES ASSUME Typed, MeritInv, Descend PROVE MeritInv'
  OBVIOUS
<1>t. ChainInv /\ RetInv /\ ViewInv
  BY DEF MeritInv
<1>1. frames # <<>> /\ ret = None /\ Frame.stage \in {"early", "late"} /\ UNCHANGED <<cmd, ret, views>>
  BY DEF Descend, At
<1>2. PICK j \in Pending :
        /\ \A i \in Pending : j <= i
        /\ frames' = Append([frames EXCEPT ![Len(frames)].kid = j], Entered(j))
  BY DEF Descend
<1> DEFINE n == Len(frames)
           top == [Frame EXCEPT !.kid = j]
           up == [frames EXCEPT ![n] = top]
<1>3. /\ n \in Nat /\ n >= 1 /\ DOMAIN frames = 1..n /\ n \in DOMAIN frames /\ 1 \in DOMAIN frames
      /\ Frame \in Frames /\ FrameOK(Frame) /\ Depths[Here] = n - 1
  BY <1>1, <1>t, TopFacts DEF Depth
<1>n. n \in Nat /\ n \in 1..n /\ 1 \in 1..n
  BY <1>3
<1>h. Depths[Here] = n - 1
  BY <1>3
<1>4. j \in Nodes /\ j \in Kids(Here, Frame.stage) /\ Nodes \subseteq Nat /\ cmd[j].parent = Here
  BY Nesting DEF Pending, Kids, Typed
<1>5. top \in Frames /\ top.node = Here /\ top.stage = Frame.stage /\ top.kid = j
  BY <1>3, <1>4 DEF Frames, Here
<1>6. Entered(j) \in Frames /\ Entered(j).node = j /\ Entered(j).stage = "enter" /\ Entered(j).kid = 0
  BY <1>4 DEF Entered, Frames
<1>7. frames' = Append(up, Entered(j))
  BY <1>2 DEF Frame
<1> HIDE DEF top
<1>8. up \in Seq(Frames) /\ Len(up) = n /\ up[n] = top /\ \A p \in 1..n : p # n => up[p] = frames[p]
  BY <1>3, <1>5 DEF Typed
<1> HIDE DEF up
<1>9. /\ Len(frames') = n + 1 /\ DOMAIN frames' = 1..(n + 1) /\ frames'[n + 1] = Entered(j)
      /\ \A p \in 1..n : frames'[p] = up[p]
  <2>1. up \in Seq(Frames) /\ Len(up) = n /\ n \in Nat
    BY <1>n, <1>8
  <2>2. Len(frames') = n + 1 /\ DOMAIN frames' = 1..(n + 1)
    BY <1>6, <1>7, <2>1
  <2>3. frames'[n + 1] = Entered(j)
    BY <1>6, <1>7, <2>1
  <2>4. \A p \in 1..n : frames'[p] = up[p]
    BY <1>6, <1>7, <2>1
  <2> QED BY <2>2, <2>3, <2>4
<1>p. /\ Depths' = Depths /\ Roots' = Roots /\ (Harmful' <=> Harmful)
      /\ \A i : Sane(i)' <=> Sane(i)
      /\ \A f : (FrameOK(f)' <=> FrameOK(f)) /\ (Waits(f)' <=> Waits(f))
  BY <1>1, LineStays
<1>10. FrameOK(top) /\ Waits(top)
  <2>1. \A k \in Kids(Here, Frame.stage) : k < j => k \notin Pending
    BY <1>2, <1>4 DEF Kids
  <2>2. \A k \in Kids(Here, Frame.stage) : k < j => Sane(k)
    BY <1>1, <2>1, SweptBefore
  <2>3. Waits(top)
    BY <1>1, <1>4, <1>5 DEF Waits
  <2>4. FrameOK(top)
    BY <1>1, <1>3, <1>5, <2>2 DEF FrameOK, Here
  <2> QED BY <2>3, <2>4
<1>11. FrameOK(Entered(j)) /\ ~Waits(Entered(j))
  BY <1>6 DEF FrameOK, Waits
<1>12. Depths[j] = (n + 1) - 1
  <2>1. cmd[j].parent # 0
    <3>1. Here \in Nodes /\ 0 \notin Nodes
      BY <1>1, <1>t, TopFacts, Nesting DEF Typed
    <3> QED BY <1>4, <3>1
  <2>2. Depths[j] = Depths[Here] + 1
    BY <1>4, <2>1, DepthsTold DEF Typed
  <2> QED BY <1>3, <2>2
<1>13. \A p \in 1..(n + 1) : p = n + 1 \/ p = n \/ (p \in 1..n /\ p # n /\ p + 1 \in 1..n)
  <2>1. n \in Nat
    BY <1>3
  <2> HIDE DEF n
  <2> QED BY <2>1
<1>14. n \in 1..n /\ ~(n + 2 \in 1..(n + 1)) /\ (n + 1) + 1 = n + 2
  BY <1>3
<1>15. ChainInv'
  <2>1. \A p \in 1..n : FrameOK(up[p]) /\ Depths[up[p].node] = p - 1
    <3>1. \A p \in 1..n : FrameOK(frames[p]) /\ Depths[frames[p].node] = p - 1
      BY <1>3, <1>t DEF ChainInv
    <3>2. FrameOK(up[n]) /\ Depths[up[n].node] = n - 1
      BY <1>n, <1>h, <1>5, <1>8, <1>10
    <3> QED BY <1>8, <3>1, <3>2
  <2>2. \A p \in 1..(n + 1) : FrameOK(frames'[p]) /\ Depths[frames'[p].node] = p - 1
    BY <1>6, <1>9, <1>11, <1>12, <1>13, <1>14, <2>1
  <2>3. ASSUME NEW p \in 1..(n + 1), p + 1 \in 1..(n + 1)
        PROVE  Waits(frames'[p]) /\ frames'[p + 1].node = frames'[p].kid
    <3>1. CASE p = n + 1
      BY <1>14, <2>3, <3>1
    <3>2. CASE p = n
      BY <1>5, <1>6, <1>8, <1>9, <1>10, <1>14, <3>2
    <3>3. CASE p \in 1..n /\ p # n /\ p + 1 \in 1..n
      <4>1. Waits(frames[p]) /\ frames[p + 1].node = frames[p].kid
        BY <1>3, <1>t, <3>3 DEF ChainInv
      <4>2. frames'[p] = frames[p]
        BY <1>8, <1>9, <3>3
      <4>3. frames'[p + 1].node = frames[p + 1].node
        BY <1>5, <1>8, <1>9, <3>3 DEF Here, Frame
      <4> QED BY <4>1, <4>2, <4>3
    <3> QED BY <1>13, <3>1, <3>2, <3>3
  <2>4. frames'[1].node = view'
    <3>1. frames'[1] = up[1] /\ frames[1].node = view
      BY <1>1, <1>3, <1>9, <1>t DEF ChainInv
    <3>2. up[1].node = frames[1].node
      <4>1. n = 1 => up[1] = top /\ frames[1].node = Here
        BY <1>8 DEF Here, Frame
      <4>2. n # 1 => up[1] = frames[1]
        BY <1>n, <1>8
      <4> QED BY <1>5, <4>1, <4>2
    <3> QED BY <1>1, <3>1, <3>2 DEF views
  <2> QED BY <1>9, <1>p, <2>2, <2>3, <2>4 DEF ChainInv
<1>16. RetInv'
  <2>1. frames' # <<>> /\ Frame' = Entered(j) /\ ret' = None
    <3>1. frames' # <<>>
      BY <1>7, <1>8, <1>6
    <3> QED BY <1>1, <1>9, <3>1 DEF Frame
  <2> QED BY <1>11, <1>p, <2>1 DEF RetInv, Allowing, None
<1>17. ViewInv'
  BY <1>1, <1>t, <1>p DEF ViewInv, views
<1> QED BY <1>15, <1>16, <1>17 DEF MeritInv

LEMMA MeritAscend == EvalInv /\ ReplyInv /\ MeritInv /\ Ascend => MeritInv'
<1> SUFFICES ASSUME EvalInv, ReplyInv, MeritInv, Ascend PROVE MeritInv'
  OBVIOUS
<1>t. Typed /\ ChainInv /\ RetInv /\ ViewInv
  BY DEF MeritInv, EvalInv
<1>1. frames # <<>> /\ ret # None /\ ret # "grant" /\ ret \in Answers /\ UNCHANGED <<cmd, views>>
  BY DEF Ascend, EvalInv, UsedOnce, ReplyInv
<1>2. /\ Here \in Nodes /\ Frame \in Frames /\ FrameOK(Frame) /\ Waits(Frame) /\ Last = Frame.kid
      /\ Len(frames) \in DOMAIN frames
  BY <1>1, <1>t, TopFacts DEF RetInv, Last
<1>3. CASE Decides(ret)
  <2>1. Leave(ret) /\ ret \in {"deny", "unfinished"}
    BY <1>3 DEF Ascend, Decides
  <2>2. ret = "deny" => ~Sane(Here)
    <3>1. SUFFICES ASSUME ret = "deny" PROVE ~Sane(Here)
      OBVIOUS
    <3>2. ~Sane(Frame.kid)
      BY <1>2, <1>t, <3>1 DEF RetInv
    <3>3. Frame.kid \in Bare(Here)
      BY <1>2, Unshielded DEF Waits, Here
    <3> QED BY <1>2, <3>2, <3>3, SaneUnfolds
  <2>3. ret \notin Allowing
    BY <2>1 DEF Allowing
  <2> QED BY <1>1, <1>t, <2>1, <2>2, <2>3, LeaveMerit
<1>4. CASE ~Decides(ret)
  <2>1. ret \in Allowing /\ ret' = None
    BY <1>1, <1>4 DEF Ascend, Decides, Answers
  <2>2. PICK top \in Frames :
           /\ top.node = Frame.node /\ top.stage = Frame.stage /\ top.kid = Frame.kid
           /\ frames' = [frames EXCEPT ![Len(frames)] = top]
    <3> DEFINE top == [Frame EXCEPT !.hit = @ \/ ret = "listed"]
    <3>1. top \in Frames /\ top.node = Frame.node /\ top.stage = Frame.stage /\ top.kid = Frame.kid
      BY <1>2 DEF Frames
    <3>2. frames' = [frames EXCEPT ![Len(frames)] = top]
      BY <1>2, <1>4 DEF Ascend, Frame
    <3> QED BY <3>1, <3>2
  <2>3. FrameOK(top) /\ (Waits(top) <=> Waits(Frame))
    BY <1>2, <2>2 DEF FrameOK, Waits
  <2>4. ChainInv' /\ frames' # <<>> /\ Frame' = top
    BY <1>1, <1>t, <2>2, <2>3, TopChanges DEF Here
  <2>p. /\ Roots' = Roots /\ (Harmful' <=> Harmful) /\ \A i : Sane(i)' <=> Sane(i)
        /\ \A f : (FrameOK(f)' <=> FrameOK(f)) /\ (Waits(f)' <=> Waits(f))
    BY <1>1, LineStays
  <2>5. Sane(Frame.kid)
    BY <1>2, <1>t, <2>1 DEF RetInv
  <2>6. RetInv'
    BY <2>1, <2>2, <2>4, <2>5, <2>p DEF RetInv, Allowing, None
  <2>7. ViewInv'
    BY <1>1, <1>t, <2>p DEF ViewInv, views
  <2> QED BY <2>4, <2>6, <2>7 DEF MeritInv
<1> QED BY <1>3, <1>4

LEMMA MeritGate == Typed /\ MeritInv /\ Gate => MeritInv'
<1> SUFFICES ASSUME Typed, MeritInv, Gate PROVE MeritInv'
  OBVIOUS
<1>1. frames # <<>> /\ ret = None /\ Frame.stage = "early" /\ Pending = {} /\ UNCHANGED <<cmd, views>>
  BY DEF Gate, At
<1>2. Here \in Nodes /\ FrameOK(Frame) /\ cmd \in Lines /\ Depths[Here] \in Nat
  BY <1>1, TopFacts DEF MeritInv, Typed
<1>3. ~Blocks(Here) /\ ~Allows(Here) /\ Depths[Here] <= MaxNesting
      /\ ~(cmd[Here].mark = "listed" /\ cmd[Here].seen)
  BY <1>1, <1>2 DEF FrameOK, Here
<1>4. \A k \in Kids(Here, "early") : Sane(k)
  BY <1>1, SweptBefore
<1>5. CASE Leave("unfinished")
  BY <1>1, <1>5, LeaveMerit DEF Answers, Allowing
<1>6. CASE Quiet /\ Leave(Credit("quiet"))
  <2>1. ~OwnHarm(Here) /\ Kids(Here, "late") = {}
    BY <1>2, <1>3, <1>6, EvaluatorBounds DEF OwnHarm, Quiet
  <2>2. Sane(Here)
    BY <1>2, <1>4, <2>1, SaneWhen
  <2>3. Credit("quiet") \in Answers /\ Credit("quiet") # "deny"
    BY DEF Credit, Answers, Allowing
  <2> QED BY <1>1, <1>6, <2>2, <2>3, LeaveMerit
<1>7. CASE Proceed("whole")
  <2>1. \A f : f.node = Here /\ f.stage = "whole" /\ f.kid = 0 => FrameOK(f)
    BY <1>3, <1>4 DEF FrameOK
  <2> QED BY <1>1, <1>7, <2>1, ProceedMerit
<1> QED BY <1>5, <1>6, <1>7 DEF Gate

LEMMA MeritWhole == Typed /\ MeritInv /\ Whole => MeritInv'
<1> SUFFICES ASSUME Typed, MeritInv, Whole PROVE MeritInv'
  OBVIOUS
<1>1. frames # <<>> /\ ret = None /\ Frame.stage = "whole" /\ UNCHANGED <<cmd, views>>
  BY DEF Whole, At
<1>2. Here \in Nodes /\ FrameOK(Frame) /\ cmd \in Lines /\ Depths[Here] \in Nat
  BY <1>1, TopFacts DEF MeritInv, Typed
<1>3. ~Blocks(Here) /\ ~Allows(Here) /\ Depths[Here] <= MaxNesting
      /\ ~(cmd[Here].mark = "listed" /\ cmd[Here].seen)
      /\ \A k \in Kids(Here, "early") : Sane(k)
  BY <1>1, <1>2 DEF FrameOK, Here
<1>4. CASE Leave("unfinished") \/ Leave("grant")
  BY <1>1, <1>4, LeaveMerit DEF Answers, Allowing
<1>5. CASE Leave("clear") /\ cmd[Here].mark = "listed"
  <2>1. ~OwnHarm(Here) /\ Shields(Here, "late")
    BY <1>2, <1>3, <1>5, EvaluatorBounds DEF OwnHarm, Shields
  <2>2. Sane(Here)
    BY <1>2, <1>3, <2>1, SaneWhen
  <2> QED BY <1>1, <1>5, <2>2, LeaveMerit DEF Answers, Allowing
<1>6. CASE Proceed("late") /\ cmd[Here].mark # "listed"
  <2>n. \A k \in Nodes : ~(k < 0)
    BY <1>2, Nesting
  <2>1. \A f : f.node = Here /\ f.stage = "late" /\ f.kid = 0 => FrameOK(f)
    BY <1>3, <1>6, <2>n DEF FrameOK, Kids
  <2> QED BY <1>1, <1>6, <2>1, ProceedMerit
<1> QED BY <1>4, <1>5, <1>6 DEF Whole

LEMMA MeritPacks == Typed /\ MeritInv /\ Packs => MeritInv'
<1> SUFFICES ASSUME Typed, MeritInv, Packs PROVE MeritInv'
  OBVIOUS
<1>1. frames # <<>> /\ ret = None /\ Frame.stage = "late" /\ Pending = {} /\ UNCHANGED <<cmd, views>>
  BY DEF Packs, At
<1>2. Here \in Nodes /\ FrameOK(Frame) /\ cmd \in Lines /\ Depths[Here] \in Nat
  BY <1>1, TopFacts DEF MeritInv, Typed
<1>3. ~Blocks(Here) /\ ~Allows(Here) /\ Depths[Here] <= MaxNesting /\ cmd[Here].mark # "listed"
      /\ \A k \in Kids(Here, "early") : Sane(k)
  BY <1>1, <1>2 DEF FrameOK, Here
<1>4. \A k \in Kids(Here, "late") : Sane(k)
  BY <1>1, SweptBefore
<1>5. CASE Leave("unfinished")
  BY <1>1, <1>5, LeaveMerit DEF Answers, Allowing
<1>6. CASE cmd[Here].find = "deny" /\ Leave("deny")
  <2>1. cmd[Here].mark = "none"
    BY <1>2, <1>3, Nesting DEF Marks, Blocks, Allows
  <2>2. ~Sane(Here)
    BY <1>2, <1>6, <2>1, SaneUnfolds DEF OwnHarm
  <2> QED BY <1>1, <1>6, <2>2, LeaveMerit DEF Answers, Allowing
<1>7. CASE cmd[Here].find # "deny" /\ Leave(Credit(cmd[Here].find))
  <2>1. ~OwnHarm(Here)
    BY <1>2, <1>3, <1>7, EvaluatorBounds DEF OwnHarm
  <2>2. Sane(Here)
    BY <1>2, <1>3, <1>4, <2>1, SaneWhen
  <2>3. Credit(cmd[Here].find) \in Answers /\ Credit(cmd[Here].find) # "deny"
    BY DEF Credit, Answers, Allowing
  <2> QED BY <1>1, <1>7, <2>2, <2>3, LeaveMerit
<1> QED BY <1>5, <1>6, <1>7 DEF Packs

LEMMA MeritFanOut == EvalInv /\ ReplyInv /\ MeritInv /\ FanOut => MeritInv'
<1> SUFFICES ASSUME EvalInv, ReplyInv, MeritInv, FanOut PROVE MeritInv'
  OBVIOUS
<1>t. Typed /\ ChainInv /\ RetInv /\ ViewInv
  BY DEF MeritInv, EvalInv
<1>1. /\ frames = <<>> /\ verdict = None /\ ret' = None /\ UNCHANGED cmd
      /\ primary' = IF view = 1 THEN ret ELSE primary
  BY DEF FanOut
<1>2. ret \in Answers /\ (ret \in Allowing => Sane(view)) /\ (ret = "deny" => ~Sane(view)) /\ view \in Roots
  BY <1>1, <1>t DEF RetInv, Last, ReplyInv, ViewInv
<1>p. /\ Depths' = Depths /\ Roots' = Roots /\ (Harmful' <=> Harmful) /\ \A i : Sane(i)' <=> Sane(i)
      /\ \A f : (FrameOK(f)' <=> FrameOK(f)) /\ (Waits(f)' <=> Waits(f))
  BY <1>1, LineStays
<1>h. Harmful <=> \E r \in Roots : ~Sane(r)
  BY <1>t, HarmInAView DEF Typed
<1>n. Roots \subseteq Nodes /\ Nodes \subseteq Nat /\ 1 \in Roots
  BY <1>t, Nesting, SameText DEF Roots, Typed
<1>3. ret \in Allowing => primary' \in Allowing
  BY <1>1, <1>t DEF ViewInv
<1>4. CASE frames' = <<>> /\ view' = view /\ verdict' # None
           /\ (verdict' \in Allowing => ~Harmful) /\ (verdict' = "deny" => Harmful)
           /\ (view # 1 => primary' \in Allowing)
  <2>1. ChainInv'
    BY <1>4 DEF ChainInv
  <2>2. RetInv'
    BY <1>1, <1>4 DEF RetInv, Allowing, None
  <2>3. ViewInv'
    BY <1>t, <1>4, <1>p DEF ViewInv
  <2> QED BY <2>1, <2>2, <2>3 DEF MeritInv
<1>5. CASE EndsEvaluation(ret)
  <2>1. /\ verdict' = (IF ret \in Allowing THEN primary' ELSE ret) /\ frames' = <<>> /\ view' = view
    BY <1>1, <1>5 DEF FanOut
  <2>2. view # 1 => primary' \in Allowing
    BY <1>1, <1>t DEF ViewInv
  <2>3. verdict' # None
    BY <1>2, <1>3, <2>1 DEF Answers, Allowing, None
  <2>4. verdict' \in Allowing => ~Harmful
    <3>1. SUFFICES ASSUME verdict' \in Allowing, NEW r \in Roots PROVE Sane(r)
      BY <1>h
    <3>2. ret \in Allowing /\ Other = {}
      BY <1>5, <2>1, <3>1 DEF EndsEvaluation
    <3>3. r <= view
      BY <1>2, <1>n, <3>2 DEF Other
    <3>4. r < view \/ r = view
      BY <1>2, <1>n, <3>3
    <3> QED BY <1>2, <1>t, <3>2, <3>4 DEF ViewInv
  <2>5. verdict' = "deny" => Harmful
    <3>1. verdict' = "deny" => ret = "deny"
      BY <1>3, <2>1 DEF Allowing
    <3> QED BY <1>2, <1>h, <3>1
  <2> QED BY <1>4, <2>1, <2>2, <2>3, <2>4, <2>5
<1>6. CASE ~EndsEvaluation(ret) /\ late
  <2>1. verdict' = "unfinished" /\ frames' = <<>> /\ view' = view
    BY <1>1, <1>6 DEF FanOut
  <2>2. view # 1 => primary' \in Allowing
    BY <1>1, <1>t DEF ViewInv
  <2> QED BY <1>4, <2>1, <2>2 DEF Allowing, None
<1>7. CASE ~EndsEvaluation(ret) /\ ~late
  <2>1. PICK j \in Other : /\ \A i \in Other : j <= i
                           /\ frames' = <<Entered(j)>> /\ view' = j /\ UNCHANGED verdict
    BY <1>7 DEF FanOut
  <2>2. ret \in Allowing
    BY <1>7 DEF EndsEvaluation
  <2>3. j \in Roots /\ j \in Nodes
    BY <1>n DEF Other
  <2>4. \A r \in Roots : r < j => Sane(r)
    <3> SUFFICES ASSUME NEW r \in Roots, r < j PROVE Sane(r)
      OBVIOUS
    <3>1. r \notin Other
      BY <1>n, <2>1, <2>3
    <3>2. r <= view
      BY <1>2, <1>n, <3>1 DEF Other
    <3>3. r < view \/ r = view
      BY <1>2, <1>n, <3>2
    <3> QED BY <1>2, <1>t, <2>2, <3>3 DEF ViewInv
  <2>5. Depths[j] = 0
    BY <1>t, <2>3, DepthsTold DEF Roots, Typed
  <2>6. FrameOK(Entered(j)) /\ ~Waits(Entered(j)) /\ Entered(j).node = j
    BY DEF FrameOK, Waits, Entered
  <2>7. Len(frames') = 1 /\ DOMAIN frames' = {1} /\ frames'[1] = Entered(j) /\ frames' # <<>>
    BY <2>1
  <2>8. ChainInv'
    <3>1. \A p \in DOMAIN frames' : p = 1 /\ p - 1 = 0 /\ p + 1 \notin DOMAIN frames'
      BY <2>7
    <3> QED BY <1>p, <2>1, <2>5, <2>6, <2>7, <3>1 DEF ChainInv
  <2>9. RetInv'
    <3>1. Frame' = Entered(j)
      BY <2>7 DEF Frame
    <3> QED BY <1>1, <1>p, <2>6, <2>7, <3>1 DEF RetInv, Allowing, None
  <2>10. ViewInv'
    BY <1>1, <1>3, <1>p, <2>1, <2>2, <2>3, <2>4 DEF ViewInv, Allowing, None
  <2> QED BY <2>8, <2>9, <2>10 DEF MeritInv
<1> QED BY <1>5, <1>6, <1>7

LEMMA ReplyStep == EvalInv /\ ReplyInv /\ [EvalNext]_evalVars => ReplyInv'
<1> SUFFICES ASSUME EvalInv, ReplyInv, [EvalNext]_evalVars PROVE ReplyInv'
  OBVIOUS
<1>1. CASE Enter \/ Open \/ Gate \/ Whole \/ Packs
  <2>1. UNCHANGED <<offered, late, views>>
    BY <1>1 DEF Enter, Open, Gate, Whole, Packs
  <2>2. \A f : Credit(f) \in Answers
    BY DEF Credit, Answers, Allowing
  <2>3. ret' \in {None} \cup Answers
    BY <1>1, <2>2 DEF Enter, Open, Gate, Whole, Packs, Leave, Proceed, ReplyInv, Answers, Allowing
  <2> QED BY <2>1, <2>3 DEF ReplyInv, views
<1>2. CASE Descend \/ Ascend
  <2>1. UNCHANGED <<offered, late, views>> /\ ret' \in {None, ret}
    BY <1>2 DEF Descend, Ascend, Leave
  <2> QED BY <2>1 DEF ReplyInv, views
<1>3. CASE FanOut
  <2>1. UNCHANGED <<offered, late>> /\ ret' = None /\ primary' \in {ret, primary}
        /\ verdict' \in {primary', ret, "unfinished", verdict}
    BY <1>3 DEF FanOut
  <2> QED BY <2>1 DEF ReplyInv, Answers
<1>4. CASE Expire \/ RedeemMeanwhile \/ UNCHANGED evalVars
  BY <1>4 DEF Expire, RedeemMeanwhile, evalVars, views, ReplyInv
<1> QED BY <1>1, <1>2, <1>3, <1>4 DEF EvalNext

LEMMA MeritStep == EvalInv /\ ReplyInv /\ MeritInv /\ [EvalNext]_evalVars => MeritInv'
<1> SUFFICES ASSUME EvalInv, ReplyInv, MeritInv, [EvalNext]_evalVars PROVE MeritInv'
  OBVIOUS
<1>t. Typed
  BY DEF EvalInv
<1>1. CASE Expire \/ RedeemMeanwhile \/ UNCHANGED evalVars
  <2>1. UNCHANGED <<cmd, frames, ret, view, primary, verdict>>
    BY <1>1 DEF Expire, RedeemMeanwhile, evalVars, views
  <2>p. /\ Depths' = Depths /\ Roots' = Roots /\ (Harmful' <=> Harmful) /\ \A i : Sane(i)' <=> Sane(i)
        /\ \A f : (FrameOK(f)' <=> FrameOK(f)) /\ (Waits(f)' <=> Waits(f))
    BY <2>1, LineStays
  <2>2. Frame' = Frame /\ Last' = Last
    BY <2>1 DEF Frame, Last
  <2>3. ChainInv'
    BY <2>1, <2>p DEF MeritInv, ChainInv
  <2>4. RetInv'
    BY <2>1, <2>2, <2>p DEF MeritInv, RetInv
  <2>5. ViewInv'
    BY <2>1, <2>p DEF MeritInv, ViewInv
  <2> QED BY <2>3, <2>4, <2>5 DEF MeritInv
<1> QED BY <1>1, <1>t, MeritEnter, MeritOpen, MeritDescend, MeritAscend, MeritGate, MeritWhole,
           MeritPacks, MeritFanOut DEF EvalNext

LEMMA MeritInit == EvalInit => ReplyInv /\ MeritInv
<1> SUFFICES ASSUME EvalInit PROVE ReplyInv /\ MeritInv
  OBVIOUS
<1>1. /\ cmd \in Lines /\ frames = <<Entered(1)>> /\ ret = None /\ view = 1 /\ primary = None /\ verdict = None
      /\ late = FALSE /\ offered \in [GrantKinds -> Nat]
  BY EvaluatorBounds DEF EvalInit, EvalStart
<1>2. 1 \in Roots /\ 1 \in Nodes /\ Roots \subseteq Nodes
  BY <1>1, SameText DEF Roots
<1>3. Depths[1] = 0
  BY <1>1, <1>2, DepthsTold DEF Roots
<1>4. FrameOK(Entered(1)) /\ ~Waits(Entered(1)) /\ Entered(1).node = 1
  BY DEF FrameOK, Waits, Entered
<1>5. Len(frames) = 1 /\ DOMAIN frames = {1} /\ frames[1] = Entered(1) /\ frames # <<>>
  BY <1>1
<1>6. ChainInv
  <2>1. \A p \in DOMAIN frames : p = 1 /\ p - 1 = 0 /\ p + 1 \notin DOMAIN frames
    BY <1>5
  <2> QED BY <1>1, <1>3, <1>4, <1>5, <2>1 DEF ChainInv
<1>7. RetInv
  <2>1. Frame = Entered(1)
    BY <1>5 DEF Frame
  <2> QED BY <1>1, <1>4, <1>5, <2>1 DEF RetInv, Allowing, None
<1>8. ViewInv
  <2>1. \A r \in Roots : ~(r < 1)
    BY <1>1, <1>2, Nesting
  <2> QED BY <1>1, <1>2, <2>1 DEF ViewInv, Allowing, None
<1>9. ReplyInv
  BY <1>1 DEF ReplyInv, None
<1> QED BY <1>6, <1>7, <1>8, <1>9 DEF MeritInv

\* An evaluation that finishes without a grant denies just the lines that run something
\* harmful in some view, whatever the nesting, the exemptions, the order of the stages
\* and the moment the deadline passes (evaluator.rs:14058-14330).
THEOREM JudgedOnMerits == EvalSpec => []DecidesOnMerits
<1>1. ReplyInv /\ MeritInv => DecidesOnMerits
  BY DEF ReplyInv, MeritInv, ViewInv, DecidesOnMerits, Answers
<1>2. EvalInit => EvalInv /\ ReplyInv /\ MeritInv
  BY EvalInvInit, MeritInit
<1>3. EvalInv /\ ReplyInv /\ MeritInv /\ [EvalNext]_evalVars => EvalInv' /\ ReplyInv' /\ MeritInv'
  BY EvalInvStep, ReplyStep, MeritStep
<1> QED BY <1>1, <1>2, <1>3, PTL DEF EvalSpec

\* The variables keep their types; commands are evaluated one level below the nesting
\* limit at most.
THEOREM EvaluatorTypeCorrect == EvalSpec => []EvalTypeOK
<1>1. EvalInv /\ ReplyInv /\ MeritInv => EvalTypeOK
  <2> SUFFICES ASSUME EvalInv, ReplyInv, MeritInv PROVE EvalTypeOK
    OBVIOUS
  <2>1. Typed /\ ChainInv /\ view \in Roots
    BY DEF EvalInv, MeritInv, ViewInv
  <2>2. Len(frames) <= MaxNesting + 2
    <3>1. Len(frames) \in Nat
      BY <2>1 DEF Typed
    <3>2. CASE Len(frames) <= 1
      BY <3>1, <3>2, EvaluatorBounds
    <3>3. CASE Len(frames) > 1
      <4> DEFINE p == Len(frames) - 1
      <4>1. p \in DOMAIN frames /\ p + 1 \in DOMAIN frames
        BY <2>1, <3>1, <3>3 DEF Typed
      <4>2. FrameOK(frames[p]) /\ Depths[frames[p].node] = p - 1 /\ Waits(frames[p])
        BY <2>1, <4>1 DEF ChainInv
      <4>3. frames[p].stage # "enter"
        BY <4>2 DEF Waits
      <4>4. p - 1 <= MaxNesting
        BY <4>2, <4>3 DEF FrameOK
      <4> QED BY <3>1, <4>4, EvaluatorBounds
    <3> QED BY <3>1, <3>2, <3>3
  <2> QED BY <2>1, <2>2, LinesAssumption DEF EvalTypeOK, Typed, Frames, ReplyInv
<1>2. EvalInit => EvalInv /\ ReplyInv /\ MeritInv
  BY EvalInvInit, MeritInit
<1>3. EvalInv /\ ReplyInv /\ MeritInv /\ [EvalNext]_evalVars => EvalInv' /\ ReplyInv' /\ MeritInv'
  BY EvalInvStep, ReplyStep, MeritStep
<1> QED BY <1>1, <1>2, <1>3, PTL DEF EvalSpec

--------------------------------------------------------------------------------
(* A grant that was there is honoured                                      *)

\* A code used up was in the store.
LEMMA UseKeeps ==
    ASSUME Typed, ReplyInv, StillThere, NEW kinds \in SUBSET GrantKinds, Use(kinds), UNCHANGED offered
    PROVE  StillThere'
<1>1. PICK c \in kinds : /\ grants[c] > 0 /\ grants' = [grants EXCEPT ![c] = @ - 1]
                         /\ used' = [used EXCEPT ![c] = @ + 1]
  BY DEF Use
<1> SUFFICES ASSUME NEW k \in GrantKinds PROVE offered[k] <= grants'[k] + used'[k]
  BY DEF StillThere
<1>2. grants[k] \in Nat /\ used[k] \in Nat /\ offered[k] \in Nat /\ offered[k] <= grants[k] + used[k]
  BY DEF Typed, ReplyInv, StillThere
<1>3. grants'[k] = IF k = c THEN grants[k] - 1 ELSE grants[k]
  BY <1>1 DEF Typed
<1>4. used'[k] = IF k = c THEN used[k] + 1 ELSE used[k]
  BY <1>1 DEF Typed
<1> QED BY <1>2, <1>3, <1>4

\* A line that is to be honoured, while its outermost command is evaluated: its
\* grant is at hand.
LEMMA GrantAtHand ==
    ASSUME EvalInv, ReplyInv, ChainInv, HonourInv, Honoured, Len(frames) = 1
    PROVE  /\ Depth = 0 /\ Frame.stage # "late"
           /\ Frame.stage \in {"early", "whole"} => ~cmd[Here].seen
           /\ Covers(GrantKinds)
           /\ Blocks(Here) => Covers(Lifting)
<1>f. frames # <<>> /\ Frame = frames[1] /\ Here = frames[1].node
  BY DEF Frame, Here
<1>1. Frame.stage # "late" /\ (Frame.stage \in {"early", "whole"} => ~cmd[Here].seen)
  BY <1>f DEF HonourInv
<1>2. Typed
  BY DEF EvalInv
<1>3. (Blocks(Here) <=> Blocks(1)) /\ Depth = 0
  BY <1>f, <1>2, SameText DEF EvalInv, OutermostUnblocked, Typed, Depth
<1>4. used["plain"] = 0 /\ used["forced"] = 0
  <2>1. Total = 0 /\ used["plain"] \in Nat /\ used["forced"] \in Nat
    BY <1>f, <1>2 DEF EvalInv, UsedOnce, Typed, GrantKinds
  <2> QED BY <2>1 DEF Total
<1>5. \A k \in GrantKinds : offered[k] > 0 => grants[k] > 0
  <2> SUFFICES ASSUME NEW k \in GrantKinds, offered[k] > 0 PROVE grants[k] > 0
    OBVIOUS
  <2>1. used[k] = 0
    BY <1>4 DEF GrantKinds
  <2>2. offered[k] \in Nat /\ grants[k] \in Nat /\ offered[k] <= grants[k] + used[k]
    BY <1>2 DEF HonourInv, StillThere, ReplyInv, Typed
  <2> QED BY <2>1, <2>2
<1>6. Covers(GrantKinds) /\ (Blocks(Here) => Covers(Lifting))
  BY <1>3, <1>5 DEF Honoured, Covers, Lifting, GrantKinds
<1> QED BY <1>1, <1>3, <1>6

LEMMA LeaveHonour ==
    ASSUME EvalInv, HonourInv, frames # <<>>, NEW r, Leave(r),
           r = "unfinished" => late, Honoured /\ Len(frames) = 1 /\ r = "deny" => MissedHarm,
           UNCHANGED <<cmd, offered, late, views>>, StillThere'
    PROVE  HonourInv'
<1>1. Typed /\ ret' = r
  BY DEF EvalInv, Leave
<1>2. /\ Len(frames) = 1 <=> frames' = <<>>
      /\ frames' # <<>> => frames'[1] = frames[1]
  BY <1>1, LeaveFrames
<1>3. (Honoured' <=> Honoured) /\ (MissedHarm' <=> MissedHarm)
  BY LineStays DEF Honoured
<1>4. ret' = "unfinished" \/ verdict' = "unfinished" => late'
  BY <1>1 DEF HonourInv, views
<1> QED BY <1>1, <1>2, <1>3, <1>4 DEF HonourInv, views

LEMMA ProceedHonour ==
    ASSUME EvalInv, HonourInv, frames # <<>>, ret = None,
           NEW s \in {"open", "early", "whole", "late"}, Proceed(s),
           Honoured /\ Len(frames) = 1 => s # "late" /\ (s \in {"early", "whole"} => ~cmd[Here].seen),
           UNCHANGED <<cmd, offered, grants, used, late, views>>
    PROVE  HonourInv'
<1>1. ret' = None
  BY DEF Proceed
<1>2. (Honoured' <=> Honoured) /\ (MissedHarm' <=> MissedHarm)
  BY LineStays DEF Honoured
<1>3. StillThere'
  BY DEF HonourInv, StillThere
<1>4. /\ frames' # <<>> /\ frames'[1].node = frames[1].node
      /\ frames'[1].stage = IF Len(frames) = 1 THEN s ELSE frames[1].stage
  BY ProceedFrames DEF EvalInv
<1>5. Len(frames) = 1 => Here = frames[1].node
  BY DEF Here, Frame
<1>6. Honoured => /\ frames'[1].stage # "late"
                  /\ frames'[1].stage \in {"early", "whole"} => ~cmd'[frames'[1].node].seen
  BY <1>4, <1>5 DEF HonourInv
<1> QED BY <1>1, <1>2, <1>3, <1>4, <1>6 DEF HonourInv, views, None

\* Going down to a nested command, or on from it, leaves the outermost one where it was.
LEMMA OutermostStays ==
    ASSUME Typed, Descend \/ (Ascend /\ ~Decides(ret))
    PROVE  frames' # <<>> /\ frames'[1].node = frames[1].node /\ frames'[1].stage = frames[1].stage
<1> DEFINE n == Len(frames)
<1>1. frames # <<>>
  BY DEF Descend, Ascend, At
<1>2. n \in Nat /\ n \in DOMAIN frames /\ 1 \in DOMAIN frames /\ DOMAIN frames = 1..n
      /\ frames[n] \in Frames /\ frames[1] \in Frames
  BY <1>1 DEF Typed
<1>3. ASSUME NEW j \in Nodes, NEW up, up = [frames EXCEPT ![n].kid = j]
      PROVE  up \in Seq(Frames) /\ Len(up) = n /\ up[1].node = frames[1].node /\ up[1].stage = frames[1].stage
  <2>1. [frames[n] EXCEPT !.kid = j] \in Frames
    BY <1>2 DEF Frames
  <2>2. up = [frames EXCEPT ![n] = [frames[n] EXCEPT !.kid = j]]
    BY <1>3
  <2>3. up \in Seq(Frames) /\ Len(up) = n
    BY <1>2, <2>1, <2>2 DEF Typed
  <2>4. up[1] = IF n = 1 THEN [frames[1] EXCEPT !.kid = j] ELSE frames[1]
    BY <1>2, <2>2
  <2> QED BY <1>2, <2>3, <2>4 DEF Frames
<1>4. CASE Descend
  <2>1. PICK j \in Pending : frames' = Append([frames EXCEPT ![n].kid = j], Entered(j))
    BY <1>4 DEF Descend
  <2>2. j \in Nodes
    BY DEF Pending, Kids
  <2>3. PICK up : up = [frames EXCEPT ![n].kid = j]
    OBVIOUS
  <2>4. up \in Seq(Frames) /\ Len(up) = n /\ up[1].node = frames[1].node /\ up[1].stage = frames[1].stage
    BY <1>3, <2>2, <2>3
  <2>5. frames' = Append(up, Entered(j)) /\ 1 \in 1..n
    BY <1>2, <2>1, <2>3
  <2>6. frames' # <<>> /\ frames'[1] = up[1]
    BY <1>2, <2>4, <2>5
  <2> QED BY <2>4, <2>6
<1>5. CASE Ascend /\ ~Decides(ret)
  <2>1. frames' = [frames EXCEPT ![n].hit = @ \/ ret = "listed"]
    BY <1>5 DEF Ascend
  <2>2. frames'[1] = IF n = 1 THEN [frames[1] EXCEPT !.hit = @ \/ ret = "listed"] ELSE frames[1]
    BY <1>2, <2>1
  <2>3. DOMAIN frames' = 1..n /\ 1 \in 1..n
    BY <1>2, <2>1
  <2>4. frames' # <<>>
    BY <2>3
  <2> QED BY <1>2, <2>2, <2>4 DEF Frames
<1> QED BY <1>4, <1>5

LEMMA HonourStep == EvalInv /\ ReplyInv /\ MeritInv /\ HonourInv /\ [EvalNext]_evalVars => HonourInv'
<1> SUFFICES ASSUME EvalInv, ReplyInv, MeritInv, HonourInv, [EvalNext]_evalVars PROVE HonourInv'
  OBVIOUS
<1>t. Typed /\ ChainInv /\ RetInv /\ ViewInv /\ StillThere
  BY DEF EvalInv, MeritInv, HonourInv
<1>s. UNCHANGED <<offered, store>> => StillThere'
  BY <1>t DEF StillThere, store
<1>1. CASE Enter
  <2>1. frames # <<>> /\ ret = None /\ Frame.stage = "enter" /\ UNCHANGED <<cmd, offered, late, views>>
    BY <1>1 DEF Enter, At
  <2>2. CASE Leave("deny") /\ UNCHANGED store /\ (Depth > MaxNesting \/ (Blocks(Here) /\ ~Covers(Lifting)))
    <3>1. ~(Honoured /\ Len(frames) = 1)
      BY <1>t, <2>2, GrantAtHand, EvaluatorBounds
    <3> QED BY <1>s, <1>t, <2>1, <2>2, <3>1, LeaveHonour
  <2>3. CASE UNCHANGED store /\ ((late /\ Leave("unfinished")) \/ Leave("clear"))
    BY <1>s, <1>t, <2>1, <2>3, LeaveHonour
  <2>4. CASE Use(Lifting) /\ Leave("grant")
    <3>1. Lifting \in SUBSET GrantKinds
      BY DEF Lifting, GrantKinds
    <3>2. StillThere'
      BY <1>t, <2>1, <2>4, <3>1, UseKeeps
    <3> QED BY <1>t, <2>1, <2>4, <3>2, LeaveHonour
  <2>5. CASE Proceed("open") /\ UNCHANGED store
    BY <2>1, <2>5, ProceedHonour DEF store
  <2> QED BY <1>1, <2>2, <2>3, <2>4, <2>5 DEF Enter
<1>2. CASE Open
  <2>1. frames # <<>> /\ ret = None /\ Frame.stage = "open" /\ UNCHANGED <<cmd, offered, late, views>>
    BY <1>2 DEF Open, At
  <2>2. CASE UNCHANGED store /\ ((late /\ Leave("unfinished")) \/ Leave("clear"))
    BY <1>s, <1>t, <2>1, <2>2, LeaveHonour
  <2>3. CASE Use(GrantKinds) /\ Leave("grant")
    <3>1. StillThere'
      BY <1>t, <2>1, <2>3, UseKeeps
    <3> QED BY <1>t, <2>1, <2>3, <3>1, LeaveHonour
  <2>4. CASE Proceed("early") /\ UNCHANGED store /\ (cmd[Here].seen => ~Covers(GrantKinds))
    <3>1. Honoured /\ Len(frames) = 1 => ~cmd[Here].seen
      BY <1>t, <2>4, GrantAtHand
    <3> QED BY <2>1, <2>4, <3>1, ProceedHonour DEF store
  <2> QED BY <1>2, <2>2, <2>3, <2>4 DEF Open
<1>3. CASE Descend
  <2>1. ret = None /\ UNCHANGED <<cmd, offered, store, late, ret, views>>
    BY <1>3 DEF Descend, At
  <2>2. frames' # <<>> /\ frames'[1].node = frames[1].node /\ frames'[1].stage = frames[1].stage /\ frames # <<>>
    BY <1>t, <1>3, OutermostStays DEF Descend, At
  <2>3. (Honoured' <=> Honoured) /\ (MissedHarm' <=> MissedHarm)
    BY <2>1, LineStays DEF Honoured
  <2> QED BY <1>s, <2>1, <2>2, <2>3 DEF HonourInv, views
<1>4. CASE Ascend
  <2>1. frames # <<>> /\ ret # None /\ UNCHANGED <<cmd, offered, store, late, views>>
    BY <1>4 DEF Ascend
  <2>2. CASE Decides(ret)
    <3>1. Leave(ret) /\ (ret = "unfinished" => late)
      BY <1>4, <2>2 DEF Ascend, HonourInv
    <3>2. ASSUME Honoured, Len(frames) = 1, ret = "deny" PROVE MissedHarm
      <4>1. Frame.stage # "late" /\ (Frame.stage \in {"early", "whole"} => ~cmd[Here].seen)
        BY <1>t, <3>2, GrantAtHand
      <4>2. Waits(Frame) /\ FrameOK(Frame) /\ ~Sane(Frame.kid) /\ Here \in Roots
        BY <1>t, <2>1, <3>2, TopFacts DEF RetInv, Last, EvalInv, OutermostUnblocked, Here, Frame
      <4>3. Frame.stage = "early" /\ Frame.kid \in Kids(Here, "early")
        BY <4>1, <4>2 DEF Waits, Here
      <4>4. Frame.kid \in Bare(Here) /\ ~cmd[Here].seen
        BY <4>1, <4>2, <4>3, Unshielded DEF Here
      <4> QED BY <1>t, <4>2, <4>3, <4>4, HarmAmongMissed DEF Typed
    <3> QED BY <1>s, <2>1, <3>1, <3>2, LeaveHonour
  <2>3. CASE ~Decides(ret)
    <3>1. frames' # <<>> /\ frames'[1].node = frames[1].node /\ frames'[1].stage = frames[1].stage
      BY <1>t, <1>4, <2>3, OutermostStays
    <3>2. ret' = None
      BY <1>4, <2>3 DEF Ascend
    <3>3. (Honoured' <=> Honoured) /\ (MissedHarm' <=> MissedHarm)
      BY <2>1, LineStays DEF Honoured
    <3> QED BY <1>s, <2>1, <3>1, <3>2, <3>3 DEF HonourInv, views, None
  <2> QED BY <2>2, <2>3
<1>5. CASE Gate
  <2>1. /\ frames # <<>> /\ ret = None /\ Frame.stage = "early"
        /\ UNCHANGED <<cmd, offered, store, late, views>>
    BY <1>5 DEF Gate, At
  <2>2. CASE late /\ Leave("unfinished")
    BY <1>s, <1>t, <2>1, <2>2, LeaveHonour
  <2>3. CASE Leave(Credit("quiet"))
    <3>1. Credit("quiet") # "deny" /\ Credit("quiet") # "unfinished"
      BY DEF Credit
    <3> QED BY <1>s, <1>t, <2>1, <2>3, <3>1, LeaveHonour
  <2>4. CASE Proceed("whole")
    <3>1. Honoured /\ Len(frames) = 1 => ~cmd[Here].seen
      BY <1>t, <2>1, GrantAtHand
    <3> QED BY <2>1, <2>4, <3>1, ProceedHonour DEF store
  <2> QED BY <1>5, <2>2, <2>3, <2>4 DEF Gate
<1>6. CASE Whole
  <2>1. frames # <<>> /\ ret = None /\ Frame.stage = "whole" /\ UNCHANGED <<cmd, offered, late, views>>
    BY <1>6 DEF Whole, At
  <2>2. CASE UNCHANGED store /\ ((late /\ Leave("unfinished")) \/ Leave("clear"))
    BY <1>s, <1>t, <2>1, <2>2, LeaveHonour
  <2>3. CASE Use(GrantKinds) /\ Leave("grant")
    <3>1. StillThere'
      BY <1>t, <2>1, <2>3, UseKeeps
    <3> QED BY <1>t, <2>1, <2>3, <3>1, LeaveHonour
  <2>4. CASE Proceed("late") /\ UNCHANGED store /\ (cmd[Here].seen \/ ~Covers(GrantKinds))
    <3>1. ~(Honoured /\ Len(frames) = 1)
      BY <1>t, <2>1, <2>4, GrantAtHand
    <3> QED BY <2>1, <2>4, <3>1, ProceedHonour DEF store
  <2> QED BY <1>6, <2>2, <2>3, <2>4 DEF Whole
<1>7. CASE Packs
  <2>1. /\ frames # <<>> /\ Frame.stage = "late" /\ UNCHANGED <<cmd, offered, store, late, views>>
        /\ \E r : Leave(r) /\ (r = "unfinished" => late)
    <3>1. \A f : Credit(f) # "unfinished"
      BY DEF Credit
    <3> QED BY <1>7, <3>1 DEF Packs, At
  <2>2. ~(Honoured /\ Len(frames) = 1)
    BY <1>t, <2>1, GrantAtHand
  <2> QED BY <1>s, <2>1, <2>2, LeaveHonour
<1>8. CASE FanOut
  <2>1. /\ frames = <<>> /\ verdict = None /\ ret' = None /\ UNCHANGED <<cmd, offered, store, late>>
        /\ primary' = IF view = 1 THEN ret ELSE primary
    BY <1>8 DEF FanOut
  <2>2. ret \in Answers /\ (ret \in Allowing => primary' \in Allowing)
    BY <1>t, <2>1 DEF RetInv, ReplyInv, ViewInv
  <2>3. (Honoured' <=> Honoured) /\ (MissedHarm' <=> MissedHarm)
    BY <2>1, LineStays DEF Honoured
  <2>4. /\ verdict' = "unfinished" => late
        /\ verdict' = "deny" => ret = "deny"
    <3>1. CASE EndsEvaluation(ret)
      <4>1. verdict' = IF ret \in Allowing THEN primary' ELSE ret
        BY <1>8, <3>1 DEF FanOut
      <4> QED BY <2>2, <4>1 DEF HonourInv, Allowing
    <3>2. CASE ~EndsEvaluation(ret)
      <4>1. verdict' = verdict \/ (late /\ verdict' = "unfinished")
        BY <1>8, <3>2 DEF FanOut
      <4> QED BY <2>1, <4>1 DEF None
    <3> QED BY <3>1, <3>2
  <2>5. frames' # <<>> => frames'[1].stage = "enter"
    <3>1. frames' = <<>> \/ \E j \in Other : frames' = <<Entered(j)>>
      BY <1>8, <2>1 DEF FanOut
    <3>2. \A j : <<Entered(j)>>[1].stage = "enter"
      BY DEF Entered
    <3> QED BY <3>1, <3>2
  <2> QED BY <1>s, <2>1, <2>3, <2>4, <2>5 DEF HonourInv, None
<1>9. CASE Expire
  <2>1. UNCHANGED <<cmd, offered, store, frames, ret, views>> /\ late' = TRUE
    BY <1>9 DEF Expire
  <2>2. (Honoured' <=> Honoured) /\ (MissedHarm' <=> MissedHarm)
    BY <2>1, LineStays DEF Honoured
  <2> QED BY <1>s, <2>1, <2>2 DEF HonourInv, views
<1>10. CASE RedeemMeanwhile \/ UNCHANGED evalVars
  <2>1. UNCHANGED <<cmd, offered, used, late, frames, ret, views>>
    BY <1>10 DEF RedeemMeanwhile, evalVars, store
  <2>2. (Honoured' <=> Honoured) /\ (MissedHarm' <=> MissedHarm)
    BY <2>1, LineStays DEF Honoured
  <2>3. \A k \in GrantKinds : grants[k] \in Nat /\ grants'[k] \in Nat /\ grants'[k] >= grants[k]
    BY <1>10, <1>t DEF RedeemMeanwhile, evalVars, store, Typed
  <2>4. StillThere'
    <3> SUFFICES ASSUME NEW k \in GrantKinds PROVE offered[k] <= grants'[k] + used[k]
      BY <2>1 DEF StillThere
    <3>1. offered[k] \in Nat /\ used[k] \in Nat /\ offered[k] <= grants[k] + used[k]
      BY <1>t DEF Typed, ReplyInv, StillThere
    <3> QED BY <2>3, <3>1
  <2> QED BY <2>1, <2>2, <2>4 DEF HonourInv, views
<1> QED BY <1>1, <1>2, <1>3, <1>4, <1>5, <1>6, <1>7, <1>8, <1>9, <1>10 DEF EvalNext

\* A grant that is in the store from the start, and that the configuration lets the
\* line use, is honoured but for harm in a nested command that the cheap predicate
\* misses: nothing else denies the line, and it finishes unless time runs out
\* (evaluator.rs:13491-13519, 14163-14172, 14347-14441).
THEOREM GrantIsHonoured == EvalSpec => []GrantHonoured
<1>1. HonourInv => GrantHonoured
  BY DEF HonourInv, Honoured, GrantHonoured, GrantAvails
<1>2. EvalInit => HonourInv
  <2> SUFFICES ASSUME EvalInit PROVE HonourInv
    OBVIOUS
  <2>1. StillThere
    BY EvaluatorBounds DEF EvalInit, EvalStart, StillThere
  <2>2. frames[1].stage = "enter"
    BY DEF EvalInit, EvalStart, Entered
  <2> QED BY <2>1, <2>2 DEF EvalInit, EvalStart, HonourInv, None
<1>3. EvalInit => EvalInv /\ ReplyInv /\ MeritInv
  BY EvalInvInit, MeritInit
<1>4. EvalInv /\ ReplyInv /\ MeritInv /\ [EvalNext]_evalVars => EvalInv' /\ ReplyInv' /\ MeritInv'
  BY EvalInvStep, ReplyStep, MeritStep
<1> QED BY <1>1, <1>2, <1>3, <1>4, HonourStep, PTL DEF EvalSpec
================================================================================
