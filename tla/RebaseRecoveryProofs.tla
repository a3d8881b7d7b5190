------------------------- MODULE RebaseRecoveryProofs -------------------------
(***************************************************************************)
(* What holds of the recovery window for any number of hooks, permits and  *)
(* runs, and what holds when hooks do not overlap.  The last section joins *)
(* these theorems and those about the settings for the specification that  *)
(* the instances in MCFiles are of.                                        *)
(***************************************************************************)
EXTENDS MCFiles, SelfHealProofs, FiniteSetTheorems

--------------------------------------------------------------------------------
(* Types *)

\* A hook past its start is one of those counted, permits are counted, and a
\* permit being written gets the next number.
CountInv ==
    /\ \A h \in Hooks : op[h] # "idle" => started >= 1
    /\ IsFiniteSet(issued)
    /\ \A p \in issued : p.id \in 1..Cardinality(issued)
    /\ issuing = NoFile \/ issuing.id = Cardinality(issued) + 1
    /\ permit.id <= Cardinality(issued)
TypeInv == TypeOK /\ CountInv

LEMMA Files == NoFile \in File /\ Empty \in File /\ ~IsPermit(NoFile) /\ ~IsPermit(Empty)
  BY DEF NoFile, Empty, File, IsPermit

LEMMA InitType == Init => TypeInv
  <1> SUFFICES ASSUME Init PROVE TypeInv
    OBVIOUS
  <1>1. IsFiniteSet({}) /\ Cardinality({}) = 0
    BY FS_EmptySet
  <1>2. TypeOK
    BY Files, NumbersAssumption DEF Init, TypeOK, Rests
  <1> QED BY <1>1, <1>2 DEF Init, TypeInv, CountInv, NoFile

LEMMA IssueStep == TypeInv /\ (IssueStart \/ IssueWrite) => TypeInv'
  <1> SUFFICES ASSUME TypeInv, IssueStart \/ IssueWrite PROVE TypeInv'
    OBVIOUS
  <1>0. IsFiniteSet(issued) /\ Cardinality(issued) \in Nat /\ clock \in Nat /\ clock + TTL \in Nat
    BY FS_CardinalityType, NumbersAssumption DEF TypeInv, CountInv, TypeOK
  <1>1. CASE IssueStart
    <2>1. issuing' \in File /\ permit' \in File /\ permit'.id = 0
      BY <1>0, <1>1, Files DEF IssueStart, File, Empty
    <2>2. TypeOK'
      BY <1>1, <2>1 DEF IssueStart, TypeInv, TypeOK, line
    <2>3. CountInv'
      BY <1>0, <1>1, <2>1 DEF IssueStart, TypeInv, CountInv
    <2> QED BY <2>2, <2>3 DEF TypeInv
  <1>2. CASE IssueWrite
    <2>1. issuing \in File /\ issuing.id = Cardinality(issued) + 1
      BY <1>2 DEF IssueWrite, TypeInv, TypeOK, CountInv
    <2>2. issuing \notin issued
      BY <1>0, <2>1 DEF TypeInv, CountInv
    <2>3. IsFiniteSet(issued') /\ Cardinality(issued') = Cardinality(issued) + 1
      BY <1>0, <1>2, <2>2, FS_AddElement DEF IssueWrite
    <2>4. permit' \in File /\ permit'.id <= Cardinality(issued')
      BY <1>0, <1>2, <2>1, <2>3, Files DEF IssueWrite, NoFile
    <2>5. TypeOK'
      BY <1>2, <2>1, <2>4, Files DEF IssueWrite, TypeInv, TypeOK, line
    <2>6. CountInv'
      BY <1>0, <1>2, <2>1, <2>3, <2>4 DEF IssueWrite, TypeInv, CountInv
    <2> QED BY <2>5, <2>6 DEF TypeInv
  <1> QED BY <1>1, <1>2

LEMMA HookStep == ASSUME TypeInv, NEW h \in Hooks, Hook(h) PROVE TypeInv'
  <1>0. IsFiniteSet(issued) /\ Cardinality(issued) \in Nat
    BY FS_CardinalityType DEF TypeInv, CountInv
  <1> USE DEF TypeInv, Goto, Sees, world, line
  <1>1. CASE Start(h)
    <2>1. started' \in 0..MaxRuns /\ started' >= 1
      BY <1>1, NumbersAssumption DEF Start, TypeOK
    <2>2. TypeOK'
      BY <1>1, <2>1 DEF Start, TypeOK
    <2>3. CountInv'
      BY <1>1, <2>1 DEF Start, CountInv, TypeOK
    <2> QED BY <2>2, <2>3
  <1>2. CASE Probe(h)
    <2>1. seen'[h] \in File /\ seen' = [seen EXCEPT ![h] = seen'[h]]
      BY <1>2, Files DEF Probe, TypeOK, Rebase
    <2>2. op'[h] = "check" => IsPermit(seen'[h])
      BY <1>2 DEF Probe, TypeOK
    <2>3. op' = [op EXCEPT ![h] = op'[h]] /\ op'[h] \in {"reevaluate", "check", "idle"}
      BY <1>2 DEF Probe, TypeOK
    <2>4. TypeOK'
      BY <1>2, <2>1, <2>2, <2>3 DEF Probe, TypeOK
    <2>5. CountInv'
      BY <1>2, <2>3 DEF Probe, CountInv, TypeOK
    <2> QED BY <2>4, <2>5
  <1>3. CASE Check(h)
    <2>1. TypeOK'
      BY <1>3 DEF Check, TypeOK
    <2>2. CountInv'
      BY <1>3 DEF Check, CountInv, TypeOK
    <2> QED BY <2>1, <2>2
  <1>4. CASE Cleanup(h)
    <2>1. TypeOK'
      BY <1>4, Files DEF Cleanup, TypeOK
    <2>2. CountInv'
      BY <1>0, <1>4 DEF Cleanup, CountInv, TypeOK, NoFile
    <2> QED BY <2>1, <2>2
  <1>a. ASSUME LetThrough(h), op[h] # "idle", UNCHANGED started
        PROVE  passed' \subseteq [hook : Hooks, run : 1..MaxRuns, began : 0..MaxTime, permit : File,
                                  rest : Rests]
    <2>1. started \in 1..MaxRuns
      BY <1>a, NumbersAssumption DEF TypeOK, CountInv
    <2> QED BY <1>a, <2>1 DEF LetThrough, TypeOK
  <1>5. CASE Reevaluate(h)
    <2>1. op' = [op EXCEPT ![h] = op'[h]] /\ op'[h] \in {"idle", "consume"}
      BY <1>5 DEF Reevaluate, TypeOK
    <2>2. op'[h] = "consume" => IsPermit(seen[h])
      BY <1>5 DEF Reevaluate, TypeOK
    <2>3. passed' = passed \/ LetThrough(h)
      BY <1>5 DEF Reevaluate
    <2>4. passed' \subseteq [hook : Hooks, run : 1..MaxRuns, began : 0..MaxTime, permit : File,
                             rest : Rests]
      BY <1>5, <1>a, <2>3 DEF Reevaluate, TypeOK
    <2>5. TypeOK'
      BY <1>5, <2>1, <2>2, <2>4 DEF Reevaluate, TypeOK
    <2>6. CountInv'
      BY <1>5, <2>1 DEF Reevaluate, CountInv, TypeOK
    <2> QED BY <2>5, <2>6
  <1>6. CASE Consume(h)
    <2>1. passed' \subseteq [hook : Hooks, run : 1..MaxRuns, began : 0..MaxTime, permit : File,
                             rest : Rests]
      BY <1>6, <1>a DEF Consume
    <2>2. TypeOK'
      BY <1>6, <2>1, Files DEF Consume, TypeOK
    <2>3. CountInv'
      BY <1>0, <1>6 DEF Consume, CountInv, TypeOK, NoFile
    <2> QED BY <2>2, <2>3
  <1> QED BY <1>1, <1>2, <1>3, <1>4, <1>5, <1>6 DEF Hook

LEMMA TypeStep == TypeInv /\ [Next]_vars => TypeInv'
  <1> SUFFICES ASSUME TypeInv, [Next]_vars PROVE TypeInv'
    OBVIOUS
  <1>1. CASE UNCHANGED vars
    BY <1>1 DEF vars, line, TypeInv, TypeOK, CountInv
  <1>2. CASE Tick
    BY <1>2, NumbersAssumption DEF Tick, line, TypeInv, TypeOK, CountInv
  <1>3. CASE Rebasing
    BY <1>3 DEF Rebasing, line, TypeInv, TypeOK, CountInv
  <1> QED BY <1>1, <1>2, <1>3, IssueStep, HookStep DEF Next

\* Files, hooks and counters stay well typed, and permits are numbered in the
\* order they are issued.
THEOREM TypeCorrect == Spec => []TypeOK
  <1>1. TypeInv => TypeOK
    BY DEF TypeInv
  <1> QED BY <1>1, InitType, TypeStep, PTL DEF Spec

--------------------------------------------------------------------------------
(* Only in the window *)

\* What a hook acts on was a permit once written, live when it was looked at,
\* and so when the hook started; nothing else on the line stops it.
InFlight(h) == op[h] \in {"check", "cleanup", "reevaluate", "consume"}
WindowInv ==
    /\ OnlyInWindow
    /\ IsPermit(permit) => permit \in issued
    /\ \A h \in Hooks :
        /\ began[h] <= clock
        /\ InFlight(h) /\ IsPermit(seen[h]) => seen[h] \in issued
        /\ op[h] \in {"reevaluate", "consume"} /\ IsPermit(seen[h]) => began[h] < seen[h].exp
        /\ op[h] = "consume" => rest[h] \in {"nothing", "warned"}

LEMMA WindowHook == ASSUME TypeInv, WindowInv, NEW h \in Hooks, Hook(h) PROVE WindowInv'
  <1>0. /\ began \in [Hooks -> 0..MaxTime] /\ clock \in Nat
        /\ op \in [Hooks -> {"idle", "probe", "check", "cleanup", "reevaluate", "consume"}]
        /\ seen \in [Hooks -> File] /\ rest \in [Hooks -> Rests] /\ permit \in File
    BY NumbersAssumption DEF TypeInv, TypeOK
  <1> USE DEF WindowInv, InFlight, Goto, Sees, world, line
  <1>1. CASE Start(h)
    BY <1>0, <1>1 DEF Start, OnlyInWindow
  <1>2. CASE Probe(h)
    BY <1>0, <1>2, Files DEF Probe, OnlyInWindow, Rebase
  <1>3. CASE Check(h)
    BY <1>0, <1>3 DEF Check, OnlyInWindow, Live, File
  <1>4. CASE Cleanup(h)
    BY <1>0, <1>4, Files DEF Cleanup, OnlyInWindow
  <1>a. ASSUME LetThrough(h), op[h] \in {"reevaluate", "consume"}, rest[h] \in {"nothing", "warned"},
               UNCHANGED issued
        PROVE  OnlyInWindow'
    BY <1>a DEF LetThrough, OnlyInWindow
  <1>5. CASE Reevaluate(h)
    <2>1. OnlyInWindow'
      BY <1>5, <1>a DEF Reevaluate, OnlyInWindow
    <2> QED BY <1>0, <1>5, <2>1 DEF Reevaluate
  <1>6. CASE Consume(h)
    <2>1. OnlyInWindow'
      BY <1>6, <1>a DEF Consume
    <2> QED BY <1>0, <1>6, <2>1, Files DEF Consume
  <1> QED BY <1>1, <1>2, <1>3, <1>4, <1>5, <1>6 DEF Hook

LEMMA WindowStep == TypeInv /\ WindowInv /\ [Next]_vars => WindowInv'
  <1> SUFFICES ASSUME TypeInv, WindowInv, [Next]_vars PROVE WindowInv'
    OBVIOUS
  <1> USE DEF WindowInv, InFlight, line, OnlyInWindow
  <1>1. CASE UNCHANGED vars
    BY <1>1 DEF vars
  <1>2. CASE IssueStart
    BY <1>2, Files DEF IssueStart
  <1>3. CASE IssueWrite
    BY <1>3, Files DEF IssueWrite
  <1>4. CASE Tick
    BY <1>4, NumbersAssumption DEF Tick, TypeInv, TypeOK
  <1>5. CASE Rebasing
    BY <1>5 DEF Rebasing
  <1> QED BY <1>1, <1>2, <1>3, <1>4, <1>5, WindowHook DEF Next

\* However many hooks and permits there are: a permit that had expired when a
\* hook started lets nothing through, and no signal unlocks another rule.
THEOREM WindowHolds == Spec => []OnlyInWindow
  <1>1. Init => WindowInv
    BY Files, NumbersAssumption DEF Init, WindowInv, OnlyInWindow, InFlight
  <1>2. WindowInv => OnlyInWindow
    BY DEF WindowInv
  <1> QED BY <1>1, <1>2, InitType, TypeStep, WindowStep, PTL DEF Spec

--------------------------------------------------------------------------------
(* Single use, when hooks do not overlap *)

OnlyHook == \A g, h \in Hooks : g = h

\* A permit that let a line through is gone from the file, and no hook acts on it.
SpentInv ==
    \A a \in passed : IsPermit(a.permit) =>
        /\ a.permit.id <= Cardinality(issued) /\ a.permit.id # permit.id
        /\ \A h \in Hooks : InFlight(h) => a.permit.id # seen[h].id
        /\ \A b \in passed : a.permit.id = b.permit.id => a = b

LEMMA SpentHook ==
    ASSUME TypeInv, WindowInv, OnlyHook, SpentInv, NEW h \in Hooks, Hook(h) PROVE SpentInv'
  <1>0. /\ op \in [Hooks -> {"idle", "probe", "check", "cleanup", "reevaluate", "consume"}] /\ seen \in [Hooks -> File] /\ permit \in File
        /\ Cardinality(issued) \in Nat
    BY FS_CardinalityType DEF TypeInv, TypeOK, CountInv
  <1> USE DEF SpentInv, InFlight, Goto, Sees, world, line
  <1>1. CASE Start(h)
    BY <1>0, <1>1 DEF Start
  <1>2. CASE Probe(h)
    BY <1>0, <1>2 DEF Probe, Rebase, NoFile, IsPermit
  <1>3. CASE Check(h)
    BY <1>0, <1>3 DEF Check
  <1>4. CASE Cleanup(h)
    BY <1>0, <1>4 DEF Cleanup, NoFile, IsPermit
  <1>5. CASE Reevaluate(h)
    <2>1. CASE UNCHANGED passed
      BY <1>0, <1>5, <2>1 DEF Reevaluate
    <2>2. CASE LetThrough(h) /\ ~IsPermit(seen[h])
      BY <1>0, <1>5, <2>2 DEF Reevaluate, LetThrough, IsPermit
    <2> QED BY <1>5, <2>1, <2>2 DEF Reevaluate
  <1>6. CASE Consume(h)
    <2>1. seen[h].id <= Cardinality(issued)
      BY <1>0, <1>6 DEF Consume, WindowInv, TypeInv, TypeOK, CountInv
    <2>2. \A g \in Hooks : op'[g] = "idle"
      BY <1>0, <1>6 DEF Consume, OnlyHook
    <2>3. permit' = NoFile /\ LetThrough(h) /\ UNCHANGED issued /\ op[h] = "consume"
      BY <1>6 DEF Consume
    <2> QED BY <1>0, <2>1, <2>2, <2>3 DEF LetThrough, NoFile, IsPermit
  <1> QED BY <1>1, <1>2, <1>3, <1>4, <1>5, <1>6 DEF Hook

LEMMA SpentStep == TypeInv /\ WindowInv /\ OnlyHook /\ SpentInv /\ [Next]_vars => SpentInv'
  <1> SUFFICES ASSUME TypeInv, WindowInv, OnlyHook, SpentInv, [Next]_vars PROVE SpentInv'
    OBVIOUS
  <1>0. IsFiniteSet(issued) /\ Cardinality(issued) \in Nat
    BY FS_CardinalityType DEF TypeInv, CountInv
  <1> USE DEF SpentInv, InFlight, line
  <1>1. CASE UNCHANGED vars
    BY <1>1 DEF vars
  <1>2. CASE IssueStart
    BY <1>2 DEF IssueStart, Empty, IsPermit
  <1>3. CASE IssueWrite
    <2>1. issuing.id = Cardinality(issued) + 1
      BY <1>3 DEF IssueWrite, TypeInv, CountInv
    <2>2. issuing \notin issued
      BY <1>0, <2>1 DEF TypeInv, CountInv
    <2>3. Cardinality(issued') = Cardinality(issued) + 1
      BY <1>0, <1>3, <2>2, FS_AddElement DEF IssueWrite
    <2>4. permit'.id \in {0, Cardinality(issued) + 1} /\ UNCHANGED <<op, seen, passed>>
      BY <1>3, <2>1 DEF IssueWrite, NoFile
    <2>5. \A a \in passed : a.permit.id \in Nat
      BY DEF TypeInv, TypeOK, File
    <2> QED BY <1>0, <2>3, <2>4, <2>5 DEF IsPermit
  <1>4. CASE Tick \/ Rebasing
    BY <1>4 DEF Tick, Rebasing
  <1> QED BY <1>1, <1>2, <1>3, <1>4, SpentHook DEF Next

\* One hook at a time, a permit lets one line through however many permits are
\* issued and rebases started meanwhile: only hooks that overlap break it.
THEOREM SingleShotAlone == OnlyHook => (Spec => []SingleShot)
  <1> SUFFICES ASSUME OnlyHook PROVE Spec => []SingleShot
    OBVIOUS
  <1>1. Init => WindowInv /\ SpentInv
    BY Files, NumbersAssumption DEF Init, WindowInv, OnlyInWindow, InFlight, SpentInv
  <1>2. TypeInv /\ WindowInv /\ SpentInv /\ [Next]_vars => (TypeInv /\ WindowInv /\ SpentInv)'
    BY TypeStep, WindowStep, SpentStep
  <1>3. SpentInv => SingleShot
    BY DEF SpentInv, SingleShot
  <1> QED BY <1>1, <1>2, <1>3, InitType, PTL DEF Spec

--------------------------------------------------------------------------------
(* The only permit lasts *)

\* What is deleted as expired had expired; nothing deletes the file while the first
\* permit is written; and the only permit is in the file, expired, or used.
LastInv ==
    /\ \A h \in Hooks : op[h] = "cleanup" => ~Live(seen[h])
    /\ issued = {} /\ issuing # NoFile => permit = Empty
    /\ \A p \in issued : issued = {p} /\ issuing = NoFile /\ Live(p) =>
           permit = p \/ \E a \in passed : a.permit = p

LEMMA LastHook ==
    ASSUME TypeInv, WindowInv, LastInv, NEW h \in Hooks, Hook(h) PROVE LastInv'
  <1>0. /\ op \in [Hooks -> {"idle", "probe", "check", "cleanup", "reevaluate", "consume"}]
        /\ \A g \in Hooks : op[g] \in {"cleanup", "consume"} => seen[g] \in issued
    BY DEF TypeInv, TypeOK, WindowInv, InFlight
  <1> USE DEF LastInv, Live, Goto, Sees, world, line
  <1>1. CASE Start(h)
    BY <1>0, <1>1 DEF Start
  <1>2. CASE Probe(h)
    BY <1>0, <1>2 DEF Probe, TypeInv, TypeOK
  <1>3. CASE Check(h)
    BY <1>0, <1>3 DEF Check
  <1>4. CASE Cleanup(h)
    <2>1. seen[h] \in issued /\ ~Live(seen[h])
      BY <1>0, <1>4 DEF Cleanup
    <2> QED BY <1>0, <1>4, <2>1 DEF Cleanup
  <1>5. CASE Reevaluate(h)
    BY <1>0, <1>5 DEF Reevaluate, LetThrough
  <1>6. CASE Consume(h)
    <2> DEFINE pass == [hook |-> h, run |-> started, began |-> began[h], permit |-> seen[h], rest |-> rest[h]]
    <2>1. passed' = passed \cup {pass} /\ pass.permit = seen[h] /\ seen[h] \in issued
      BY <1>0, <1>6 DEF Consume, LetThrough
    <2>2. \E a \in passed' : a.permit = seen[h]
      <3> HIDE DEF pass
      <3> QED BY <2>1
    <2> HIDE DEF pass
    <2>3. op' = [op EXCEPT ![h] = "idle"] /\ UNCHANGED <<clock, issuing, issued, seen>> /\ op[h] = "consume"
      BY <1>6 DEF Consume
    <2>4. \A p \in issued' : issued' = {p} => \E a \in passed' : a.permit = p
      BY <2>1, <2>2, <2>3
    <2>5. issued' # {}
      BY <2>1, <2>3
    <2> QED BY <1>0, <2>3, <2>4, <2>5
  <1> QED BY <1>1, <1>2, <1>3, <1>4, <1>5, <1>6 DEF Hook

LEMMA LastStep == TypeInv /\ WindowInv /\ LastInv /\ [Next]_vars => LastInv'
  <1> SUFFICES ASSUME TypeInv, WindowInv, LastInv, [Next]_vars PROVE LastInv'
    OBVIOUS
  <1> USE DEF LastInv, Live, line
  <1>1. CASE UNCHANGED vars
    BY <1>1 DEF vars
  <1>2. CASE IssueStart
    <2>1. Cardinality(issued) \in Nat
      BY FS_CardinalityType DEF TypeInv, CountInv
    <2>2. issuing' # NoFile /\ permit' = Empty /\ UNCHANGED <<clock, op, seen>>
      BY <1>2, <2>1 DEF IssueStart, NoFile
    <2> QED BY <2>2
  <1>3. CASE IssueWrite
    <2>1. issuing \notin issued
      BY <1>3, FS_CardinalityType DEF IssueWrite, TypeInv, CountInv
    <2>2. ASSUME NEW p \in issued', issued' = {p} PROVE permit' = p
      BY <1>3, <2>1, <2>2 DEF IssueWrite, Empty, NoFile
    <2> QED BY <1>3, <2>2 DEF IssueWrite
  <1>4. CASE Tick
    BY <1>4, NumbersAssumption DEF Tick, TypeInv, TypeOK, File
  <1>5. CASE Rebasing
    BY <1>5 DEF Rebasing
  <1> QED BY <1>1, <1>2, <1>3, <1>4, <1>5, LastHook DEF Next

\* For any number of hooks, of lines that stay denied and of rebases: the only
\* permit issued is there until it expires or lets a line through
\* (rebase_recovery.rs:29-30).
THEOREM OnlyPermitLasts == Spec => []PermitLasts
  <1>1. Init => WindowInv /\ LastInv
    BY Files, NumbersAssumption DEF Init, WindowInv, OnlyInWindow, InFlight, LastInv
  <1>2. TypeInv /\ LastInv => PermitLasts
    <2> SUFFICES ASSUME TypeInv, LastInv, NEW p \in issued, Cardinality(issued) = 1,
                        issuing = NoFile, Live(p)
                 PROVE  permit = p \/ \E a \in passed : a.permit = p
      BY DEF PermitLasts
    <2>1. issued = {p}
      BY FS_Singleton DEF TypeInv, CountInv
    <2> QED BY <2>1 DEF LastInv
  <1> QED BY <1>1, <1>2, InitType, TypeStep, WindowStep, LastStep, PTL DEF Spec
--------------------------------------------------------------------------------
(* One hook at a time, permits keep the ledger of single-use exceptions *)

\* A line is let through once by its run, and the runs are numbered.
RunInv ==
    \A a \in passed : a.run <= started /\ (a.run = started => \A h \in Hooks : op[h] = "idle")

LEMMA RunStep == TypeInv /\ OnlyHook /\ RunInv /\ [Next]_vars => RunInv'
  <1> SUFFICES ASSUME TypeInv, OnlyHook, RunInv, [Next]_vars PROVE RunInv'
    OBVIOUS
  <1>0. /\ op \in [Hooks -> {"idle", "probe", "check", "cleanup", "reevaluate", "consume"}]
        /\ started \in Nat /\ \A a \in passed : a.run \in Nat
    BY NumbersAssumption DEF TypeInv, TypeOK
  <1> USE DEF RunInv, Goto, Sees, world, line
  <1>1. CASE UNCHANGED vars \/ IssueStart \/ IssueWrite \/ Tick \/ Rebasing
    BY <1>1 DEF vars, IssueStart, IssueWrite, Tick, Rebasing
  <1>2. ASSUME NEW h \in Hooks, Hook(h) PROVE RunInv'
    <2>1. CASE Start(h)
      BY <1>0, <2>1 DEF Start
    <2>2. CASE op[h] # "idle" /\ UNCHANGED <<started, passed>>
      BY <1>0, <2>2
    <2>3. CASE op[h] # "idle" /\ UNCHANGED started /\ LetThrough(h) /\ Goto(h, "idle")
      <3>1. \A g \in Hooks : op'[g] = "idle"
        BY <1>0, <2>3 DEF OnlyHook
      <3> QED BY <1>0, <2>3, <3>1 DEF LetThrough
    <2> QED BY <1>2, <2>1, <2>2, <2>3 DEF Hook, Probe, Check, Cleanup, Reevaluate, Consume
  <1> QED BY <1>1, <1>2 DEF Next

\* The ledger's three histories, as RebaseRecovery maps them.
Created == {Exception(p) : p \in issued}
Alive   == {Exception(p) : p \in Held}
RunOf(a) == [run |-> a.run, entry |-> Exception(a.permit)]
OnPermit == {a \in passed : IsPermit(a.permit)}
Runs    == {RunOf(a) : a \in OnPermit}

\* A step that lets nothing through on a permit, writes none and holds none it did not hold.
LEMMA EndStep ==
    ASSUME Held' \subseteq Held, UNCHANGED issued,
           passed' = passed \/ \E h \in Hooks : LetThrough(h) /\ ~IsPermit(seen[h])
    PROVE  Ledger!Step
  <1>1. Created' = Created
    BY DEF Created
  <1>2. Alive' \subseteq Alive
    BY DEF Alive, Exception
  <1>3. OnPermit' = OnPermit
    BY DEF LetThrough, OnPermit, IsPermit
  <1>4. Runs' = Runs
    BY <1>3 DEF Runs, RunOf, Exception
  <1> QED BY <1>1, <1>2, <1>4 DEF Created, Alive, Runs, RunOf, OnPermit, Ledger!Step, Ledger!End

\* A step of the ledger, from its two actions with a grant.
LEMMA GrantStep ==
    /\ \A e : e \in Created' /\ Ledger!Create(e) => Ledger!Step
    /\ \A a : a \in Runs' /\ Ledger!Authorize(a) => Ledger!Step
  <1>1. ASSUME NEW e, e \in Created', Ledger!Create(e) PROVE Ledger!Step
    BY <1>1 DEF Ledger!Step, Created
  <1>2. ASSUME NEW a, a \in Runs', Ledger!Authorize(a) PROVE Ledger!Step
    BY <1>2 DEF Ledger!Step, Runs, RunOf, OnPermit
  <1> QED BY <1>1, <1>2

LEMMA LedgerHook ==
    ASSUME TypeInv, WindowInv, OnlyHook, RunInv, NEW h \in Hooks, Hook(h) PROVE Ledger!Step
  <1>0. /\ op \in [Hooks -> {"idle", "probe", "check", "cleanup", "reevaluate", "consume"}]
        /\ seen \in [Hooks -> File] /\ permit \in File
    BY DEF TypeInv, TypeOK
  <1> USE DEF Goto, Sees, world, line
  <1>1. CASE Start(h)
    <2>1. Held' \subseteq Held
      BY <1>0, <1>1 DEF Start, Held, IsPermit
    <2> QED BY <1>1, <2>1, EndStep DEF Start
  <1>2. CASE Probe(h)
    <2>1. Held' \subseteq Held
      BY <1>0, <1>2, Files DEF Probe, Held, IsPermit, Rebase
    <2> QED BY <1>2, <2>1, EndStep DEF Probe
  <1>3. CASE Check(h)
    <2>1. Held' \subseteq Held
      BY <1>0, <1>3 DEF Check, Held, IsPermit
    <2> QED BY <1>3, <2>1, EndStep DEF Check
  <1>4. CASE Cleanup(h)
    <2>1. Held' \subseteq Held
      BY <1>0, <1>4 DEF Cleanup, Held, IsPermit, NoFile
    <2> QED BY <1>4, <2>1, EndStep DEF Cleanup
  <1>5. CASE Reevaluate(h)
    <2>1. Held' \subseteq Held
      BY <1>0, <1>5 DEF Reevaluate, Held, IsPermit
    <2> QED BY <1>5, <2>1, EndStep DEF Reevaluate
  <1>6. CASE Consume(h)
    <2> DEFINE a == [run |-> started, entry |-> Exception(seen[h])]
               pass == [hook |-> h, run |-> started, began |-> began[h], permit |-> seen[h], rest |-> rest[h]]
    <2>1. op[h] = "consume" /\ IsPermit(seen[h])
      BY <1>6 DEF Consume, TypeInv, TypeOK
    <2>2. Held' = {}
      BY <1>0, <1>6 DEF Consume, Held, OnlyHook, NoFile, IsPermit
    <2>3. Alive' = {} /\ Created' = Created
      BY <1>6, <2>2 DEF Consume, Alive, Created
    <2>4. a.entry \in Alive
      BY <1>0, <2>1 DEF Alive, Held
    <2>5. passed' = passed \cup {pass}
      BY <1>6 DEF Consume, LetThrough
    <2>6. OnPermit' = OnPermit \cup {pass}
      BY <2>1, <2>5 DEF OnPermit, IsPermit
    <2>7. Runs' = Runs \cup {a}
      <3>1. Runs' = {RunOf(b) : b \in OnPermit'}
        BY DEF Runs, RunOf, Exception
      <3>2. a = RunOf(pass)
        BY DEF RunOf
      <3> HIDE DEF a, pass
      <3> QED BY <2>6, <3>1, <3>2 DEF Runs
    <2>8. \A x \in Runs : x.run # a.run
      BY <1>0, <2>1 DEF Runs, RunOf, OnPermit, RunInv
    <2> HIDE DEF a
    <2>9. PICK x : x = a
      OBVIOUS
    <2>10. Ledger!Authorize(x)
      BY <2>3, <2>4, <2>7, <2>8, <2>9 DEF Ledger!Authorize, Created, Alive, Runs, RunOf, OnPermit, Exception
    <2> QED BY <2>7, <2>9, <2>10, GrantStep
  <1> QED BY <1>1, <1>2, <1>3, <1>4, <1>5, <1>6 DEF Hook

LEMMA LedgerStep ==
    ASSUME TypeInv, WindowInv, OnlyHook, RunInv, [Next]_vars PROVE [Ledger!Step]_(Ledger!ledger)
  <1>1. CASE UNCHANGED vars \/ Tick \/ Rebasing
    <2>1. Held' = Held /\ UNCHANGED <<issued, passed>>
      BY <1>1 DEF vars, Tick, Rebasing, line, Held, IsPermit
    <2> QED BY <2>1, EndStep
  <1>2. CASE IssueStart
    <2>1. Held' \subseteq Held
      BY <1>2, Files DEF IssueStart, line, Held, IsPermit
    <2> QED BY <1>2, <2>1, EndStep DEF IssueStart
  <1>3. CASE IssueWrite
    <2> DEFINE e == Exception(issuing)
    <2>1. issuing.id = Cardinality(issued) + 1 /\ Cardinality(issued) \in Nat
      BY <1>3, FS_CardinalityType DEF IssueWrite, TypeInv, CountInv
    <2>2. Created' = Created \cup {e}
      BY <1>3 DEF IssueWrite, Created, Exception
    <2>3. Held' \subseteq Held \cup {issuing}
      BY <1>3, Files DEF IssueWrite, Held, IsPermit
    <2>4. Alive' \subseteq Alive \cup {e}
      BY <2>3 DEF Alive, Exception
    <2>5. \A x \in Created : x.id # e.id
      BY <2>1 DEF Created, Exception, TypeInv, CountInv
    <2>6. Runs' = Runs
      BY <1>3 DEF IssueWrite, Runs, RunOf, OnPermit, IsPermit, Exception
    <2> HIDE DEF e
    <2>7. PICK x : x = e
      OBVIOUS
    <2>8. Ledger!Create(x)
      BY <2>2, <2>4, <2>5, <2>6, <2>7 DEF Ledger!Create, Created, Alive, Runs, RunOf, OnPermit, Exception
    <2> QED BY <2>2, <2>7, <2>8, GrantStep
  <1> QED BY <1>1, <1>2, <1>3, LedgerHook DEF Next

\* Hooks that do not overlap make the permit file, which no lock guards, keep
\* the same ledger as the locked allow-once stores: each permit written is a
\* fresh single-use exception, and once a line ran on it neither the file nor a
\* hook holds it again (set_permit, permit_seconds_remaining, consume_permit).
THEOREM PermitKeepsLedger == OnlyHook => (Spec => PermitLedger)
  <1> SUFFICES ASSUME OnlyHook PROVE Spec => PermitLedger
    OBVIOUS
  <1>1. Init => Ledger!Init
    <2> SUFFICES ASSUME Init PROVE Ledger!Init
      OBVIOUS
    <2>1. Held = {}
      BY Files DEF Init, Held
    <2> QED BY <2>1 DEF Init, Ledger!Init
  <1>2. Init => WindowInv /\ RunInv
    BY Files, NumbersAssumption DEF Init, WindowInv, OnlyInWindow, InFlight, RunInv
  <1>3. TypeInv /\ WindowInv /\ RunInv /\ [Next]_vars => (TypeInv /\ WindowInv /\ RunInv)'
    BY TypeStep, WindowStep, RunStep
  <1>4. TypeInv /\ WindowInv /\ RunInv /\ [Next]_vars => [Ledger!Step]_(Ledger!ledger)
    BY LedgerStep
  <1> QED BY <1>1, <1>2, <1>3, <1>4, InitType, PTL DEF Spec, PermitLedger, Ledger!Spec

--------------------------------------------------------------------------------
(* The three files side by side *)

\* The permit is that of its own specification throughout.
LEMMA PermitWithin == FilesSpec => Spec
  <1>1. FilesInit => Init
    BY DEF FilesInit, PermitIdle
  <1>2. [FilesNext]_allVars => [Next]_vars
    BY DEF FilesNext, allVars
  <1> QED BY <1>1, <1>2, PTL DEF FilesSpec, Spec

\* The settings and the list of entries in them, which others may hold still,
\* keep their invariants.
LEMMA SettingsWithin == FilesSpec => [](HealInv /\ EntriesInv)
  <1>1. FilesInit => HealInv
    BY HealInitInv DEF FilesInit, SettingsIdle
  <1>2. FilesInit => EntriesInv
    <2>1. EntriesIdle => EntriesInv
      BY DEF EntriesIdle, EntriesInv, OneHook, OthersKept, Written
    <2> QED BY <2>1, EntriesInvInit DEF FilesInit
  <1>3. HealInv /\ [FilesNext]_allVars => HealInv'
    <2>1. [FilesNext]_allVars => [HealNext]_healVars
      BY DEF FilesNext, allVars
    <2> QED BY <2>1, HealStepInv
  <1>4. EntriesInv /\ [FilesNext]_allVars => EntriesInv'
    <2>1. [FilesNext]_allVars => [EntriesNext]_entryVars
      BY DEF FilesNext, allVars
    <2> QED BY <2>1, EntriesInvStep
  <1> QED BY <1>1, <1>2, <1>3, <1>4, PTL DEF FilesSpec

\* With the permit, the settings and the list of entries in one behaviour, as a
\* run checks them, the types and every safety promise hold: those about repairs
\* where all healers take one lock, that of the ledger for one hook at a time.
THEOREM FilesCorrect ==
    FilesSpec => /\ [](/\ TypesOK /\ OnlyInWindow /\ PermitLasts /\ CrashSafe /\ OneHook /\ OthersKept
                      /\ OneDir => OneRepair /\ LostOnlyInWindow)
                 /\ OnlyHook => PermitLedger
  <1>1. FilesSpec => [](TypeOK /\ OnlyInWindow /\ PermitLasts)
    BY PermitWithin, TypeCorrect, WindowHolds, OnlyPermitLasts, PTL
  <1>2. HealInv => HealTypeOK /\ CrashSafe
    BY DEF HealInv, Temps, CrashSafe
  <1>3. HealInv => (OneDir => OneRepair /\ LostOnlyInWindow)
    BY DEF HealInv, Repairs, OneRepair, Ages, LostOnlyInWindow, Repairing
  <1>4. EntriesInv => OneHook /\ OthersKept
    BY DEF EntriesInv
  <1>5. FilesSpec => (OnlyHook => PermitLedger)
    BY PermitWithin, PermitKeepsLedger
  <1>6. TypesOK <=> TypeOK /\ HealTypeOK
    BY DEF TypesOK
  <1> QED BY <1>1, <1>2, <1>3, <1>4, <1>5, <1>6, SettingsWithin, PTL
================================================================================
