---------------------------- MODULE RebaseRecovery ----------------------------
(***************************************************************************)
(* The rebase-recovery window of one repository.                           *)
(*                                                                         *)
(* A hook whose line is denied by one of the recovery rules (git           *)
(* checkout --, git restore) lets it through while a rebase is in progress *)
(* or a permit is live, provided nothing else on the line stops it.  The   *)
(* permit is a file holding an expiry time: `dcg rebase-recover` writes    *)
(* it, hooks read it, delete it when they find it expired, and delete it   *)
(* when it let a line through.  No lock is taken: each file operation is a *)
(* step of its own.                                                        *)
(***************************************************************************)
EXTENDS Naturals, FiniteSets

CONSTANTS
    Hooks,      \* hook process slots
    TTL,        \* lifetime of a permit, in ticks
    MaxTime, MaxIssues, MaxRuns     \* bounds: clock, permits issued, hook runs

ASSUME NumbersAssumption ==
    TTL \in Nat \ {0} /\ MaxTime \in Nat /\ MaxIssues \in Nat /\ MaxRuns \in Nat

VARIABLES
    clock,
    rebasing,   \* .git/rebase-merge or .git/rebase-apply exists
    permit,     \* the permit file
    issuing,    \* what a `dcg rebase-recover` process is about to write
    op,         \* where each hook is
    rest,       \* what else on its line a rule applies to
    seen,       \* the signal it found
    began,      \* when it started
    issued,     \* history: permits written
    passed,     \* history: lines let through
    started     \* history: number of hook runs

vars == <<clock, rebasing, permit, issuing, op, rest, seen, began, issued, passed, started>>
line == <<rest, began>>
world == <<clock, rebasing, permit, issuing, issued>>

\* The file: missing, truncated and not yet written, or a permit.
NoFile == [id |-> 0, exp |-> 0]
Empty  == [id |-> 0, exp |-> 1]
File   == [id : Nat, exp : Nat]
IsPermit(f) == f.id > 0
Live(f) == IsPermit(f) /\ f.exp > clock
Rebase == NoFile      \* seen: the rebase itself

\* What stops the line once the recovery rules are granted: nothing, a rule
\* whose mode lets it run, a rule that asks for review, a rule that denies.
Rests == {"nothing", "warned", "asked", "denied"}

Init ==
    /\ clock = 0 /\ rebasing \in BOOLEAN /\ permit = NoFile /\ issuing = NoFile
    /\ op = [h \in Hooks |-> "idle"] /\ rest = [h \in Hooks |-> "nothing"]
    /\ seen = [h \in Hooks |-> NoFile] /\ began = [h \in Hooks |-> 0]
    /\ issued = {} /\ passed = {} /\ started = 0

Goto(h, l) == op' = [op EXCEPT ![h] = l]
Sees(h, s) == seen' = [seen EXCEPT ![h] = s]

--------------------------------------------------------------------------------
(* dcg rebase-recover: the expiry is computed, the file truncated, then written *)

IssueStart ==
    /\ issuing = NoFile /\ Cardinality(issued) < MaxIssues
    /\ issuing' = [id |-> Cardinality(issued) + 1, exp |-> clock + TTL]
    /\ permit' = Empty
    /\ UNCHANGED <<clock, rebasing, op, line, seen, issued, passed, started>>

\* If a hook deleted the file meanwhile, the bytes go to the unlinked inode.
IssueWrite ==
    /\ issuing # NoFile
    /\ permit' = IF permit = NoFile THEN NoFile ELSE issuing
    /\ issued' = issued \cup {issuing} /\ issuing' = NoFile
    /\ UNCHANGED <<clock, rebasing, op, line, seen, passed, started>>

--------------------------------------------------------------------------------
(* A hook whose line was denied by a recovery rule *)

Start(h) ==
    /\ op[h] = "idle" /\ started < MaxRuns
    /\ started' = started + 1
    /\ \E r \in Rests : rest' = [rest EXCEPT ![h] = r]
    /\ began' = [began EXCEPT ![h] = clock]
    /\ Goto(h, "probe")
    /\ UNCHANGED <<world, seen, passed>>

\* Mutant: a file that does not parse is taken for an expired permit.
ProbeMalformed(h) ==
    /\ op[h] = "probe"
    /\ IF rebasing THEN Sees(h, Rebase) /\ Goto(h, "reevaluate")
       ELSE Sees(h, permit) /\ Goto(h, IF permit # NoFile THEN "check" ELSE "idle")
    /\ UNCHANGED <<world, line, passed, started>>

\* A rebase first, then the permit file is read; one that does not parse is
\* left alone.
Probe(h) ==
    /\ op[h] = "probe"
    /\ IF rebasing THEN Sees(h, Rebase) /\ Goto(h, "reevaluate")
       ELSE Sees(h, permit) /\ Goto(h, IF IsPermit(permit) THEN "check" ELSE "idle")
    /\ UNCHANGED <<world, line, passed, started>>

\* Mutant: what was read is taken for live.
CheckNot(h) ==
    /\ op[h] = "check"
    /\ Goto(h, "reevaluate")
    /\ UNCHANGED <<world, line, seen, passed, started>>

\* Mutant: expired one tick early.
CheckEarly(h) ==
    /\ op[h] = "check"
    /\ Goto(h, IF seen[h].exp > clock + 1 THEN "reevaluate" ELSE "cleanup")
    /\ UNCHANGED <<world, line, seen, passed, started>>

Check(h) ==
    /\ op[h] = "check"
    /\ Goto(h, IF Live(seen[h]) THEN "reevaluate" ELSE "cleanup")
    /\ UNCHANGED <<world, line, seen, passed, started>>

\* The expired permit is deleted, by name, and the denial stands.
Cleanup(h) ==
    /\ op[h] = "cleanup"
    /\ permit' = NoFile /\ Goto(h, "idle")
    /\ UNCHANGED <<clock, rebasing, issuing, issued, line, seen, passed, started>>

LetThrough(h) ==
    passed' = passed \cup {[hook |-> h, run |-> started, began |-> began[h], permit |-> seen[h], rest |-> rest[h]]}

\* Mutant: a line that another rule warns about leaves the permit.
ReevaluateKeeping(h) ==
    /\ op[h] = "reevaluate"
    /\ \/ Goto(h, "idle") /\ UNCHANGED passed
       \/ /\ rest[h] \in {"nothing", "warned"}
          /\ IF IsPermit(seen[h]) /\ rest[h] = "nothing" THEN Goto(h, "consume") /\ UNCHANGED passed
             ELSE Goto(h, "idle") /\ LetThrough(h)
    /\ UNCHANGED <<world, line, seen, started>>

\* The rest of the line decides, unless the deadline passes first.
Reevaluate(h) ==
    /\ op[h] = "reevaluate"
    /\ \/ Goto(h, "idle") /\ UNCHANGED passed
       \/ /\ rest[h] \in {"nothing", "warned"}
          /\ IF IsPermit(seen[h]) THEN Goto(h, "consume") /\ UNCHANGED passed
             ELSE Goto(h, "idle") /\ LetThrough(h)
    /\ UNCHANGED <<world, line, seen, started>>

\* The file is deleted, whatever permit it holds by now, and the line let through.
Consume(h) ==
    /\ op[h] = "consume"
    /\ permit' = NoFile /\ LetThrough(h) /\ Goto(h, "idle")
    /\ UNCHANGED <<clock, rebasing, issuing, issued, line, seen, started>>

--------------------------------------------------------------------------------
Tick ==
    /\ clock < MaxTime /\ clock' = clock + 1
    /\ UNCHANGED <<rebasing, permit, issuing, op, line, seen, issued, passed, started>>
\* git starts or ends a rebase.
Rebasing ==
    /\ rebasing' = ~rebasing
    /\ UNCHANGED <<clock, permit, issuing, op, line, seen, issued, passed, started>>

Hook(h) == Start(h) \/ Probe(h) \/ Check(h) \/ Cleanup(h) \/ Reevaluate(h) \/ Consume(h)
Next == IssueStart \/ IssueWrite \/ Tick \/ Rebasing \/ \E h \in Hooks : Hook(h)
Spec == Init /\ [][Next]_vars

--------------------------------------------------------------------------------
(* Properties *)

TypeOK ==
    /\ clock \in 0..MaxTime /\ rebasing \in BOOLEAN /\ {permit, issuing} \subseteq File
    /\ op \in [Hooks -> {"idle", "probe", "check", "cleanup", "reevaluate", "consume"}]
    /\ rest \in [Hooks -> Rests] /\ seen \in [Hooks -> File]
    /\ began \in [Hooks -> 0..MaxTime]
    /\ \A h \in Hooks : op[h] \in {"check", "cleanup", "consume"} => IsPermit(seen[h])
    /\ issued \subseteq File
    /\ passed \subseteq [hook : Hooks, run : 1..MaxRuns, began : 0..MaxTime, permit : File, rest : Rests]
    /\ started \in 0..MaxRuns

\* "The permit is single-use (consumed on first successful allow)"
\* (rebase_recovery.rs:37): it lets one line through, a line another rule
\* warns about included.
SingleShot ==
    \A a, b \in passed : IsPermit(a.permit) /\ a.permit = b.permit => a = b

\* "Outside of both signals, the block path is unchanged"
\* (rebase_recovery.rs:39): a permit that had expired when the hook started
\* lets nothing through, and no signal unlocks another rule on the line.
OnlyInWindow ==
    \A a \in passed :
        /\ IsPermit(a.permit) => a.permit \in issued /\ a.began < a.permit.exp
        /\ a.rest \in {"nothing", "warned"}

\* "For the next 120 seconds (or until the next matching operation is allowed
\* through - whichever comes first)" (rebase_recovery.rs:29-30): the only permit
\* issued is there until it expires or lets a line through; lines that stay
\* denied and hooks of an ongoing rebase cost nothing.
PermitLasts ==
    \A p \in issued :
        Cardinality(issued) = 1 /\ issuing = NoFile /\ Live(p) =>
            permit = p \/ \E a \in passed : a.permit = p

\* A permit is a single-use exception of the ledger that the allow-once stores
\* promise (AllowOnceLedger): written once, live while the file or a hook that
\* may still run on it holds it, and gone for good with the line it let through.
Exception(p) == [id |-> p.id, single |-> TRUE]
Held ==
    {p \in {permit} : IsPermit(p)}
    \cup {seen[h] : h \in {g \in Hooks : op[g] \in {"check", "reevaluate", "consume"} /\ IsPermit(seen[g])}}
Ledger == INSTANCE AllowOnceLedger WITH
    created <- {Exception(p) : p \in issued},
    live    <- {Exception(p) : p \in Held},
    runs    <- {[run |-> a.run, entry |-> Exception(a.permit)] : a \in {b \in passed : IsPermit(b.permit)}}
PermitLedger == Ledger!Spec
================================================================================
