---------------------------- MODULE AllowOnceLedger ----------------------------
(***************************************************************************)
(* What the allow-once exceptions promise, without files, locks or         *)
(* processes: a ledger of grants.  A grant is created once, may authorize  *)
(* commands while it is live (a single-use one exactly one command), and   *)
(* ends for good: spent, expired, revoked, cleared or lost in a crash.     *)
(* An ended grant never becomes live again.                                *)
(***************************************************************************)

VARIABLES created,   \* grants ever written: records with fields id and single
          live,      \* the grants that can still authorize a command
          runs       \* authorized runs: records with fields run and entry

ledger == <<created, live, runs>>

Init == created = {} /\ live = {} /\ runs = {}

\* A user redeems a code: a fresh grant, unless the write that should hold it
\* is cut short, in which case it is born dead.
Create(e) ==
    /\ \A x \in created : x.id # e.id
    /\ created' = created \cup {e}
    /\ live' \subseteq live \cup {e}
    /\ runs' = runs

\* A hook lets one command run on a live grant; a single-use grant is spent.
\* Other grants may be found expired, and pruned, by the same operation.
Authorize(a) ==
    /\ a.entry \in live
    /\ \A x \in runs : x.run # a.run
    /\ runs' = runs \cup {a}
    /\ live' \subseteq live
    /\ a.entry.single => a.entry \notin live'
    /\ created' = created

\* Expiry, revocation, clearing, or loss.
End ==
    /\ live' \subseteq live
    /\ UNCHANGED <<created, runs>>

Step ==
    \/ End
    \/ \E e \in created' : Create(e)
    \/ \E a \in runs' : Authorize(a)

Spec == Init /\ [][Step]_ledger

-------------------------------------------------------------------------------
\* A single-use grant authorizes at most one run.
SingleUse ==
    \A a, b \in runs : a.entry.id = b.entry.id /\ a.entry.single => a = b

\* Why: a spent grant is off the ledger for good, and no other has its number.
LedgerInv ==
    /\ live \subseteq created
    /\ \A x, y \in created : x.id = y.id => x = y
    /\ \A a \in runs : a.entry \in created /\ (a.entry.single => a.entry \notin live)
    /\ SingleUse
================================================================================
