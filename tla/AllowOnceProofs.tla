--------------------------- MODULE AllowOnceProofs ---------------------------
(***************************************************************************)
(* Theorems about AllowOnce, for any number of hooks, CLI processes,       *)
(* targets and codes and any bounds: the types and what a lock protects,   *)
(* the refinement of the ledger, what the stores keep and lose, redeems    *)
(* one after another, and that nobody waits for a process that waits.      *)
(***************************************************************************)
EXTENDS AllowOnce, FiniteSetTheorems, WellFoundedInduction, TLAPS

LEMMA NoValues == NoSel \in Sel /\ NoAsk \in Ask /\ NoHash.target \in Targets
BY InputsAssumption DEF NoSel, NoAsk, NoHash, Sel, Ask, Hash, Time

\* A process that goes on keeps every local variable in its type.
LEMMA GotoType ==
    ASSUME TypeOK, NEW p \in Procs, NEW n, Goto(p, n),
           p \in Hooks => n \in HookOps, p \in Clis => n \in CliOps
    PROVE  /\ op' \in [Procs -> HookOps \cup CliOps]
           /\ \A h \in Hooks : op'[h] \in HookOps
           /\ \A c \in Clis : op'[c] \in CliOps
           /\ now' \in [Procs -> Time]
           /\ tgt' \in [Hooks -> Targets] /\ cfg' \in [Hooks -> BOOLEAN]
           /\ issue' \in [Hooks -> SUBSET PendRec]
           /\ sel' \in [Clis -> Sel] /\ ask' \in [Clis -> Ask]
<1>1. /\ op' \in [Procs -> HookOps \cup CliOps]
      /\ \A h \in Hooks : op'[h] \in HookOps
      /\ \A c \in Clis : op'[c] \in CliOps
  BY DEF TypeOK, Goto, Procs
<1>2. CASE n # "idle"
  BY <1>1, <1>2 DEF TypeOK, Goto, local
<1>3. CASE n = "idle" /\ p \in Hooks
  <2>1. /\ now' = [now EXCEPT ![p] = 0]
        /\ tgt' = [tgt EXCEPT ![p] = NoHash.target]
        /\ cfg' = [cfg EXCEPT ![p] = FALSE] /\ issue' = [issue EXCEPT ![p] = {}]
        /\ sel' = sel /\ ask' = ask
    BY <1>3 DEF Goto
  <2>2. tgt' \in [Hooks -> Targets]
    BY <2>1, NoValues DEF TypeOK
  <2>3. cfg' \in [Hooks -> BOOLEAN] /\ issue' \in [Hooks -> SUBSET PendRec]
    BY <2>1 DEF TypeOK
  <2>4. now' \in [Procs -> Time]
    BY <2>1 DEF TypeOK, Time
  <2>5. QED BY <1>1, <2>1, <2>2, <2>3, <2>4 DEF TypeOK
<1>4. CASE n = "idle" /\ p \notin Hooks
  <2>1. p \in Clis
    BY <1>4 DEF Procs
  <2>2. /\ now' = [now EXCEPT ![p] = 0]
        /\ sel' = [sel EXCEPT ![p] = NoSel] /\ ask' = [ask EXCEPT ![p] = NoAsk]
        /\ tgt' = tgt /\ cfg' = cfg /\ issue' = issue
    BY <1>4 DEF Goto
  <2>3. sel' \in [Clis -> Sel] /\ ask' \in [Clis -> Ask]
    BY <2>1, <2>2, NoValues DEF TypeOK
  <2>4. QED BY <1>1, <2>2, <2>3 DEF TypeOK, Time
<1>5. QED BY <1>2, <1>3, <1>4

LEMMA UnlockType ==
    ASSUME TypeOK, NEW p \in Procs, Unlock(p)
    PROVE  /\ lock' \in [{"P", "G"} -> Procs \cup {None}]
           /\ view' \in [Procs -> SUBSET (PendRec \cup Grant)]
BY DEF TypeOK, Unlock, StoreOf

-------------------------------------------------------------------------------
(* What the operators on records return                                    *)

LEMMA ViewType ==
    ASSUME TypeOK, NEW p \in Procs
    PROVE  \A x \in view[p] : x \in PendRec \cup Grant
BY DEF TypeOK

\* A holder's loaded records are still the active ones of the store: nobody
\* else writes while the lock is held.  The strengthening every theorem needs.
ViewInv ==
    /\ \A p \in Procs : lock["P"] = p => op[p] \in PendOps /\ view[p] = ActivePend(now[p])
    /\ \A p \in Procs : lock["G"] = p => op[p] \in GrantOps /\ view[p] = ActiveGrants(now[p])

LEMMA AppendedBound ==
    ASSUME NEW S, NEW r, NEW tail \in {"ok", "cut", "bare"}
    PROVE  Appended(S, tail, r) \subseteq S \cup {r}
BY DEF Appended

LEMMA NewRecordType ==
    ASSUME TypeOK, NEW h \in Hooks
    PROVE  NewRecord(h) \in PendRec
BY DEF TypeOK, NewRecord, PendRec, Hash, Time, Procs

LEMMA NewGrantType ==
    ASSUME TypeOK, NEW c \in Clis
    PROVE  NewGrant(c) \in Grant
BY DEF TypeOK, NewGrant, Grant, Sel, Ask, Procs, Time

\* Maintenance keeps records of the file.
LEMMA BaseBound ==
    ASSUME TypeOK, ViewInv, NEW h \in Hooks, lock["P"] = h, NEW budget \in BOOLEAN
    PROVE  /\ Base(h, budget).recs \subseteq pend
           /\ Base(h, budget).tail \in {"ok", "cut", "bare"}
           /\ Base(h, budget).bulk \in Nat
<1>1. view[h] \subseteq pend
  BY DEF ViewInv, ActivePend, Procs
<1>2. Kept(h, budget) \subseteq pend
  BY <1>1 DEF Kept, NewestHalf
<1>3. QED BY <1>2 DEF Base, TypeOK

-------------------------------------------------------------------------------
(* Who may disturb what a holder has loaded                                *)

\* What a step of p leaves to the other processes.
OthersKeep(p) ==
    /\ \A q \in Procs \ {p} : op'[q] = op[q] /\ now'[q] = now[q] /\ view'[q] = view[q]

LEMMA GotoKeeps ==
    ASSUME TypeOK, NEW p \in Procs, NEW n, Goto(p, n), \/ Unlock(p) \/ view' = view
    PROVE  OthersKeep(p)
BY DEF TypeOK, Goto, OthersKeep, Unlock, local

\* The operation of a lock holder ends.
LEMMA UnlockView ==
    ASSUME TypeOK, ViewInv, NEW p \in Procs, op[p] \in PendOps \cup GrantOps,
           lock[StoreOf(op[p])] = p, Unlock(p), OthersKeep(p),
           StoreOf(op[p]) = "P" => grants' = grants,
           StoreOf(op[p]) = "G" => pend' = pend
    PROVE  ViewInv'
<1> USE SlotsAssumption
<1>1. p # None
  BY DEF Procs
<1>2. CASE op[p] \in PendOps
  <2>1. lock' = [lock EXCEPT !["P"] = None] /\ grants' = grants /\ lock["P"] = p
    BY <1>2 DEF Unlock, StoreOf
  <2>2. lock["G"] # p /\ lock'["P"] = None /\ lock'["G"] = lock["G"]
    BY <1>2, <2>1 DEF ViewInv, PendOps, GrantOps, TypeOK
  <2>3. QED BY <2>1, <2>2, None \notin Procs DEF ViewInv, OthersKeep, ActiveGrants, GrantExpired, Procs
<1>3. CASE op[p] \notin PendOps
  <2>1. lock' = [lock EXCEPT !["G"] = None] /\ pend' = pend /\ lock["G"] = p
    BY <1>3 DEF Unlock, StoreOf
  <2>2. lock["P"] # p /\ lock'["G"] = None /\ lock'["P"] = lock["P"]
    BY <1>3, <2>1 DEF ViewInv, TypeOK
  <2>3. QED BY <2>1, <2>2, None \notin Procs DEF ViewInv, OthersKeep, ActivePend, PendExpired, Procs
<1>4. QED BY <1>2, <1>3

\* A process that holds no lock takes a step outside the stores.
LEMMA OutsideView ==
    ASSUME TypeOK, ViewInv, NEW p \in Procs, lock["P"] # p, lock["G"] # p,
           UNCHANGED <<lock, pend, grants>>, OthersKeep(p)
    PROVE  ViewInv'
BY DEF ViewInv, OthersKeep, ActivePend, ActiveGrants, PendExpired, GrantExpired

-------------------------------------------------------------------------------
(* Steps of a hook keep the types and the loaded views                     *)

LEMMA StartStep ==
    ASSUME TypeOK, ViewInv, NEW h \in Hooks, HookStart(h)
    PROVE  TypeOK' /\ ViewInv'
<1>1. TypeOK'
  <2>1. PICK t \in Targets, b \in BOOLEAN :
          tgt' = [tgt EXCEPT ![h] = t] /\ cfg' = [cfg EXCEPT ![h] = b]
    BY DEF HookStart
  <2>2. /\ tgt' \in [Hooks -> Targets] /\ cfg' \in [Hooks -> BOOLEAN]
        /\ now' \in [Procs -> Time]
    BY <2>1 DEF TypeOK, HookStart
  <2>3. /\ op' \in [Procs -> HookOps \cup CliOps]
        /\ \A g \in Hooks : op'[g] \in HookOps
        /\ \A c \in Clis : op'[c] \in CliOps
    BY SlotsAssumption DEF TypeOK, HookStart, HookOps, Procs
  <2>4. QED BY <2>2, <2>3 DEF TypeOK, HookStart, files, hist
<1>2. h \in Procs /\ OthersKeep(h) /\ lock["P"] # h /\ lock["G"] # h
  BY DEF TypeOK, ViewInv, HookStart, OthersKeep, Procs, PendOps, GrantOps
<1>3. UNCHANGED <<lock, pend, grants>>
  BY DEF HookStart, files
<1>4. QED BY <1>1, <1>2, <1>3, OutsideView

LEMMA AcquireStep ==
    ASSUME TypeOK, ViewInv, NEW p \in Procs, Acquire(p)
    PROVE  TypeOK' /\ ViewInv'
<1> DEFINE s == StoreOf(op[p])
           t == IF op[p] = "record" THEN clock ELSE now[p]
<1>1. /\ lock[s] = None /\ lock' = [lock EXCEPT ![s] = p]
      /\ view' = [view EXCEPT ![p] = IF s = "P" THEN ActivePend(t) ELSE ActiveGrants(t)]
      /\ now' = [now EXCEPT ![p] = t]
      /\ UNCHANGED <<clock, files, op, tgt, cfg, issue, sel, ask, count, hist>>
  BY DEF Acquire
<1>2. t \in Time /\ s \in {"P", "G"}
  BY DEF TypeOK, StoreOf
<1>3. ActivePend(t) \subseteq PendRec /\ ActiveGrants(t) \subseteq Grant
  BY DEF ActivePend, ActiveGrants, TypeOK
<1> HIDE DEF s, t
<1>4. view' \in [Procs -> SUBSET (PendRec \cup Grant)] /\ now' \in [Procs -> Time]
      /\ lock' \in [{"P", "G"} -> Procs \cup {None}]
  BY <1>1, <1>2, <1>3 DEF TypeOK
<1>5. TypeOK'
  BY <1>1, <1>4 DEF TypeOK, files, count, hist
<1>6. op[p] \in PendOps \cup GrantOps /\ p # None /\ op' = op /\ pend' = pend /\ grants' = grants
  BY <1>1, SlotsAssumption DEF Acquire, files, Procs
<1>7. lock["P"] # p /\ lock["G"] # p
  <2>1. CASE s = "P"
    BY <2>1, <1>1, <1>6 DEF s, StoreOf, ViewInv, PendOps, GrantOps
  <2>2. CASE s = "G"
    BY <2>2, <1>1, <1>6 DEF s, StoreOf, ViewInv, PendOps, GrantOps
  <2>3. QED BY <2>1, <2>2, <1>2
<1>8. /\ \A q \in Procs \ {p} : view'[q] = view[q] /\ now'[q] = now[q]
      /\ view'[p] = (IF s = "P" THEN ActivePend(t) ELSE ActiveGrants(t)) /\ now'[p] = t
  BY <1>1 DEF TypeOK
<1>9. CASE s = "P"
  <2>1. lock'["P"] = p /\ lock'["G"] = lock["G"] /\ op[p] \in PendOps
    BY <1>1, <1>9 DEF TypeOK, s, StoreOf
  <2>2. \A q \in Procs \ {p} : lock'["P"] # q
    BY <2>1
  <2>3. QED BY <1>5, <1>6, <1>7, <1>8, <1>9, <2>1, <2>2
         DEF ViewInv, ActivePend, ActiveGrants, PendExpired, GrantExpired
<1>10. CASE s = "G"
  <2>1. lock'["G"] = p /\ lock'["P"] = lock["P"] /\ op[p] \in GrantOps
    BY <1>1, <1>6, <1>10 DEF TypeOK, s, StoreOf
  <2>2. \A q \in Procs \ {p} : lock'["G"] # q
    BY <2>1
  <2>3. QED BY <1>5, <1>6, <1>7, <1>8, <1>10, <2>1, <2>2
         DEF ViewInv, ActivePend, ActiveGrants, PendExpired, GrantExpired
<1>11. QED BY <1>5, <1>2, <1>9, <1>10

\* The part of the types that Release leaves to the operation.
DataType ==
    /\ clock \in Time
    /\ pend \in SUBSET PendRec /\ archive \in SUBSET PendRec /\ grants \in SUBSET Grant
    /\ tailP \in {"ok", "cut", "bare"} /\ tailG \in {"ok", "cut", "bare"} /\ junk \in Nat
    /\ hookRuns \in Nat /\ cliRuns \in Nat /\ crashes \in Nat /\ nextId \in Nat
    /\ recorded \in SUBSET PendRec /\ created \in SUBSET Grant
    /\ approvals \in SUBSET Approval
    /\ shown \in SUBSET PendRec /\ retired \in SUBSET Nat

\* Process p is the holder of the lock its operation needs.
Holds(p) == op[p] \in PendOps \cup GrantOps /\ lock[StoreOf(op[p])] = p

LEMMA ReleaseStep ==
    ASSUME TypeOK, ViewInv, NEW p \in Procs, NEW n, Holds(p), Release(p, n),
           p \in Hooks => n \in HookOps, p \in Clis => n \in CliOps,
           StoreOf(op[p]) = "P" => grants' = grants,
           StoreOf(op[p]) = "G" => pend' = pend,
           DataType'
    PROVE  TypeOK' /\ ViewInv'
<1>1. Goto(p, n) /\ Unlock(p)
  BY DEF Release
<1>2. OthersKeep(p)
  BY <1>1, GotoKeeps
<1>3. ViewInv'
  BY <1>1, <1>2, UnlockView DEF Holds
<1>4. /\ op' \in [Procs -> HookOps \cup CliOps]
      /\ \A h \in Hooks : op'[h] \in HookOps
      /\ \A c \in Clis : op'[c] \in CliOps
      /\ now' \in [Procs -> Time]
      /\ tgt' \in [Hooks -> Targets] /\ cfg' \in [Hooks -> BOOLEAN]
      /\ issue' \in [Hooks -> SUBSET PendRec]
      /\ sel' \in [Clis -> Sel] /\ ask' \in [Clis -> Ask]
  BY <1>1, GotoType
<1>5. /\ lock' \in [{"P", "G"} -> Procs \cup {None}]
      /\ view' \in [Procs -> SUBSET (PendRec \cup Grant)]
  BY <1>1, UnlockType
<1>6. TypeOK'
  BY <1>4, <1>5 DEF TypeOK, DataType
<1>7. QED BY <1>3, <1>6

\* A process that holds no lock goes on without touching a store.
LEMMA GotoStep ==
    ASSUME TypeOK, ViewInv, NEW p \in Procs, NEW n, Goto(p, n),
           p \in Hooks => n \in HookOps, p \in Clis => n \in CliOps,
           lock["P"] # p, lock["G"] # p, UNCHANGED <<lock, pend, grants, view>>,
           DataType'
    PROVE  TypeOK' /\ ViewInv'
<1>1. ViewInv'
  BY GotoKeeps, OutsideView
<1>2. /\ op' \in [Procs -> HookOps \cup CliOps]
      /\ \A h \in Hooks : op'[h] \in HookOps
      /\ \A c \in Clis : op'[c] \in CliOps
      /\ now' \in [Procs -> Time]
      /\ tgt' \in [Hooks -> Targets] /\ cfg' \in [Hooks -> BOOLEAN]
      /\ issue' \in [Hooks -> SUBSET PendRec]
      /\ sel' \in [Clis -> Sel] /\ ask' \in [Clis -> Ask]
  BY GotoType
<1>3. TypeOK'
  BY <1>2 DEF TypeOK, DataType
<1>4. QED BY <1>1, <1>3

\* What a holder loaded is in its store.
LEMMA LoadedView ==
    ASSUME TypeOK, ViewInv, NEW p \in Procs
    PROVE  /\ lock["P"] = p => view[p] \subseteq pend
           /\ lock["G"] = p => view[p] \subseteq grants
BY DEF ViewInv, ActivePend, ActiveGrants

LEMMA MatchStep ==
    ASSUME TypeOK, ViewInv, NEW h \in Hooks, Match(h)
    PROVE  TypeOK' /\ ViewInv'
<1>1. h \in Procs /\ Holds(h) /\ StoreOf(op[h]) = "G"
  BY DEF Match, Holds, StoreOf, PendOps, GrantOps, Procs
<1>2. view[h] \subseteq grants /\ grants \subseteq Grant
  BY <1>1, LoadedView DEF Match, TypeOK
<1>3. grants' \subseteq grants /\ tailG' \in {"ok", "cut", "bare"}
  BY <1>2 DEF Match, RewriteGrants, TypeOK
<1>4. approvals' \subseteq Approval /\ nextId' \in Nat
  <2>1. Granted(h) \subseteq Grant
    BY <1>2 DEF Granted, Found, Oldest
  <2>2. \A e \in Grant : [run |-> nextId, entry |-> e, target |-> tgt[h],
                         cfg |-> cfg[h], now |-> now[h]] \in Approval
    BY <1>1 DEF TypeOK, Approval
  <2>3. QED BY <2>1, <2>2 DEF Match, TypeOK
<1>5. DataType'
  BY <1>2, <1>3, <1>4 DEF Match, DataType, TypeOK
<1>6. pend' = pend /\ h \notin Clis
  BY SlotsAssumption DEF Match
<1>7. Release(h, "idle") \/ Release(h, "record")
  BY DEF Match
<1>8. QED BY <1>1, <1>5, <1>6, <1>7, ReleaseStep DEF HookOps

LEMMA SkipStep ==
    ASSUME TypeOK, ViewInv, NEW h \in Hooks, SkipRecord(h)
    PROVE  TypeOK' /\ ViewInv'
<1>1. h \in Procs /\ h \notin Clis
  BY SlotsAssumption DEF Procs
<1>2. lock["P"] # h /\ lock["G"] # h /\ UNCHANGED <<lock, pend, grants, view>>
  BY <1>1 DEF SkipRecord, ViewInv, GrantOps, files
<1>3. DataType'
  BY DEF SkipRecord, DataType, TypeOK, files, count, hist
<1>4. QED BY <1>1, <1>2, <1>3, GotoStep DEF SkipRecord, HookOps

LEMMA PublishStep ==
    ASSUME TypeOK, ViewInv, NEW h \in Hooks, Publish(h)
    PROVE  TypeOK' /\ ViewInv'
<1>1. h \in Procs /\ h \notin Clis
  BY SlotsAssumption DEF Procs
<1>2. lock["P"] # h /\ lock["G"] # h /\ UNCHANGED <<lock, pend, grants, view>>
  BY <1>1 DEF Publish, ViewInv, GrantOps, PendOps, files
<1>3. DataType'
  BY DEF Publish, DataType, TypeOK, files, count
<1>4. QED BY <1>1, <1>2, <1>3, GotoStep DEF Publish, HookOps

LEMMA RecordStep ==
    ASSUME TypeOK, ViewInv, NEW h \in Hooks, Record(h)
    PROVE  TypeOK' /\ ViewInv'
<1>1. h \in Procs /\ Holds(h) /\ StoreOf(op[h]) = "P" /\ lock["P"] = h
  BY DEF Record, Holds, StoreOf, PendOps, Procs
<1>2. view[h] \subseteq pend /\ pend \subseteq PendRec
  BY <1>1, LoadedView DEF TypeOK
<1>3. NewRecord(h) \in PendRec
  BY NewRecordType
<1>4. PICK budget \in BOOLEAN :
         LET base == Base(h, budget)
         IN  /\ archive' = archive \cup Rotated(h, base.recs)
             /\ \/ /\ Refused(base)
                   /\ pend' = base.recs /\ tailP' = base.tail /\ junk' = base.bulk
                   /\ UNCHANGED <<issue, nextId, recorded>>
                \/ /\ ~Refused(base)
                   /\ pend' = Appended(base.recs, base.tail, NewRecord(h))
                   /\ tailP' = "ok" /\ junk' = base.bulk + Wasted(base.tail)
                   /\ issue' = [issue EXCEPT ![h] = {NewRecord(h)}]
                   /\ recorded' = recorded \cup {NewRecord(h)}
                   /\ nextId' = nextId + 1
  BY DEF Record
<1> DEFINE base == Base(h, budget)
<1>5. base.recs \subseteq pend /\ base.tail \in {"ok", "cut", "bare"} /\ base.bulk \in Nat
  BY <1>1, BaseBound
<1>6. archive' \subseteq PendRec
  BY <1>2, <1>4 DEF Rotated, TypeOK
<1>7. Wasted(base.tail) \in Nat
  BY <1>5 DEF Wasted
<1>8. Appended(base.recs, base.tail, NewRecord(h)) \subseteq base.recs \cup {NewRecord(h)}
  BY <1>5, AppendedBound
<1> HIDE DEF base
<1>9. /\ pend' \subseteq PendRec /\ tailP' \in {"ok", "cut", "bare"} /\ junk' \in Nat
      /\ issue' \in [Hooks -> SUBSET PendRec] /\ nextId' \in Nat
      /\ recorded' \subseteq PendRec
  BY <1>2, <1>3, <1>4, <1>5, <1>7, <1>8 DEF base, TypeOK
<1>10. DataType'
  BY <1>6, <1>9 DEF Record, DataType, TypeOK
<1>11. op' = [op EXCEPT ![h] = "publish"] /\ Unlock(h) /\ grants' = grants
       /\ UNCHANGED <<now, tgt, cfg, sel, ask>>
  BY DEF Record
<1>12. OthersKeep(h)
  BY <1>1, <1>11 DEF OthersKeep, Unlock, TypeOK
<1>13. ViewInv'
  BY <1>1, <1>11, <1>12, UnlockView DEF Holds
<1>14. /\ op' \in [Procs -> HookOps \cup CliOps]
       /\ \A g \in Hooks : op'[g] \in HookOps
       /\ \A c \in Clis : op'[c] \in CliOps
  BY <1>1, <1>11, SlotsAssumption DEF TypeOK, HookOps, Procs
<1>15. /\ lock' \in [{"P", "G"} -> Procs \cup {None}]
       /\ view' \in [Procs -> SUBSET (PendRec \cup Grant)]
  BY <1>1, <1>11, UnlockType
<1>16. TypeOK'
  BY <1>9, <1>10, <1>11, <1>14, <1>15 DEF TypeOK, DataType
<1>17. QED BY <1>13, <1>16

-------------------------------------------------------------------------------
(* Steps of a CLI process keep the types and the loaded views              *)

LEMMA CliStartStep ==
    ASSUME TypeOK, ViewInv, NEW c \in Clis, NEW n \in CliOps, CliStart(c, n),
           ask' \in [Clis -> Ask]
    PROVE  TypeOK' /\ ViewInv'
<1>1. c \in Procs /\ c \notin Hooks
  BY SlotsAssumption DEF Procs
<1>2. OthersKeep(c) /\ lock["P"] # c /\ lock["G"] # c /\ UNCHANGED <<lock, pend, grants>>
  BY <1>1 DEF TypeOK, ViewInv, CliStart, OthersKeep, PendOps, GrantOps, files
<1>3. /\ op' \in [Procs -> HookOps \cup CliOps]
      /\ \A g \in Hooks : op'[g] \in HookOps
      /\ \A d \in Clis : op'[d] \in CliOps
      /\ now' \in [Procs -> Time]
  BY <1>1, SlotsAssumption DEF TypeOK, CliStart, Procs
<1>4. TypeOK'
  BY <1>3 DEF TypeOK, CliStart, files, hist
<1>5. QED BY <1>1, <1>2, <1>4, OutsideView

LEMMA DeclineStep ==
    ASSUME TypeOK, ViewInv, NEW c \in Clis, Decline(c)
    PROVE  TypeOK' /\ ViewInv'
<1>1. c \in Procs /\ c \notin Hooks
  BY SlotsAssumption DEF Procs
<1>2. lock["P"] # c /\ lock["G"] # c /\ UNCHANGED <<lock, pend, grants, view>>
  BY <1>1 DEF Decline, ViewInv, GrantOps, PendOps, StoreOf, files
<1>3. DataType'
  BY DEF Decline, DataType, TypeOK, files, count, hist
<1>4. QED BY <1>1, <1>2, <1>3, GotoStep DEF Decline, CliOps

LEMMA LookupStep ==
    ASSUME TypeOK, ViewInv, NEW c \in Clis, Lookup(c)
    PROVE  TypeOK' /\ ViewInv'
<1>1. c \in Procs /\ c \notin Hooks /\ Holds(c) /\ StoreOf(op[c]) = "P" /\ grants' = grants
  BY SlotsAssumption DEF Lookup, Holds, StoreOf, PendOps, Procs
<1>2. view[c] \subseteq pend /\ pend \subseteq PendRec
  BY <1>1, LoadedView DEF TypeOK, Lookup
<1>3. DataType'
  BY <1>2 DEF Lookup, RewritePend, DataType, TypeOK, count, hist
<1>4. CASE Goto(c, "idle")
  BY <1>1, <1>3, <1>4, ReleaseStep DEF Lookup, Release, CliOps
<1>5. CASE ~Goto(c, "idle")
  <2> DEFINE found == {r \in view[c] : CodeOf(r.hash) = ask[c].code}
             choice == IF \A r, q \in found : r.hash = q.hash THEN Oldest(found) ELSE found
  <2>1. PICK r \in choice :
           /\ sel' = [sel EXCEPT ![c] = [hash |-> r.hash, cfg |-> r.cfg]]
           /\ op' = [op EXCEPT ![c] = "add"]
           /\ UNCHANGED <<now, tgt, cfg, issue, ask>>
    BY <1>5 DEF Lookup
  <2>2. choice \subseteq view[c]
    BY DEF Oldest
  <2> HIDE DEF choice
  <2>3. r \in PendRec
    BY <1>2, <2>1, <2>2
  <2>4. sel' \in [Clis -> Sel]
    BY <2>1, <2>3 DEF TypeOK, Sel, PendRec
  <2>5. /\ op' \in [Procs -> HookOps \cup CliOps]
        /\ \A g \in Hooks : op'[g] \in HookOps
        /\ \A d \in Clis : op'[d] \in CliOps
    BY <1>1, <2>1, SlotsAssumption DEF TypeOK, CliOps, Procs
  <2>6. /\ lock' \in [{"P", "G"} -> Procs \cup {None}]
        /\ view' \in [Procs -> SUBSET (PendRec \cup Grant)]
    BY <1>1, UnlockType DEF Lookup
  <2>7. TypeOK'
    BY <1>3, <2>1, <2>4, <2>5, <2>6 DEF TypeOK, DataType
  <2>8. Unlock(c) /\ OthersKeep(c)
    BY <1>1, <2>1 DEF OthersKeep, Lookup, Unlock, TypeOK
  <2>9. ViewInv'
    BY <1>1, <2>8, UnlockView DEF Holds
  <2>10. QED BY <2>7, <2>9
<1>6. QED BY <1>4, <1>5

LEMMA AddStep ==
    ASSUME TypeOK, ViewInv, NEW c \in Clis, Add(c)
    PROVE  TypeOK' /\ ViewInv'
<1>1. c \in Procs /\ c \notin Hooks /\ Holds(c) /\ StoreOf(op[c]) = "G" /\ pend' = pend
  BY SlotsAssumption DEF Add, Holds, StoreOf, PendOps, GrantOps, Procs
<1>2. view[c] \subseteq grants /\ grants \subseteq Grant /\ NewGrant(c) \in Grant
  BY <1>1, LoadedView, NewGrantType DEF TypeOK, Add
<1>3. grants' \subseteq view[c] \cup {NewGrant(c)}
  BY AppendedBound DEF Add, TypeOK
<1>4. DataType'
  BY <1>2, <1>3 DEF Add, DataType, TypeOK
<1>5. QED BY <1>1, <1>4, ReleaseStep DEF Add, CliOps

LEMMA DropStep ==
    ASSUME TypeOK, ViewInv, NEW c \in Clis, Drop(c)
    PROVE  TypeOK' /\ ViewInv'
<1>1. c \in Procs /\ c \notin Hooks /\ Holds(c) /\ StoreOf(op[c]) = "P" /\ grants' = grants
  BY SlotsAssumption DEF Drop, Holds, StoreOf, PendOps, Procs
<1>2. view[c] \subseteq pend /\ pend \subseteq PendRec
  BY <1>1, LoadedView DEF TypeOK, Drop
<1>3. retired' \subseteq Nat
  <2>1. \A r \in Removed(c) : r.id \in Nat
    BY <1>2 DEF Removed, PendRec
  <2>2. QED BY <2>1 DEF Drop, TypeOK
<1>4. DataType'
  BY <1>2, <1>3 DEF Drop, RewritePend, DataType, TypeOK, count
<1>5. QED BY <1>1, <1>4, ReleaseStep DEF Drop, CliOps

LEMMA SeePStep ==
    ASSUME TypeOK, ViewInv, NEW c \in Clis, SeeP(c)
    PROVE  TypeOK' /\ ViewInv'
<1>1. c \in Procs /\ c \notin Hooks
  BY SlotsAssumption DEF Procs
<1>2. OthersKeep(c) /\ lock["P"] # c /\ lock["G"] # c /\ UNCHANGED <<lock, pend, grants>>
  BY <1>1 DEF SeeP, ViewInv, OthersKeep, GrantOps, PendOps, TypeOK, files, local
<1>3. /\ op' \in [Procs -> HookOps \cup CliOps]
      /\ \A g \in Hooks : op'[g] \in HookOps
      /\ \A d \in Clis : op'[d] \in CliOps
  BY <1>1, SlotsAssumption DEF SeeP, TypeOK, CliOps, Procs
<1>4. ActivePend(now[c]) \subseteq PendRec
  BY DEF ActivePend, TypeOK
<1>5. view' \in [Procs -> SUBSET (PendRec \cup Grant)]
  BY <1>1, <1>4 DEF SeeP, TypeOK
<1>6. TypeOK'
  BY <1>3, <1>5 DEF SeeP, TypeOK, files, local, count, hist
<1>7. QED BY <1>1, <1>2, <1>6, OutsideView

LEMMA SeeGStep ==
    ASSUME TypeOK, ViewInv, NEW c \in Clis, SeeG(c)
    PROVE  TypeOK' /\ ViewInv'
<1>1. c \in Procs /\ c \notin Hooks
  BY SlotsAssumption DEF Procs
<1>2. lock["P"] # c /\ lock["G"] # c /\ UNCHANGED <<lock, pend, grants>>
  BY <1>1 DEF SeeG, ViewInv, GrantOps, PendOps, files
<1>3. view' = [view EXCEPT ![c] = {}] /\ view' \in [Procs -> SUBSET (PendRec \cup Grant)]
  BY <1>1 DEF SeeG, TypeOK
<1>4. /\ op' \in [Procs -> HookOps \cup CliOps]
      /\ \A g \in Hooks : op'[g] \in HookOps
      /\ \A d \in Clis : op'[d] \in CliOps
      /\ now' \in [Procs -> Time]
      /\ tgt' \in [Hooks -> Targets] /\ cfg' \in [Hooks -> BOOLEAN]
      /\ issue' \in [Hooks -> SUBSET PendRec]
      /\ sel' \in [Clis -> Sel] /\ ask' \in [Clis -> Ask]
      /\ OthersKeep(c)
  <2>1. CASE Goto(c, "idle")
    <3>1. OthersKeep(c)
      BY <1>1, <1>3, <2>1 DEF TypeOK, Goto, OthersKeep
    <3>2. QED BY <1>1, <2>1, <3>1, GotoType DEF CliOps
  <2>2. CASE ~Goto(c, "idle")
    <3>1. PICK x \in view[c] \cup ActiveGrants(now[c]) :
             sel' = [sel EXCEPT ![c] = [hash |-> x.hash, cfg |-> FALSE]]
      BY <2>2 DEF SeeG
    <3>2. x \in PendRec \cup Grant
      BY <1>1, <3>1 DEF ActiveGrants, TypeOK
    <3>3. x.hash \in Hash
      BY <3>2 DEF PendRec, Grant
    <3>4. sel' \in [Clis -> Sel]
      BY <3>1, <3>3 DEF TypeOK, Sel
    <3>5. op' = [op EXCEPT ![c] = "revokeP"] /\ UNCHANGED <<now, tgt, cfg, issue, ask>>
      BY <2>2 DEF SeeG
    <3>6. QED BY <1>1, <1>3, <3>4, <3>5, SlotsAssumption DEF TypeOK, OthersKeep, CliOps, Procs
  <2>3. QED BY <2>1, <2>2
<1>5. TypeOK'
  BY <1>3, <1>4 DEF SeeG, TypeOK, files, count, hist
<1>6. QED BY <1>1, <1>2, <1>4, <1>5, OutsideView

LEMMA RevokeGrantsStep ==
    ASSUME TypeOK, ViewInv, NEW c \in Clis, RevokeGrants(c)
    PROVE  TypeOK' /\ ViewInv'
<1>1. c \in Procs /\ c \notin Hooks /\ Holds(c) /\ StoreOf(op[c]) = "G" /\ pend' = pend
  BY SlotsAssumption DEF RevokeGrants, Holds, StoreOf, PendOps, GrantOps, Procs
<1>2. view[c] \subseteq grants /\ grants \subseteq Grant
  BY <1>1, LoadedView DEF TypeOK, RevokeGrants
<1>3. retired' \subseteq Nat
  BY <1>2 DEF RevokeGrants, Removed, Grant, TypeOK
<1>4. DataType'
  BY <1>2, <1>3 DEF RevokeGrants, RewriteGrants, DataType, TypeOK, count
<1>5. QED BY <1>1, <1>4, ReleaseStep DEF RevokeGrants, CliOps

LEMMA ClearPendStep ==
    ASSUME TypeOK, ViewInv, NEW c \in Clis, ClearPend(c)
    PROVE  TypeOK' /\ ViewInv'
<1>1. c \in Procs /\ c \notin Hooks /\ Holds(c) /\ StoreOf(op[c]) = "P" /\ grants' = grants
  BY SlotsAssumption DEF ClearPend, Holds, StoreOf, PendOps, Procs
<1>2. view[c] \subseteq pend /\ pend \subseteq PendRec
  BY <1>1, LoadedView DEF TypeOK, ClearPend
<1>3. retired' \subseteq Nat
  BY <1>2 DEF ClearPend, PendRec, TypeOK
<1>4. DataType'
  BY <1>2, <1>3 DEF ClearPend, RewritePend, DataType, TypeOK, count
<1>5. QED BY <1>1, <1>4, ReleaseStep DEF ClearPend, CliOps

LEMMA ClearGrantsStep ==
    ASSUME TypeOK, ViewInv, NEW c \in Clis, ClearGrants(c)
    PROVE  TypeOK' /\ ViewInv'
<1>1. c \in Procs /\ c \notin Hooks /\ Holds(c) /\ StoreOf(op[c]) = "G" /\ pend' = pend
  BY SlotsAssumption DEF ClearGrants, Holds, StoreOf, PendOps, GrantOps, Procs
<1>2. view[c] \subseteq grants /\ grants \subseteq Grant
  BY <1>1, LoadedView DEF TypeOK, ClearGrants
<1>3. retired' \subseteq Nat
  BY <1>2 DEF ClearGrants, Grant, TypeOK
<1>4. DataType'
  BY <1>2, <1>3 DEF ClearGrants, RewriteGrants, DataType, TypeOK, count
<1>5. QED BY <1>1, <1>4, ReleaseStep DEF ClearGrants, CliOps

-------------------------------------------------------------------------------
(* Interrupted writes keep the types and the loaded views                  *)

LEMMA FailStep ==
    ASSUME TypeOK, ViewInv, NEW p \in Procs, Holds(p), Fail(p),
           StoreOf(op[p]) = "P" => grants' = grants,
           StoreOf(op[p]) = "G" => pend' = pend,
           DataType'
    PROVE  TypeOK' /\ ViewInv'
<1>1. "idle" \in HookOps \cap CliOps /\ {"record", "publish"} \subseteq HookOps
  BY DEF HookOps, CliOps
<1>2. CASE Release(p, "idle")
  BY <1>1, <1>2, ReleaseStep
<1>3. CASE p \in Hooks /\ Release(p, IF op[p] = "match" THEN "record" ELSE "publish")
  BY <1>1, <1>3, ReleaseStep, SlotsAssumption
<1>4. QED BY <1>2, <1>3 DEF Fail

\* What each rewrite under way would leave is part of the store.
LEMMA RewriteBound ==
    ASSUME TypeOK, ViewInv, NEW p \in Procs, Holds(p)
    PROVE  /\ StoreOf(op[p]) = "P" => \A S \in PendRewrites(p) : S \subseteq pend
           /\ StoreOf(op[p]) = "G" => \A S \in GrantRewrites(p) : S \subseteq grants
<1>1. CASE StoreOf(op[p]) = "P"
  <2>1. view[p] \subseteq pend
    BY <1>1, LoadedView DEF Holds
  <2>2. \A b \in BOOLEAN : Kept(p, b) \subseteq pend
    BY <2>1 DEF Kept, NewestHalf
  <2>3. QED BY <1>1, <2>1, <2>2 DEF PendRewrites
<1>2. CASE StoreOf(op[p]) = "G"
  <2>1. view[p] \subseteq grants
    BY <1>2, LoadedView DEF Holds
  <2>2. QED BY <1>2, <2>1 DEF GrantRewrites
<1>3. QED BY <1>1, <1>2 DEF StoreOf

LEMMA PartialAppendBound ==
    ASSUME NEW S, NEW r, NEW tail, NEW x \in PartialAppend(S, tail, r)
    PROVE  x[1] \subseteq S \cup {r} /\ x[2] \in {"cut", "bare"}
BY DEF PartialAppend

\* What an interrupted pending-store operation leaves in the file.
LEMMA InterruptPendFile ==
    ASSUME TypeOK, ViewInv, NEW p \in Procs, InterruptPend(p)
    PROVE  /\ p \in Hooks => NewRecord(p) \in PendRec
           /\ tailP' \in {"ok", "cut", "bare"} /\ junk' \in Nat
           /\ archive' \subseteq PendRec
           /\ \/ /\ pend' \subseteq pend
                 /\ UNCHANGED <<recorded, nextId>>
              \/ /\ op[p] = "record"
                 /\ pend' \subseteq pend \cup {NewRecord(p)}
                 /\ recorded' = recorded \cup {NewRecord(p)}
                 /\ nextId' = nextId + 1
<1>1. Holds(p) /\ StoreOf(op[p]) = "P" /\ lock["P"] = p
  BY DEF InterruptPend, Holds, StoreOf
<1>2. view[p] \subseteq PendRec /\ \A S \in PendRewrites(p) : S \subseteq pend
  BY <1>1, LoadedView, RewriteBound DEF TypeOK
<1>3. CASE \E S \in PendRewrites(p) : \E T \in SUBSET S, tail \in {"ok", "cut", "bare"} :
             /\ pend' = T /\ tailP' = tail /\ junk' = 0
             /\ archive' = IF op[p] = "record" THEN archive \cup (view[p] \ S) ELSE archive
             /\ UNCHANGED <<recorded, nextId>>
  BY <1>2, <1>3, NewRecordType DEF TypeOK
<1>4. CASE op[p] = "record" /\ recorded' = recorded \cup {NewRecord(p)} /\ nextId' = nextId + 1
           /\ \E budget \in BOOLEAN :
                LET base == Base(p, budget)
                IN  /\ \E x \in PartialAppend(base.recs, base.tail, NewRecord(p)) :
                          pend' = x[1] /\ tailP' = x[2]
                    /\ junk' = base.bulk + (IF base.tail = "bare" THEN 1 ELSE 0)
                    /\ archive' = archive \cup Rotated(p, base.recs)
  <2>1. p \in Hooks
    BY <1>4 DEF TypeOK, CliOps, Procs
  <2>2. PICK budget \in BOOLEAN :
           /\ \E x \in PartialAppend(Base(p, budget).recs, Base(p, budget).tail, NewRecord(p)) :
                     pend' = x[1] /\ tailP' = x[2]
           /\ junk' = Base(p, budget).bulk + (IF Base(p, budget).tail = "bare" THEN 1 ELSE 0)
           /\ archive' = archive \cup Rotated(p, Base(p, budget).recs)
    BY <1>4
  <2>3. Base(p, budget).recs \subseteq pend /\ Base(p, budget).bulk \in Nat
    BY <1>1, <2>1, BaseBound
  <2>4. pend' \subseteq pend \cup {NewRecord(p)} /\ tailP' \in {"cut", "bare"}
    BY <2>2, <2>3, PartialAppendBound
  <2>5. archive' \subseteq PendRec /\ junk' \in Nat
    BY <1>2, <2>2, <2>3 DEF Rotated, TypeOK
  <2>6. QED BY <1>4, <2>1, <2>4, <2>5, NewRecordType
<1>5. QED BY <1>3, <1>4 DEF InterruptPend

\* What an interrupted grant-store operation leaves in the file.
LEMMA InterruptGrantsFile ==
    ASSUME TypeOK, ViewInv, NEW p \in Procs, InterruptGrants(p)
    PROVE  /\ tailG' \in {"ok", "cut", "bare"}
           /\ \/ grants' \subseteq grants /\ UNCHANGED <<created, nextId>>
              \/ /\ p \in Clis /\ op[p] = "add"
                 /\ grants' \subseteq grants \cup {NewGrant(p)}
                 /\ created' = created \cup {NewGrant(p)}
                 /\ nextId' = nextId + 1
<1>1. Holds(p) /\ StoreOf(op[p]) = "G" /\ lock["G"] = p
  BY DEF InterruptGrants, Holds, StoreOf, PendOps, GrantOps
<1>2. view[p] \subseteq grants /\ \A S \in GrantRewrites(p) : S \subseteq grants
  BY <1>1, LoadedView, RewriteBound
<1>3. CASE \E S \in GrantRewrites(p) : \E T \in SUBSET S, tail \in {"ok", "cut", "bare"} :
             grants' = T /\ tailG' = tail /\ UNCHANGED <<created, nextId>>
  BY <1>2, <1>3
<1>4. CASE /\ op[p] = "add"
           /\ \E x \in PartialAppend(view[p], IF view[p] = grants THEN tailG ELSE "ok", NewGrant(p)) :
                 grants' = x[1] /\ tailG' = x[2]
           /\ created' = created \cup {NewGrant(p)}
           /\ nextId' = nextId + 1
  <2>1. grants' \subseteq view[p] \cup {NewGrant(p)} /\ tailG' \in {"cut", "bare"}
    BY <1>4, PartialAppendBound
  <2>2. p \in Clis
    BY <1>4 DEF TypeOK, HookOps, Procs
  <2>3. QED BY <1>2, <1>4, <2>1, <2>2
<1>5. QED BY <1>3, <1>4 DEF InterruptGrants

LEMMA InterruptPendStep ==
    ASSUME TypeOK, ViewInv, NEW p \in Procs, InterruptPend(p)
    PROVE  TypeOK' /\ ViewInv'
<1>1. Holds(p) /\ StoreOf(op[p]) = "P" /\ grants' = grants
  BY DEF InterruptPend, Holds, StoreOf
<1>2. op[p] = "record" => p \in Hooks
  BY DEF TypeOK, CliOps, Procs
<1>3. /\ pend' \subseteq PendRec /\ recorded' \subseteq PendRec /\ nextId' \in Nat
      /\ tailP' \in {"ok", "cut", "bare"} /\ junk' \in Nat /\ archive' \subseteq PendRec
  BY <1>2, InterruptPendFile DEF TypeOK
<1>4. DataType'
  BY <1>3 DEF InterruptPend, DataType, TypeOK
<1>5. QED BY <1>1, <1>4, FailStep DEF InterruptPend

LEMMA InterruptGrantsStep ==
    ASSUME TypeOK, ViewInv, NEW p \in Procs, InterruptGrants(p)
    PROVE  TypeOK' /\ ViewInv'
<1>1. Holds(p) /\ StoreOf(op[p]) = "G" /\ pend' = pend
  BY DEF InterruptGrants, Holds, StoreOf, PendOps, GrantOps
<1>2. /\ grants' \subseteq Grant /\ created' \subseteq Grant /\ nextId' \in Nat
      /\ tailG' \in {"ok", "cut", "bare"}
  BY InterruptGrantsFile, NewGrantType DEF TypeOK
<1>3. DataType'
  BY <1>2 DEF InterruptGrants, DataType, TypeOK
<1>4. QED BY <1>1, <1>3, FailStep DEF InterruptGrants

-------------------------------------------------------------------------------
(* Types, and the loaded views                                             *)

LEMMA InitTypes == Init => TypeOK /\ ViewInv
<1> SUFFICES ASSUME Init PROVE TypeOK /\ ViewInv
  OBVIOUS
<1>1. TypeOK
  BY NoValues DEF Init, TypeOK, Procs, HookOps, CliOps, Time
<1>2. ViewInv
  BY SlotsAssumption DEF Init, ViewInv, Procs
<1>3. QED BY <1>1, <1>2

LEMMA StepTypes == TypeOK /\ ViewInv /\ [Next]_vars => TypeOK' /\ ViewInv'
<1> SUFFICES ASSUME TypeOK, ViewInv, [Next]_vars PROVE TypeOK' /\ ViewInv'
  OBVIOUS
<1>1. CASE UNCHANGED vars
  BY <1>1 DEF vars, files, local, count, hist, TypeOK, ViewInv,
              ActivePend, ActiveGrants, PendExpired, GrantExpired
<1>2. ASSUME NEW h \in Hooks, HookStep(h) PROVE TypeOK' /\ ViewInv'
  BY <1>2, StartStep, AcquireStep, MatchStep, SkipStep, RecordStep, PublishStep
     DEF HookStep, Procs
<1>3. ASSUME NEW c \in Clis, CliStep(c) PROVE TypeOK' /\ ViewInv'
  <2>1. CASE Redeem(c)
    <3>1. ask' \in [Clis -> Ask]
      BY <2>1 DEF Redeem, TypeOK, Ask
    <3>2. QED BY <2>1, <3>1, CliStartStep DEF Redeem, CliOps
  <2>2. CASE Revoke(c)
    BY <2>2, CliStartStep DEF Revoke, CliOps, TypeOK
  <2>3. CASE Clear(c)
    <3>1. ask' \in [Clis -> Ask]
      BY <2>3 DEF Clear, TypeOK, Ask
    <3>2. QED BY <2>3, <3>1, CliStartStep DEF Clear, CliOps
  <2>4. QED BY <1>3, <2>1, <2>2, <2>3, DeclineStep, AcquireStep, LookupStep, AddStep, DropStep,
               SeePStep, SeeGStep, RevokeGrantsStep, ClearPendStep, ClearGrantsStep
         DEF CliStep, Procs
<1>4. ASSUME NEW p \in Procs, InterruptPend(p) \/ InterruptGrants(p) PROVE TypeOK' /\ ViewInv'
  BY <1>4, InterruptPendStep, InterruptGrantsStep
<1>5. CASE Tick
  BY <1>5 DEF Tick, files, local, count, hist, TypeOK, ViewInv, Time,
              ActivePend, ActiveGrants, PendExpired, GrantExpired
<1>6. CASE AllQuiet
  BY <1>1, <1>6 DEF AllQuiet
<1>7. QED BY <1>1, <1>2, <1>3, <1>4, <1>5, <1>6 DEF Next

\* Type correctness: every variable of the two stores and their processes
\* stays in its type, and (ViewInv) what an operation loaded under a lock is
\* what the store holds when it writes.
THEOREM TypeCorrect == Spec => [](TypeOK /\ ViewInv)
<1>1. Init => TypeOK /\ ViewInv
  BY InitTypes
<1>2. (TypeOK /\ ViewInv) /\ [Next]_vars => (TypeOK /\ ViewInv)'
  BY StepTypes
<1>3. QED BY <1>1, <1>2, PTL DEF Spec

-------------------------------------------------------------------------------
(* Every step is one of four kinds, as far as the stores' records go       *)

\* No record is added; records that are retired are gone from their store.
Thins ==
    /\ pend' \subseteq pend /\ grants' \subseteq grants
    /\ UNCHANGED <<recorded, created, approvals, nextId>>
    /\ \A n \in retired' : \/ n \in retired
                           \/ \E r \in pend : r.id = n /\ r \notin pend'
                           \/ \E e \in grants : e.id = n /\ e \notin grants'

\* A denial's record is appended, perhaps in vain.
Records(h) ==
    /\ pend' \subseteq pend \cup {NewRecord(h)} /\ recorded' = recorded \cup {NewRecord(h)}
    /\ nextId' = nextId + 1
    /\ UNCHANGED <<grants, created, approvals, retired>>

\* A redeemed code's grant is appended, perhaps in vain.
Creates(c) ==
    /\ grants' \subseteq grants \cup {NewGrant(c)} /\ created' = created \cup {NewGrant(c)}
    /\ nextId' = nextId + 1
    /\ UNCHANGED <<pend, recorded, approvals, retired>>

\* A run is authorized.
RunBy(h, e) == [run |-> nextId, entry |-> e, target |-> tgt[h], cfg |-> cfg[h], now |-> now[h]]
Approves(h, e) ==
    /\ e \in Granted(h) /\ e \in view[h] /\ lock["G"] = h
    /\ approvals' = approvals \cup {RunBy(h, e)}
    /\ nextId' = nextId + 1
    /\ grants' \subseteq grants /\ e \in grants /\ (e.single => e \notin grants')
    /\ UNCHANGED <<pend, recorded, created, retired>>

StepKind ==
    \/ Thins
    \/ \E h \in Hooks : Records(h) \/ (\E e \in Grant : Approves(h, e))
    \/ \E c \in Clis : op[c] = "add" /\ Creates(c)

LEMMA MatchKind ==
    ASSUME TypeOK, ViewInv, NEW h \in Hooks, Match(h)
    PROVE  StepKind
<1>1. view[h] \subseteq grants /\ grants \subseteq Grant /\ lock["G"] = h
  BY LoadedView DEF Match, TypeOK, Procs
<1>2. grants' = view[h] \ Spent(h)
  BY DEF Match, RewriteGrants
<1>3. UNCHANGED <<pend, recorded, created, retired>>
  BY DEF Match
<1>4. ASSUME NEW e \in Granted(h), approvals' = approvals \cup {RunBy(h, e)}, nextId' = nextId + 1
      PROVE  StepKind
  <2>1. e \in view[h] /\ (e.single => e \in Spent(h))
    BY DEF Granted, Found, Oldest, Spent
  <2>2. Approves(h, e) /\ e \in Grant
    BY <1>1, <1>2, <1>3, <1>4, <2>1 DEF Approves
  <2>3. QED BY <2>2 DEF StepKind
<1>5. CASE UNCHANGED <<approvals, nextId>>
  BY <1>1, <1>2, <1>3, <1>5 DEF StepKind, Thins
<1>6. QED BY <1>4, <1>5 DEF Match, RunBy

LEMMA RecordKind ==
    ASSUME TypeOK, ViewInv, NEW h \in Hooks, Record(h)
    PROVE  StepKind
<1>1. lock["P"] = h /\ h \in Procs /\ UNCHANGED <<grants, created, approvals, retired>>
  BY DEF Record, Procs
<1>2. PICK budget \in BOOLEAN :
         LET base == Base(h, budget)
         IN  \/ pend' = base.recs /\ UNCHANGED <<nextId, recorded>>
             \/ /\ pend' = Appended(base.recs, base.tail, NewRecord(h))
                /\ recorded' = recorded \cup {NewRecord(h)}
                /\ nextId' = nextId + 1
  BY DEF Record
<1>3. Base(h, budget).recs \subseteq pend /\ Base(h, budget).tail \in {"ok", "cut", "bare"}
  BY <1>1, BaseBound
<1>4. CASE pend' = Base(h, budget).recs /\ UNCHANGED <<nextId, recorded>>
  BY <1>1, <1>3, <1>4 DEF StepKind, Thins
<1>5. CASE /\ pend' = Appended(Base(h, budget).recs, Base(h, budget).tail, NewRecord(h))
           /\ recorded' = recorded \cup {NewRecord(h)}
           /\ nextId' = nextId + 1
  <2>1. pend' \subseteq pend \cup {NewRecord(h)}
    BY <1>3, <1>5, AppendedBound
  <2>2. QED BY <1>1, <1>5, <2>1 DEF StepKind, Records
<1>6. QED BY <1>2, <1>4, <1>5

LEMMA CliKind ==
    ASSUME TypeOK, ViewInv, NEW c \in Clis, CliStep(c)
    PROVE  StepKind
<1>1. c \in Procs
  BY DEF Procs
<1>2. CASE Redeem(c) \/ Revoke(c) \/ Clear(c)
  BY <1>2 DEF Redeem, Revoke, Clear, CliStart, StepKind, Thins, files, hist
<1>3. CASE Decline(c) \/ Acquire(c) \/ SeeP(c) \/ SeeG(c)
  BY <1>3 DEF Decline, Acquire, SeeP, SeeG, StepKind, Thins, files, hist, count
<1>4. CASE Lookup(c)
  <2>1. pend' \subseteq pend
    BY <1>1, <1>4, LoadedView DEF Lookup, RewritePend
  <2>2. QED BY <1>4, <2>1 DEF Lookup, StepKind, Thins, hist, count
<1>5. CASE Add(c)
  <2>1. grants' \subseteq view[c] \cup {NewGrant(c)}
    BY <1>5, AppendedBound DEF Add, TypeOK
  <2>2. view[c] \subseteq grants
    BY <1>1, <1>5, LoadedView DEF Add
  <2>3. QED BY <1>5, <2>1, <2>2 DEF Add, StepKind, Creates
<1>6. CASE Drop(c)
  <2>1. view[c] \subseteq pend
    BY <1>1, <1>6, LoadedView DEF Drop
  <2>2. pend' = view[c] \ Removed(c) /\ retired' = retired \cup {r.id : r \in Removed(c)}
    BY <1>6 DEF Drop, RewritePend
  <2>3. Removed(c) \subseteq pend
    BY <2>1 DEF Removed
  <2>4. QED BY <1>6, <2>1, <2>2, <2>3 DEF Drop, StepKind, Thins, count
<1>7. CASE RevokeGrants(c)
  <2>1. view[c] \subseteq grants
    BY <1>1, <1>7, LoadedView DEF RevokeGrants
  <2>2. grants' = view[c] \ Removed(c) /\ retired' = retired \cup {e.id : e \in Removed(c)}
    BY <1>7 DEF RevokeGrants, RewriteGrants
  <2>3. Removed(c) \subseteq grants
    BY <2>1 DEF Removed
  <2>4. QED BY <1>7, <2>1, <2>2, <2>3 DEF RevokeGrants, StepKind, Thins, count
<1>8. CASE ClearPend(c)
  <2>1. view[c] \subseteq pend
    BY <1>1, <1>8, LoadedView DEF ClearPend
  <2>2. QED BY <1>8, <2>1 DEF ClearPend, RewritePend, StepKind, Thins, count
<1>9. CASE ClearGrants(c)
  <2>1. view[c] \subseteq grants
    BY <1>1, <1>9, LoadedView DEF ClearGrants
  <2>2. QED BY <1>9, <2>1 DEF ClearGrants, RewriteGrants, StepKind, Thins, count
<1>10. QED BY <1>2, <1>3, <1>4, <1>5, <1>6, <1>7, <1>8, <1>9 DEF CliStep

LEMMA Kinds == TypeOK /\ ViewInv /\ [Next]_vars => StepKind
<1> SUFFICES ASSUME TypeOK, ViewInv, [Next]_vars PROVE StepKind
  OBVIOUS
<1>1. CASE UNCHANGED vars \/ Tick \/ AllQuiet
  BY <1>1 DEF Tick, AllQuiet, vars, files, hist, count, StepKind, Thins
<1>2. ASSUME NEW h \in Hooks, HookStep(h) PROVE StepKind
  <2>1. CASE HookStart(h) \/ Acquire(h) \/ SkipRecord(h) \/ Publish(h)
    BY <2>1 DEF HookStart, Acquire, SkipRecord, Publish, files, hist, count, StepKind, Thins
  <2>2. QED BY <1>2, <2>1, MatchKind, RecordKind DEF HookStep
<1>3. ASSUME NEW p \in Procs, InterruptPend(p) PROVE StepKind
  <2>1. op[p] = "record" => p \in Hooks
    BY DEF TypeOK, CliOps, Procs
  <2>2. UNCHANGED <<grants, created, approvals, retired>>
    BY <1>3 DEF InterruptPend
  <2>3. QED BY <1>3, <2>1, <2>2, InterruptPendFile DEF StepKind, Thins, Records
<1>4. ASSUME NEW p \in Procs, InterruptGrants(p) PROVE StepKind
  <2>1. UNCHANGED <<pend, recorded, approvals, retired>>
    BY <1>4 DEF InterruptGrants
  <2>2. QED BY <1>4, <2>1, InterruptGrantsFile DEF StepKind, Thins, Creates
<1>5. QED BY <1>1, <1>2, <1>3, <1>4, CliKind DEF Next

-------------------------------------------------------------------------------
(* Numbers are fresh, and what was retired is gone                         *)

\* Every number given out is below the next one.
FreshInv ==
    /\ \A r \in recorded : r.id < nextId
    /\ \A e \in created : e.id < nextId
    /\ \A a \in approvals : a.run < nextId
    /\ \A n \in retired : n < nextId

\* Stores hold only what was once appended, and a number names one record.
IdInv ==
    /\ pend \subseteq recorded /\ grants \subseteq created
    /\ \A q, r \in recorded : q.id = r.id => q = r
    /\ \A d, e \in created : d.id = e.id => d = e
    /\ \A r \in recorded, e \in created : r.id # e.id

LEMMA StepFresh ==
    ASSUME TypeOK, ViewInv, FreshInv, IdInv, [Next]_vars
    PROVE  FreshInv' /\ IdInv'
<1>1. StepKind
  BY Kinds
<1>2. nextId \in Nat
  BY DEF TypeOK
<1>3. CASE Thins
  <2>1. \A r \in pend : r.id < nextId
    BY DEF FreshInv, IdInv
  <2>2. \A e \in grants : e.id < nextId
    BY DEF FreshInv, IdInv
  <2>3. \A n \in retired' : n < nextId
    BY <1>3, <2>1, <2>2 DEF Thins, FreshInv
  <2>4. QED BY <1>3, <2>3 DEF Thins, FreshInv, IdInv
<1>4. ASSUME NEW h \in Hooks, Records(h) PROVE FreshInv' /\ IdInv'
  <2>1. NewRecord(h).id = nextId /\ NewRecord(h) \in PendRec
    BY NewRecordType DEF NewRecord
  <2>2. /\ \A r \in recorded : r.id \in Nat
        /\ \A e \in created : e.id \in Nat
        /\ \A a \in approvals : a.run \in Nat
        /\ \A n \in retired : n \in Nat
    BY DEF TypeOK, PendRec, Grant, Approval
  <2>3. FreshInv'
    BY <1>2, <1>4, <2>1, <2>2 DEF Records, FreshInv
  <2>4. \A r \in recorded \cup created : r.id # nextId
    BY <1>2, <2>2 DEF FreshInv
  <2> HIDE DEF FreshInv
  <2>5. IdInv'
    BY <1>4, <2>1, <2>4 DEF Records, IdInv
  <2>6. QED BY <2>3, <2>5
<1>5. ASSUME NEW c \in Clis, Creates(c) PROVE FreshInv' /\ IdInv'
  <2>1. NewGrant(c).id = nextId
    BY DEF NewGrant
  <2>2. /\ \A r \in recorded : r.id \in Nat
        /\ \A e \in created : e.id \in Nat
        /\ \A a \in approvals : a.run \in Nat
        /\ \A n \in retired : n \in Nat
    BY DEF TypeOK, PendRec, Grant, Approval
  <2>3. FreshInv'
    BY <1>2, <1>5, <2>1, <2>2 DEF Creates, FreshInv
  <2>4. \A r \in recorded \cup created : r.id # nextId
    BY <1>2, <2>2 DEF FreshInv
  <2>5. IdInv'
    BY <1>5, <2>1, <2>4 DEF Creates, IdInv
  <2>6. QED BY <2>3, <2>5
<1>6. ASSUME NEW h \in Hooks, NEW e \in Grant, Approves(h, e) PROVE FreshInv' /\ IdInv'
  <2>1. RunBy(h, e).run = nextId
    BY DEF RunBy
  <2>2. /\ \A r \in recorded : r.id \in Nat
        /\ \A d \in created : d.id \in Nat
        /\ \A a \in approvals : a.run \in Nat
        /\ \A n \in retired : n \in Nat
    BY DEF TypeOK, PendRec, Grant, Approval
  <2>3. FreshInv'
    BY <1>2, <1>6, <2>1, <2>2 DEF Approves, FreshInv
  <2>4. IdInv'
    BY <1>6 DEF Approves, IdInv
  <2>5. QED BY <2>3, <2>4
<1>7. QED BY <1>1, <1>3, <1>4, <1>5, <1>6 DEF StepKind

\* The inductive invariant of the module.
StoreInv == TypeOK /\ ViewInv /\ FreshInv /\ IdInv

LEMMA StoreInvariant == Spec => []StoreInv
<1>1. Init => StoreInv
  <2>1. Init => FreshInv /\ IdInv
    BY DEF Init, FreshInv, IdInv
  <2>2. QED BY <2>1, InitTypes DEF StoreInv
<1>2. StoreInv /\ [Next]_vars => StoreInv'
  BY StepTypes, StepFresh DEF StoreInv
<1>3. QED BY <1>1, <1>2, PTL DEF Spec

\* Redeemed, revoked and cleared records never come back to a store, however
\* the operations of hooks and CLI processes interleave or are cut short.
THEOREM RetiredGone == Spec => []RetiredStayGone
<1>1. Init => RetiredStayGone
  BY DEF Init, RetiredStayGone
<1>2. StoreInv /\ RetiredStayGone /\ [Next]_vars => RetiredStayGone'
  <2> SUFFICES ASSUME StoreInv, RetiredStayGone, [Next]_vars PROVE RetiredStayGone'
    OBVIOUS
  <2>1. StepKind /\ FreshInv /\ IdInv /\ nextId \in Nat
    BY Kinds DEF StoreInv, TypeOK
  <2>2. CASE Thins
    BY <2>1, <2>2 DEF Thins, IdInv, RetiredStayGone
  <2>3. ASSUME NEW h \in Hooks, Records(h) PROVE RetiredStayGone'
    <3>1. NewRecord(h).id = nextId /\ \A n \in retired : n # nextId
      BY <2>1 DEF NewRecord, FreshInv, StoreInv, TypeOK
    <3>2. QED BY <2>3, <3>1 DEF Records, RetiredStayGone
  <2>4. ASSUME NEW c \in Clis, Creates(c) PROVE RetiredStayGone'
    <3>1. NewGrant(c).id = nextId /\ \A n \in retired : n # nextId
      BY <2>1 DEF NewGrant, FreshInv, StoreInv, TypeOK
    <3>2. QED BY <2>4, <3>1 DEF Creates, RetiredStayGone
  <2>5. ASSUME NEW h \in Hooks, NEW e \in Grant, Approves(h, e) PROVE RetiredStayGone'
    BY <2>5 DEF Approves, RetiredStayGone
  <2>6. QED BY <2>1, <2>2, <2>3, <2>4, <2>5 DEF StepKind
<1>3. QED BY <1>1, <1>2, StoreInvariant, PTL DEF Spec

-------------------------------------------------------------------------------
(* The grant store is a ledger                                             *)

\* The ledger's own step: a spent grant is off the ledger for good, and no other
\* grant has its number.
LEMMA LedgerStep ==
    ASSUME Ledger!LedgerInv, [Ledger!Step]_(Ledger!ledger)
    PROVE  Ledger!LedgerInv'
<1> USE DEF Ledger!LedgerInv, Ledger!SingleUse
<1>1. CASE Ledger!End \/ UNCHANGED Ledger!ledger
  BY <1>1 DEF Ledger!End, Ledger!ledger
<1>2. ASSUME NEW e, Ledger!Create(e) PROVE Ledger!LedgerInv'
  BY <1>2 DEF Ledger!Create
<1>3. ASSUME NEW a, Ledger!Authorize(a) PROVE Ledger!LedgerInv'
  <2>1. a.entry \in created /\ \A b \in approvals : a.entry.single => b.entry # a.entry
    BY <1>3 DEF Ledger!Authorize
  <2>2. \A b \in approvals : a.entry.id = b.entry.id => b.entry = a.entry
    BY <2>1
  <2>3. Ledger!SingleUse'
    BY <1>3, <2>1, <2>2 DEF Ledger!Authorize
  <2>4. \A b \in approvals' : b.entry \in created' /\ (b.entry.single => b.entry \notin grants')
    BY <1>3, <2>1 DEF Ledger!Authorize
  <2>5. QED BY <1>3, <2>3, <2>4 DEF Ledger!Authorize
<1>4. QED BY <1>1, <1>2, <1>3 DEF Ledger!Step

\* The promise of allow-once grants: in the abstract ledger, one command for each
\* single-use grant.
THEOREM LedgerSingleUse == LedgerSpec => []Ledger!SingleUse
<1>1. Ledger!Init => Ledger!LedgerInv
  BY DEF Ledger!Init, Ledger!LedgerInv, Ledger!SingleUse
<1>2. Ledger!LedgerInv => Ledger!SingleUse
  BY DEF Ledger!LedgerInv
<1>3. Ledger!LedgerInv /\ [Ledger!Step]_(Ledger!ledger) => Ledger!LedgerInv'
  BY LedgerStep
<1>4. QED BY <1>1, <1>2, <1>3, PTL DEF LedgerSpec, Ledger!Spec

\* Refinement: each step of the two stores is a step of the ledger or leaves
\* it alone.
THEOREM ImplementsLedger == Spec => LedgerSpec
<1>1. Init => Ledger!Init
  BY DEF Init, Ledger!Init
<1>2. StoreInv /\ [Next]_vars => [Ledger!Step]_(Ledger!ledger)
  <2> SUFFICES ASSUME StoreInv, [Next]_vars PROVE Ledger!Step
    OBVIOUS
  <2>1. StepKind /\ FreshInv /\ nextId \in Nat
    BY Kinds DEF StoreInv, TypeOK
  <2>2. CASE Thins \/ (\E h \in Hooks : Records(h))
    BY <2>2 DEF Thins, Records, Ledger!Step, Ledger!End
  <2>3. ASSUME NEW c \in Clis, Creates(c) PROVE Ledger!Step
    <3>1. \A x \in created : x.id # NewGrant(c).id
      BY <2>1 DEF NewGrant, FreshInv, StoreInv, TypeOK, Grant
    <3>2. Ledger!Create(NewGrant(c)) /\ NewGrant(c) \in created'
      BY <2>3, <3>1 DEF Creates, Ledger!Create
    <3>3. QED BY <3>2 DEF Ledger!Step
  <2>4. ASSUME NEW h \in Hooks, NEW e \in Grant, Approves(h, e) PROVE Ledger!Step
    <3>1. \A x \in approvals : x.run # RunBy(h, e).run
      BY <2>1 DEF RunBy, FreshInv, StoreInv, TypeOK, Approval
    <3>2. RunBy(h, e).entry = e
      BY DEF RunBy
    <3>3. Ledger!Authorize(RunBy(h, e)) /\ RunBy(h, e) \in approvals'
      BY <2>4, <3>1, <3>2 DEF Approves, Ledger!Authorize
    <3>4. QED BY <3>3 DEF Ledger!Step
  <2>5. QED BY <2>1, <2>2, <2>3, <2>4 DEF StepKind
<1>3. QED BY <1>1, <1>2, StoreInvariant, PTL DEF Spec, LedgerSpec, Ledger!Spec

\* A single-use grant lets at most one command run.
THEOREM SingleUse == Spec => []SingleUseOnce
<1>1. Ledger!SingleUse <=> SingleUseOnce
  BY DEF Ledger!SingleUse, SingleUseOnce
<1>2. QED BY <1>1, ImplementsLedger, LedgerSingleUse, PTL

-------------------------------------------------------------------------------
(* What a grant may authorize                                              *)

\* A grant forced over a config block, or about to be created from a code of
\* one, goes back to a denial by the config.
ForceInv ==
    /\ \A e \in created : e.force => \E r \in recorded : r.hash = e.hash /\ r.cfg
    /\ \A c \in Clis : op[c] = "add" /\ sel[c].cfg =>
          \E r \in recorded : r.hash = sel[c].hash /\ r.cfg

\* A CLI process comes to "add" with a record it just read in the store.
AddFromCode ==
    \A c \in Clis : op'[c] = "add" =>
        \/ op[c] = "add" /\ sel'[c] = sel[c]
        \/ \E r \in pend : sel'[c] = [hash |-> r.hash, cfg |-> r.cfg]

LEMMA GotoAdd ==
    ASSUME TypeOK, NEW p \in Procs, NEW n, n # "add", Goto(p, n)
    PROVE  AddFromCode
<1>1. op'[p] # "add" /\ \A c \in Clis \ {p} : op'[c] = op[c]
  BY DEF Goto, TypeOK, Procs
<1>2. \A c \in Clis \ {p} : sel'[c] = sel[c]
  BY DEF Goto, TypeOK, local
<1>3. QED BY <1>1, <1>2 DEF AddFromCode

LEMMA LookupAdd ==
    ASSUME TypeOK, ViewInv, NEW c \in Clis, Lookup(c)
    PROVE  AddFromCode
<1>1. c \in Procs /\ view[c] \subseteq pend
  BY LoadedView DEF Lookup, Procs
<1>2. CASE Goto(c, "idle")
  BY <1>1, <1>2, GotoAdd
<1>3. CASE ~Goto(c, "idle")
  <2>1. PICK r \in view[c] :
           sel' = [sel EXCEPT ![c] = [hash |-> r.hash, cfg |-> r.cfg]]
    BY <1>3 DEF Lookup, Oldest
  <2>2. op' = [op EXCEPT ![c] = "add"]
    BY <1>3 DEF Lookup
  <2>3. QED BY <1>1, <2>1, <2>2 DEF AddFromCode, TypeOK
<1>4. QED BY <1>2, <1>3

LEMMA StepAdd ==
    ASSUME TypeOK, ViewInv, [Next]_vars
    PROVE  AddFromCode
<1>1. CASE UNCHANGED vars \/ Tick \/ AllQuiet
  BY <1>1 DEF Tick, AllQuiet, vars, local, AddFromCode
<1>2. ASSUME NEW p \in Procs, Acquire(p) PROVE AddFromCode
  BY <1>2 DEF Acquire, AddFromCode
<1>3. ASSUME NEW h \in Hooks, HookStep(h) PROVE AddFromCode
  <2>1. h \in Procs
    BY DEF Procs
  <2>2. CASE HookStart(h) \/ Record(h)
    BY <2>2, SlotsAssumption DEF HookStart, Record, AddFromCode, TypeOK, Procs
  <2>3. CASE Match(h) \/ SkipRecord(h) \/ Publish(h)
    BY <2>1, <2>3, GotoAdd DEF Match, SkipRecord, Publish, Release
  <2>4. QED BY <1>2, <1>3, <2>1, <2>2, <2>3 DEF HookStep
<1>4. ASSUME NEW c \in Clis, CliStep(c) PROVE AddFromCode
  <2>1. c \in Procs
    BY DEF Procs
  <2>2. CASE Redeem(c) \/ Revoke(c) \/ Clear(c)
    <3>1. op' = [op EXCEPT ![c] = "lookup"] \/ op' = [op EXCEPT ![c] = "seeP"]
             \/ op' = [op EXCEPT ![c] = "clearP"]
      BY <2>2 DEF Redeem, Revoke, Clear, CliStart
    <3>2. sel' = sel
      BY <2>2 DEF Redeem, Revoke, Clear, CliStart
    <3>3. \A d \in Clis : op'[d] = "add" => op[d] = "add"
      BY <2>1, <3>1 DEF TypeOK, Procs
    <3>4. QED BY <3>2, <3>3 DEF AddFromCode
  <2>3. CASE Decline(c) \/ Add(c) \/ Drop(c) \/ RevokeGrants(c) \/ ClearPend(c) \/ ClearGrants(c)
    BY <2>1, <2>3, GotoAdd DEF Decline, Add, Drop, RevokeGrants, ClearPend, ClearGrants, Release
  <2>4. CASE SeeP(c)
    BY <2>1, <2>4 DEF SeeP, AddFromCode, TypeOK, local
  <2>5. CASE SeeG(c)
    <3>1. CASE Goto(c, "idle")
      BY <2>1, <3>1, GotoAdd
    <3>2. CASE ~Goto(c, "idle")
      <4>1. op' = [op EXCEPT ![c] = "revokeP"]
        BY <2>5, <3>2 DEF SeeG
      <4>2. \A d \in Clis \ {c} : sel'[d] = sel[d]
        BY <2>5, <3>2 DEF SeeG, TypeOK
      <4>3. QED BY <2>1, <4>1, <4>2 DEF AddFromCode, TypeOK
    <3>3. QED BY <3>1, <3>2
  <2>6. QED BY <1>2, <1>4, <2>1, <2>2, <2>3, <2>4, <2>5, LookupAdd DEF CliStep
<1>5. ASSUME NEW p \in Procs, InterruptPend(p) \/ InterruptGrants(p) PROVE AddFromCode
  <2>1. Goto(p, "idle") \/ Goto(p, "record") \/ Goto(p, "publish")
    BY <1>5 DEF InterruptPend, InterruptGrants, Fail, Release
  <2>2. QED BY <2>1, GotoAdd
<1>6. QED BY <1>1, <1>3, <1>4, <1>5 DEF Next

\* Every run a grant authorized was in the grant's scope and lifetime, and one
\* that overrode a config block goes back to a code redeemed with --force.
THEOREM Justified == Spec => []ApprovalJustified
<1>1. Init => ForceInv /\ ApprovalJustified
  BY DEF Init, ForceInv, ApprovalJustified, Procs
<1>2. StoreInv /\ ForceInv /\ ApprovalJustified /\ [Next]_vars => (ForceInv /\ ApprovalJustified)'
  <2> SUFFICES ASSUME StoreInv, ForceInv, ApprovalJustified, [Next]_vars
               PROVE  ForceInv' /\ ApprovalJustified'
    OBVIOUS
  <2>1. StepKind /\ AddFromCode /\ IdInv /\ TypeOK /\ ViewInv
    BY Kinds, StepAdd DEF StoreInv
  <2>2. recorded \subseteq recorded'
    BY <2>1 DEF StepKind, Thins, Records, Creates, Approves
  <2>3. \A c \in Clis : op'[c] = "add" /\ sel'[c].cfg =>
            \E r \in recorded' : r.hash = sel'[c].hash /\ r.cfg
    <3> SUFFICES ASSUME NEW c \in Clis, op'[c] = "add", sel'[c].cfg
                 PROVE  \E r \in recorded' : r.hash = sel'[c].hash /\ r.cfg
      OBVIOUS
    <3>1. CASE op[c] = "add" /\ sel'[c] = sel[c]
      BY <2>2, <3>1 DEF ForceInv
    <3>2. ASSUME NEW r \in pend, sel'[c] = [hash |-> r.hash, cfg |-> r.cfg]
          PROVE  \E q \in recorded' : q.hash = sel'[c].hash /\ q.cfg
      <4>1. r \in recorded'
        BY <2>1, <2>2 DEF IdInv
      <4>2. sel'[c].hash = r.hash
        BY <3>2
      <4>3. r.cfg \in BOOLEAN
        BY <2>1 DEF TypeOK, PendRec
      <4>4. r.cfg
        BY <3>2, <4>3
      <4>5. QED BY <4>1, <4>2, <4>4
    <3>3. QED BY <2>1, <3>1, <3>2 DEF AddFromCode
  <2>4. \A e \in created' : e.force => \E r \in recorded' : r.hash = e.hash /\ r.cfg
    <3>1. CASE created' = created
      BY <2>2, <3>1 DEF ForceInv
    <3>2. ASSUME NEW c \in Clis, op[c] = "add", Creates(c)
          PROVE  \A e \in created' : e.force => \E r \in recorded' : r.hash = e.hash /\ r.cfg
      <4>1. NewGrant(c).hash = sel[c].hash /\ (NewGrant(c).force => sel[c].cfg)
        BY DEF NewGrant
      <4>2. QED BY <2>2, <3>2, <4>1 DEF Creates, ForceInv
    <3>3. QED BY <2>1, <3>1, <3>2 DEF StepKind, Thins, Records, Approves
  <2>5. ApprovalJustified'
    <3>1. CASE approvals' = approvals
      BY <2>2, <3>1 DEF ApprovalJustified
    <3>2. ASSUME NEW h \in Hooks, NEW e \in Grant, Approves(h, e) PROVE ApprovalJustified'
      <4>1. tgt[h] \in Covers(e.hash.target) /\ (cfg[h] => e.force) /\ e \in view[h]
        BY <3>2 DEF Approves, Granted, Found, Oldest
      <4>2. ~GrantExpired(e, now[h])
        BY <2>1, <3>2, <4>1 DEF Approves, ViewInv, ActiveGrants, Procs
      <4>3. now[h] <= e.at + TTL
        BY <2>1, <4>2, NumbersAssumption DEF GrantExpired, TypeOK, Grant, Time, Procs
      <4>4. cfg[h] => \E r \in recorded : r.hash = e.hash /\ r.cfg
        BY <2>1, <3>2, <4>1 DEF Approves, IdInv, ForceInv
      <4>5. /\ RunBy(h, e).entry = e /\ RunBy(h, e).target = tgt[h]
            /\ RunBy(h, e).cfg = cfg[h] /\ RunBy(h, e).now = now[h]
        BY DEF RunBy
      <4>6. approvals' = approvals \cup {RunBy(h, e)} /\ recorded' = recorded
        BY <3>2 DEF Approves
      <4>7. QED BY <4>1, <4>3, <4>4, <4>5, <4>6 DEF ApprovalJustified
    <3>3. QED BY <2>1, <3>1, <3>2 DEF StepKind, Thins, Records, Creates
  <2>6. QED BY <2>3, <2>4, <2>5 DEF ForceInv
<1>3. QED BY <1>1, <1>2, StoreInvariant, PTL DEF Spec

-------------------------------------------------------------------------------
(* A hook that denies spends no grant                                      *)

\* The only step that takes a hook from matching to its denial, other than a
\* write cut short, is a match that finds no grant.
LEMMA DenialIsMatch ==
    ASSUME TypeOK, NEW h \in Hooks, [Next]_vars,
           op[h] = "match", op'[h] = "record", crashes' = crashes
    PROVE  Match(h) /\ Granted(h) = {}
<1> USE SlotsAssumption
<1>1. op' # op
  BY "match" # "record"
<1>2. h \in Procs /\ h \notin Clis
  BY DEF Procs
<1>3. \A q \in Procs : (\E n : op' = [op EXCEPT ![q] = n]) => q = h
  BY <1>2 DEF TypeOK
<1>4. ASSUME NEW g \in Hooks, HookStep(g) PROVE Match(h) /\ Granted(h) = {}
  <2>1. g = h
    BY <1>1, <1>3, <1>4 DEF HookStep, HookStart, Acquire, Match, SkipRecord, Record, Publish,
                            Release, Goto, Procs
  <2>2. Match(h)
    BY <1>1, <1>4, <2>1 DEF HookStep, HookStart, Acquire, SkipRecord, Record, Publish
  <2>3. ~Release(h, "idle")
    BY <1>2 DEF Release, Goto, TypeOK
  <2>4. QED BY <2>2, <2>3 DEF Match
<1>5. ASSUME NEW c \in Clis, CliStep(c) PROVE FALSE
  <2>1. c \in Procs /\ c # h
    BY DEF Procs
  <2>2. \A n : op' # [op EXCEPT ![c] = n]
    BY <1>3, <2>1
  <2>3. ~Redeem(c) /\ ~Revoke(c) /\ ~Clear(c)
    BY <2>2 DEF Redeem, Revoke, Clear, CliStart
  <2>4. ~Decline(c) /\ ~Acquire(c) /\ ~Lookup(c) /\ ~SeeP(c) /\ ~SeeG(c)
    BY <1>1, <2>2 DEF Decline, Acquire, Lookup, SeeP, SeeG, Goto
  <2>5. /\ ~Add(c) /\ ~Drop(c) /\ ~RevokeGrants(c)
        /\ ~ClearPend(c) /\ ~ClearGrants(c)
    BY <2>2 DEF Add, Drop, RevokeGrants, ClearPend, ClearGrants, Release, Goto
  <2>6. QED BY <1>5, <2>3, <2>4, <2>5 DEF CliStep
<1>6. ASSUME NEW p \in Procs, InterruptPend(p) \/ InterruptGrants(p) PROVE FALSE
  BY <1>6 DEF InterruptPend, InterruptGrants, TypeOK
<1>7. ~Tick /\ ~AllQuiet /\ ~UNCHANGED vars
  BY <1>1 DEF Tick, AllQuiet, vars
<1>8. QED BY <1>4, <1>5, <1>6, <1>7 DEF Next

\* A hook that goes on to deny leaves every live grant in its store
\* (match_command_force_config refuses before it removes).
THEOREM DenialsKeepGrants == Spec => DenialKeepsGrants
<1>1. TypeOK /\ ViewInv /\ [Next]_vars
        => [\A h \in Hooks :
              op[h] = "match" /\ op'[h] = "record" /\ crashes' = crashes
                 => \A e \in grants : GrantExpired(e, now[h]) \/ e \in grants']_vars
  <2> SUFFICES ASSUME TypeOK, ViewInv, [Next]_vars, NEW h \in Hooks,
                      op[h] = "match", op'[h] = "record", crashes' = crashes,
                      NEW e \in grants, ~GrantExpired(e, now[h])
               PROVE  e \in grants'
    OBVIOUS
  <2>1. Match(h) /\ Granted(h) = {}
    BY DenialIsMatch
  <2>2. view[h] = ActiveGrants(now[h])
    BY <2>1 DEF Match, ViewInv, Procs
  <2>3. Spent(h) = {}
    BY <2>1 DEF Spent
  <2>4. grants' = view[h] \/ grants' = grants
    BY <2>1, <2>3 DEF Match, RewriteGrants
  <2>5. QED BY <2>2, <2>4 DEF ActiveGrants
<1>2. QED BY <1>1, TypeCorrect, PTL DEF Spec, DenialKeepsGrants

-------------------------------------------------------------------------------
(* The pending store stays within its cap                                  *)

\* Numbered records below n have a last one.
LEMMA NewestExists ==
    ASSUME NEW S, NEW n \in Nat, \A x \in S : x.id \in Nat /\ x.id < n, S # {}
    PROVE  Newest(S) # {}
<1> DEFINE below == {p \in Nat \X Nat : p[1] < p[2]}
           gaps == {n - x.id : x \in S}
<1>1. gaps \subseteq Nat /\ gaps # {}
  OBVIOUS
<1>2. IsWellFoundedOn(below, Nat)
  BY NatLessThanWellFounded, Zenon DEF OpToRel
<1>3. \A i, j \in Nat : <<i, j>> \in below <=> i < j
  OBVIOUS
<1> HIDE DEF below, gaps
<1>4. PICK g \in gaps : \A f \in gaps : <<f, g>> \notin below
  BY <1>1, <1>2, WFMin
<1>5. \A f \in gaps : ~(f < g)
  BY <1>1, <1>3, <1>4
<1>6. PICK x \in S : g = n - x.id
  BY DEF gaps
<1>7. \A y \in S : n - y.id \in gaps
  BY DEF gaps
<1>8. \A y \in S : y.id <= x.id
  BY <1>5, <1>6, <1>7
<1>9. QED BY <1>8 DEF Newest

\* Part of a store is no larger; without its newest records it is smaller.
LEMMA PartSize ==
    ASSUME NEW S, IsFiniteSet(S), NEW T, T \subseteq S
    PROVE  /\ IsFiniteSet(T) /\ Cardinality(T) \in Nat /\ Cardinality(S) \in Nat
           /\ Cardinality(T) <= Cardinality(S)
           /\ T # S => Cardinality(T) + 1 <= Cardinality(S)
BY FS_Subset, FS_CardinalityType

LEMMA OneMore ==
    ASSUME NEW S, IsFiniteSet(S), NEW r
    PROVE  /\ IsFiniteSet(S \cup {r}) /\ Cardinality(S \cup {r}) \in Nat
           /\ Cardinality(S \cup {r}) <= Cardinality(S) + 1
<1>1. IsFiniteSet(S \cup {r})
  BY FS_AddElement, Zenon
<1>2. Cardinality(S) \in Nat /\ Cardinality(S \cup {r}) \in Nat
  BY <1>1, FS_CardinalityType
<1>3. CASE r \in S
  <2>1. Cardinality(S \cup {r}) = Cardinality(S)
    BY <1>3, FS_AddElement, Zenon
  <2>2. QED BY <1>1, <1>2, <2>1
<1>4. CASE r \notin S
  <2>1. Cardinality(S \cup {r}) = Cardinality(S) + 1
    BY <1>4, FS_AddElement, Zenon
  <2>2. QED BY <1>1, <1>2, <2>1
<1>5. QED BY <1>3, <1>4

\* An append, with what it wastes of the last line, adds one record's bulk.
LEMMA AppendedSize ==
    ASSUME NEW S, IsFiniteSet(S), NEW r, NEW tail \in {"ok", "cut", "bare"},
           tail = "bare" => Newest(S) # {}
    PROVE  /\ IsFiniteSet(Appended(S, tail, r))
           /\ Cardinality(Appended(S, tail, r)) + Wasted(tail) <= Cardinality(S) + 1
<1>0. Cardinality(S) \in Nat
  BY FS_CardinalityType
<1>1. CASE tail = "ok"
  <2>1. Appended(S, tail, r) = S \cup {r} /\ Wasted(tail) = 0
    BY <1>1 DEF Appended, Wasted
  <2>2. /\ IsFiniteSet(S \cup {r}) /\ Cardinality(S \cup {r}) \in Nat
        /\ Cardinality(S \cup {r}) <= Cardinality(S) + 1
    BY OneMore
  <2>3. QED BY <1>0, <2>1, <2>2
<1>2. CASE tail = "cut"
  <2>1. Appended(S, tail, r) = S /\ Wasted(tail) = 1
    BY <1>2 DEF Appended, Wasted
  <2>2. QED BY <1>0, <2>1
<1>3. CASE tail = "bare"
  <2>1. Appended(S, tail, r) = S \ Newest(S) /\ Wasted(tail) = 2
    BY <1>3 DEF Appended, Wasted
  <2>2. S \ Newest(S) # S /\ S \ Newest(S) \subseteq S
    BY <1>3 DEF Newest
  <2> HIDE DEF Newest
  <2>3. /\ IsFiniteSet(S \ Newest(S)) /\ Cardinality(S \ Newest(S)) \in Nat
        /\ Cardinality(S \ Newest(S)) + 1 <= Cardinality(S)
    BY <2>2, PartSize
  <2>4. QED BY <1>0, <2>1, <2>3
<1>4. QED BY <1>1, <1>2, <1>3

\* The strengthening: a last record that lacks its newline is there.
SizeInv ==
    /\ IsFiniteSet(pend) /\ StoreBounded
    /\ tailP = "bare" => pend # {}

\* What a step other than an append does to the pending store.
Shrinks ==
    \/ UNCHANGED <<pend, tailP, junk>>
    \/ pend' \subseteq pend /\ junk' = 0 /\ (tailP' = "bare" => pend' # {})

LEMMA ShrinksKeepsSize ==
    ASSUME TypeOK, SizeInv, Shrinks
    PROVE  SizeInv'
<1>1. CASE UNCHANGED <<pend, tailP, junk>>
  BY <1>1 DEF SizeInv, StoreBounded, Bytes
<1>2. CASE pend' \subseteq pend /\ junk' = 0 /\ (tailP' = "bare" => pend' # {})
  <2>1. /\ IsFiniteSet(pend') /\ Cardinality(pend') \in Nat /\ Cardinality(pend) \in Nat
        /\ Cardinality(pend') <= Cardinality(pend)
    BY <1>2, PartSize DEF SizeInv
  <2>2. Cardinality(pend') + junk' <= MaxBytes + 1
    BY <1>2, <2>1, NumbersAssumption DEF SizeInv, StoreBounded, Bytes, TypeOK
  <2>3. QED BY <1>2, <2>1, <2>2 DEF SizeInv, StoreBounded, Bytes
<1>3. QED BY <1>1, <1>2 DEF Shrinks

\* What an append finds: no more than was there, with a last record where one
\* lacks its newline.
LEMMA BaseSize ==
    ASSUME StoreInv, SizeInv, NEW h \in Hooks, lock["P"] = h, NEW budget \in BOOLEAN
    PROVE  LET base == Base(h, budget)
           IN  /\ base.recs \subseteq pend /\ IsFiniteSet(base.recs)
               /\ base.tail \in {"ok", "cut", "bare"} /\ base.bulk \in Nat
               /\ Cardinality(base.recs) \in Nat
               /\ Cardinality(base.recs) + base.bulk <= MaxBytes + 1
               /\ base.tail = "bare" => base.recs # {} /\ Newest(base.recs) # {}
<1> DEFINE base == Base(h, budget)
<1>1. base.recs \subseteq pend /\ base.tail \in {"ok", "cut", "bare"} /\ base.bulk \in Nat
  BY BaseBound DEF StoreInv
<1>2. \/ base.recs = pend /\ base.tail = tailP /\ base.bulk = junk
      \/ base.tail = "ok" /\ base.bulk = 0
  BY DEF Base
<1> HIDE DEF base
<1>3. /\ IsFiniteSet(base.recs) /\ Cardinality(base.recs) \in Nat
      /\ Cardinality(pend) \in Nat /\ Cardinality(base.recs) <= Cardinality(pend)
  BY <1>1, PartSize DEF SizeInv
<1>4. Cardinality(base.recs) + base.bulk <= MaxBytes + 1
  BY <1>1, <1>2, <1>3, NumbersAssumption DEF SizeInv, StoreBounded, Bytes, StoreInv, TypeOK
<1>5. \A x \in base.recs : x.id \in Nat /\ x.id < nextId
  BY <1>1 DEF StoreInv, FreshInv, IdInv, TypeOK, PendRec
<1>6. base.tail = "bare" => base.recs # {}
  BY <1>2 DEF SizeInv
<1>7. base.tail = "bare" => Newest(base.recs) # {}
  BY <1>5, <1>6, NewestExists DEF StoreInv, TypeOK
<1>8. QED BY <1>1, <1>3, <1>4, <1>6, <1>7 DEF base

LEMMA RecordSize ==
    ASSUME StoreInv, SizeInv, NEW h \in Hooks, Record(h)
    PROVE  SizeInv'
<1>1. lock["P"] = h
  BY DEF Record
<1>2. PICK budget \in BOOLEAN :
         LET base == Base(h, budget)
         IN  \/ Refused(base) /\ pend' = base.recs /\ tailP' = base.tail /\ junk' = base.bulk
             \/ /\ ~Refused(base) /\ tailP' = "ok"
                /\ pend' = Appended(base.recs, base.tail, NewRecord(h))
                /\ junk' = base.bulk + Wasted(base.tail)
  BY DEF Record
<1> DEFINE base == Base(h, budget)
<1>3. /\ base.recs \subseteq pend /\ IsFiniteSet(base.recs)
      /\ base.tail \in {"ok", "cut", "bare"} /\ base.bulk \in Nat
      /\ Cardinality(base.recs) \in Nat
      /\ Cardinality(base.recs) + base.bulk <= MaxBytes + 1
      /\ base.tail = "bare" => base.recs # {} /\ Newest(base.recs) # {}
  BY <1>1, BaseSize
<1> HIDE DEF base
<1>4. CASE pend' = base.recs /\ tailP' = base.tail /\ junk' = base.bulk
  BY <1>3, <1>4 DEF SizeInv, StoreBounded, Bytes
<1>5. CASE /\ ~Refused(base) /\ tailP' = "ok"
           /\ pend' = Appended(base.recs, base.tail, NewRecord(h))
           /\ junk' = base.bulk + Wasted(base.tail)
  <2>1. /\ IsFiniteSet(pend') /\ Cardinality(pend') \in Nat
        /\ Cardinality(pend') + Wasted(base.tail) <= Cardinality(base.recs) + 1
    BY <1>3, <1>5, AppendedSize, FS_CardinalityType
  <2>2. Cardinality(base.recs) + base.bulk <= MaxBytes
    BY <1>3, <1>5, NumbersAssumption DEF Refused, Bytes
  <2>3. Wasted(base.tail) \in Nat
    BY <1>3 DEF Wasted
  <2>4. Cardinality(pend') + junk' <= MaxBytes + 1
    BY <1>3, <1>5, <2>1, <2>2, <2>3, NumbersAssumption
  <2>5. QED BY <1>5, <2>1, <2>4 DEF SizeInv, StoreBounded, Bytes
<1>6. QED BY <1>2, <1>4, <1>5 DEF base

\* An append cut short leaves no more behind than a whole one.
LEMMA CutAppendSize ==
    ASSUME StoreInv, SizeInv, NEW p \in Hooks, lock["P"] = p, NEW budget \in BOOLEAN,
           ~Refused(Base(p, budget)),
           NEW x \in PartialAppend(Base(p, budget).recs, Base(p, budget).tail, NewRecord(p)),
           pend' = x[1], tailP' = x[2],
           junk' = Base(p, budget).bulk + (IF Base(p, budget).tail = "bare" THEN 1 ELSE 0)
    PROVE  SizeInv'
<1> DEFINE base == Base(p, budget)
           lines == base.recs
<1>1. /\ IsFiniteSet(lines) /\ Cardinality(lines) \in Nat
      /\ base.tail \in {"ok", "cut", "bare"} /\ base.bulk \in Nat
      /\ base.tail = "bare" => Newest(lines) # {}
  BY BaseSize
<1>2. Cardinality(lines) + base.bulk <= MaxBytes
  BY <1>1, NumbersAssumption DEF Refused, Bytes
<1>3. junk' = base.bulk + (IF base.tail = "bare" THEN 1 ELSE 0)
  OBVIOUS
<1>4. \/ base.tail = "bare" /\ pend' = lines \ Newest(lines) /\ tailP' = "cut"
      \/ base.tail # "bare" /\ pend' = lines /\ tailP' = "cut"
      \/ base.tail = "ok" /\ pend' = lines \cup {NewRecord(p)} /\ tailP' = "bare"
  BY DEF PartialAppend
<1> HIDE DEF base, lines
<1>5. CASE base.tail = "bare" /\ pend' = lines \ Newest(lines) /\ tailP' = "cut"
  <2>1. pend' \subseteq lines
    BY <1>5
  <2>2. IsFiniteSet(pend') /\ Cardinality(pend') \in Nat /\ Cardinality(pend') <= Cardinality(lines)
    BY <1>1, <2>1, PartSize
  <2>3. Cardinality(pend') + junk' <= MaxBytes + 1
    BY <1>1, <1>2, <1>3, <1>5, <2>2, NumbersAssumption
  <2>4. QED BY <1>5, <2>2, <2>3 DEF SizeInv, StoreBounded, Bytes
<1>6. CASE base.tail # "bare" /\ pend' = lines /\ tailP' = "cut"
  BY <1>1, <1>2, <1>3, <1>6, NumbersAssumption DEF SizeInv, StoreBounded, Bytes
<1>7. CASE base.tail = "ok" /\ pend' = lines \cup {NewRecord(p)} /\ tailP' = "bare"
  <2>1. IsFiniteSet(pend') /\ Cardinality(pend') \in Nat /\ Cardinality(pend') <= Cardinality(lines) + 1
    BY <1>1, <1>7, OneMore
  <2>2. Cardinality(pend') + junk' <= MaxBytes + 1
    BY <1>1, <1>2, <1>3, <1>7, <2>1, NumbersAssumption
  <2>3. pend' # {}
    BY <1>7
  <2>4. QED BY <2>1, <2>2, <2>3 DEF SizeInv, StoreBounded, Bytes
<1>8. QED BY <1>4, <1>5, <1>6, <1>7

LEMMA InterruptSize ==
    ASSUME StoreInv, SizeInv, NEW p \in Procs, InterruptPend(p)
    PROVE  SizeInv'
<1>1. lock["P"] = p /\ op[p] \in PendOps /\ Holds(p) /\ StoreOf(op[p]) = "P"
  BY DEF InterruptPend, Holds, StoreOf
<1>2. ASSUME NEW S \in PendRewrites(p), NEW T \in SUBSET S, NEW tail \in {"ok", "cut", "bare"},
             Partial(S, T, tail), pend' = T, tailP' = tail, junk' = 0
      PROVE  SizeInv'
  <2>1. S \subseteq pend
    BY <1>1, RewriteBound DEF StoreInv
  <2>2. Shrinks
    BY <1>2, <2>1 DEF Shrinks, Partial
  <2>3. QED BY <2>2, ShrinksKeepsSize DEF StoreInv
<1>3. ASSUME op[p] = "record", NEW budget \in BOOLEAN, ~Refused(Base(p, budget)),
             NEW x \in PartialAppend(Base(p, budget).recs, Base(p, budget).tail, NewRecord(p)),
             pend' = x[1], tailP' = x[2],
             junk' = Base(p, budget).bulk + (IF Base(p, budget).tail = "bare" THEN 1 ELSE 0)
      PROVE  SizeInv'
  <2>1. p \in Hooks
    BY <1>3 DEF StoreInv, TypeOK, Procs, CliOps
  <2>2. QED BY <1>1, <1>3, <2>1, CutAppendSize
<1>4. QED BY <1>2, <1>3 DEF InterruptPend

\* Everything but an append shrinks the pending store or leaves it alone.
LEMMA OthersShrink ==
    ASSUME StoreInv, [Next]_vars,
           \A h \in Hooks : ~Record(h), \A p \in Procs : ~InterruptPend(p)
    PROVE  Shrinks
<1>1. \A p \in Procs : lock["P"] = p => view[p] \subseteq pend
  BY LoadedView DEF StoreInv
<1>2. ASSUME NEW h \in Hooks, HookStep(h) PROVE Shrinks
  BY <1>2 DEF HookStep, HookStart, Acquire, Match, SkipRecord, Publish, Shrinks, files
<1>3. ASSUME NEW c \in Clis, CliStep(c) PROVE Shrinks
  <2>1. lock["P"] = c => view[c] \subseteq pend
    BY <1>1 DEF Procs
  <2>2. Lookup(c) \/ Drop(c) => Shrinks
    BY <2>1 DEF Lookup, Drop, RewritePend, Shrinks
  <2>3. ClearPend(c) => Shrinks
    BY <2>1 DEF ClearPend, RewritePend, Shrinks
  <2>4. Redeem(c) \/ Revoke(c) \/ Clear(c) \/ Decline(c) \/ Acquire(c) => Shrinks
    BY DEF Redeem, Revoke, Clear, CliStart, Decline, Acquire, Shrinks, files
  <2>5. Add(c) \/ SeeP(c) \/ SeeG(c) \/ RevokeGrants(c) \/ ClearGrants(c) => Shrinks
    BY DEF Add, SeeP, SeeG, RevokeGrants, ClearGrants, Shrinks, files
  <2>6. QED BY <1>3, <2>2, <2>3, <2>4, <2>5 DEF CliStep
<1>4. ASSUME NEW p \in Procs, InterruptGrants(p) PROVE Shrinks
  BY <1>4 DEF InterruptGrants, Shrinks
<1>5. Tick \/ AllQuiet \/ UNCHANGED vars => Shrinks
  BY DEF Tick, AllQuiet, vars, Shrinks, files
<1>6. QED BY <1>2, <1>3, <1>4, <1>5 DEF Next

\* The live pending file exceeds its cap by one record at most, junk and
\* interrupted writes included (the refusal of record_block_locked).
THEOREM StoreWithinCap == Spec => []StoreBounded
<1>1. Init => SizeInv
  BY FS_EmptySet, NumbersAssumption DEF Init, SizeInv, StoreBounded, Bytes
<1>2. StoreInv /\ SizeInv /\ [Next]_vars => SizeInv'
  <2> SUFFICES ASSUME StoreInv, SizeInv, [Next]_vars PROVE SizeInv'
    OBVIOUS
  <2>1. CASE \E h \in Hooks : Record(h)
    BY <2>1, RecordSize
  <2>2. CASE \E p \in Procs : InterruptPend(p)
    BY <2>2, InterruptSize
  <2>3. CASE ~(\E h \in Hooks : Record(h)) /\ ~(\E p \in Procs : InterruptPend(p))
    BY <2>3, OthersShrink, ShrinksKeepsSize DEF StoreInv
  <2>4. QED BY <2>1, <2>2, <2>3
<1>3. SizeInv => StoreBounded
  BY DEF SizeInv
<1>4. QED BY <1>1, <1>2, <1>3, StoreInvariant, PTL DEF Spec

-------------------------------------------------------------------------------
(* A code that was displayed stays redeemable                              *)

\* A record is where a redeem finds it, or gone for a reason.
Survives(r) ==
    r \in pend \/ PendExpired(r, clock) \/ r.id \in retired \/ r \in archive

\* Without a write cut short every line ends with its newline, and the codes
\* that are displayed or about to be survive.
CodeInv ==
    crashes = 0 =>
        /\ tailP = "ok"
        /\ \A r \in shown : Survives(r)
        /\ \A h \in Hooks : \A r \in issue[h] : Survives(r)

\* No process works with a time ahead of the clock.
TimesInv == \A p \in Procs : now[p] <= clock

LEMMA StepTimes ==
    ASSUME TypeOK, TimesInv, [Next]_vars
    PROVE  TimesInv' /\ clock <= clock'
<1> USE SlotsAssumption
<1>1. /\ clock \in Nat /\ now \in [Procs -> Nat] /\ clock <= clock' /\ clock' \in Nat
  <2>1. clock \in Nat /\ now \in [Procs -> Nat]
    BY DEF TypeOK, Time
  <2>2. \A h \in Hooks : HookStep(h) => clock' = clock
    BY DEF HookStep, HookStart, Acquire, Match, SkipRecord, Record, Publish
  <2>3. \A c \in Clis : CliStep(c) => clock' = clock
    <3>1. \A c \in Clis : Redeem(c) \/ Revoke(c) \/ Clear(c) \/ Decline(c) \/ Acquire(c)
                          \/ Lookup(c) => clock' = clock
      BY DEF Redeem, Revoke, Clear, CliStart, Decline, Acquire, Lookup
    <3>2. \A c \in Clis : Add(c) \/ Drop(c) \/ SeeP(c) \/ SeeG(c) \/ RevokeGrants(c)
                          \/ ClearPend(c) \/ ClearGrants(c) => clock' = clock
      BY DEF Add, Drop, SeeP, SeeG, RevokeGrants, ClearPend, ClearGrants
    <3>3. QED BY <3>1, <3>2 DEF CliStep
  <2>4. \A p \in Procs : InterruptPend(p) \/ InterruptGrants(p) => clock' = clock
    BY DEF InterruptPend, InterruptGrants
  <2>5. AllQuiet \/ UNCHANGED vars => clock' = clock
    BY DEF AllQuiet, vars
  <2>6. Tick => clock' = clock + 1
    BY DEF Tick
  <2>7. clock' = clock \/ clock' = clock + 1
    BY <2>2, <2>3, <2>4, <2>5, <2>6 DEF Next
  <2>8. QED BY <2>1, <2>7
<1>2. \A p \in Procs : \A n : Goto(p, n) => now' = now \/ now' = [now EXCEPT ![p] = 0]
  BY DEF Goto, local
<1>3. \/ now' = now
      \/ \E p \in Procs : \E t \in {0, clock, now[p]} : now' = [now EXCEPT ![p] = t]
  <2>1. ASSUME NEW h \in Hooks, HookStep(h)
        PROVE  now' = now \/ \E t \in {0, clock, now[h]} : now' = [now EXCEPT ![h] = t]
    <3>1. HookStart(h) \/ Record(h) => now' = now \/ now' = [now EXCEPT ![h] = clock]
      BY DEF HookStart, Record
    <3>2. Match(h) \/ SkipRecord(h) \/ Publish(h) => now' = now \/ now' = [now EXCEPT ![h] = 0]
      BY <1>2 DEF Match, SkipRecord, Publish, Release, Procs
    <3>3. Acquire(h) => \E t \in {clock, now[h]} : now' = [now EXCEPT ![h] = t]
      BY DEF Acquire
    <3>4. QED BY <2>1, <3>1, <3>2, <3>3 DEF HookStep
  <2>2. ASSUME NEW c \in Clis, CliStep(c)
        PROVE  now' = now \/ \E t \in {0, clock, now[c]} : now' = [now EXCEPT ![c] = t]
    <3>1. Redeem(c) \/ Revoke(c) \/ Clear(c) => now' = [now EXCEPT ![c] = clock]
      BY DEF Redeem, Revoke, Clear, CliStart
    <3>2. Acquire(c) => \E t \in {clock, now[c]} : now' = [now EXCEPT ![c] = t]
      BY DEF Acquire
    <3>3. Decline(c) \/ Lookup(c) \/ SeeP(c) \/ SeeG(c)
            => now' = now \/ now' = [now EXCEPT ![c] = 0]
      BY <1>2 DEF Decline, Lookup, SeeP, SeeG, local, Procs
    <3>4. Add(c) \/ Drop(c) \/ RevokeGrants(c) \/ ClearPend(c) \/ ClearGrants(c)
            => now' = now \/ now' = [now EXCEPT ![c] = 0]
      BY <1>2 DEF Add, Drop, RevokeGrants, ClearPend, ClearGrants, Release, Procs
    <3>5. QED BY <2>2, <3>1, <3>2, <3>3, <3>4 DEF CliStep
  <2>3. ASSUME NEW p \in Procs, InterruptPend(p) \/ InterruptGrants(p)
        PROVE  now' = now \/ now' = [now EXCEPT ![p] = 0]
    BY <1>2, <2>3 DEF InterruptPend, InterruptGrants, Fail, Release
  <2>4. Tick \/ AllQuiet \/ UNCHANGED vars => now' = now
    BY DEF Tick, AllQuiet, vars, local
  <2>5. QED BY <2>1, <2>2, <2>3, <2>4 DEF Next, Procs
<1>4. QED BY <1>1, <1>3 DEF TimesInv

\* What a holder did not load, had expired.
LEMMA NotLoaded ==
    ASSUME StoreInv, TimesInv, NEW p \in Procs, lock["P"] = p, NEW r \in pend \ view[p]
    PROVE  PendExpired(r, clock)
<1>1. PendExpired(r, now[p])
  BY DEF StoreInv, ViewInv, ActivePend
<1>2. now[p] <= clock /\ now[p] \in Nat /\ clock \in Nat /\ r.hash.at \in Nat
  BY DEF TimesInv, StoreInv, TypeOK, Time, PendRec, Hash
<1>3. QED BY <1>1, <1>2, NumbersAssumption DEF PendExpired

\* Nothing survives less for a later clock, unless the store loses it.
LEMMA SurvivesLater ==
    ASSUME StoreInv, clock' \in Nat, clock <= clock', retired \subseteq retired',
           archive \subseteq archive', NEW r \in PendRec, Survives(r),
           r \in pend => Survives(r)'
    PROVE  Survives(r)'
<1>1. r.hash.at \in Nat /\ clock \in Nat
  BY DEF StoreInv, TypeOK, Time, PendRec, Hash
<1>2. PendExpired(r, clock) => PendExpired(r, clock')
  BY <1>1, NumbersAssumption DEF PendExpired
<1>3. QED BY <1>2 DEF Survives, PendExpired

\* What maintenance takes out, or a rewrite leaves behind, is accounted for.
LEMMA RecordSurvives ==
    ASSUME StoreInv, TimesInv, tailP = "ok", NEW h \in Hooks, Record(h)
    PROVE  /\ tailP' = "ok"
           /\ \A r \in pend : Survives(r)'
           /\ \A g \in Hooks : \A r \in issue'[g] : r \in issue[g] \/ r \in pend'
<1>1. lock["P"] = h /\ h \in Procs /\ clock' = clock /\ retired' = retired
  BY DEF Record, Procs
<1>2. PICK budget \in BOOLEAN :
         LET base == Base(h, budget)
         IN  /\ archive' = archive \cup Rotated(h, base.recs)
             /\ \/ /\ pend' = base.recs /\ tailP' = base.tail
                   /\ UNCHANGED issue
                \/ /\ pend' = Appended(base.recs, base.tail, NewRecord(h))
                   /\ tailP' = "ok"
                   /\ issue' = [issue EXCEPT ![h] = {NewRecord(h)}]
  BY DEF Record
<1> DEFINE base == Base(h, budget)
<1>3. base.tail = "ok" /\ (base.recs = pend \/ base.recs = Kept(h, budget))
  BY DEF Base
<1> HIDE DEF base
<1>4. archive' = archive \cup Rotated(h, base.recs) /\ tailP' = "ok"
  BY <1>2, <1>3 DEF base
<1>5. \/ pend' = base.recs /\ issue' = issue
      \/ pend' = base.recs \cup {NewRecord(h)} /\ issue' = [issue EXCEPT ![h] = {NewRecord(h)}]
  BY <1>2, <1>3 DEF base, Appended
<1>6. \A r \in pend : r \in base.recs \/ PendExpired(r, clock) \/ r \in Rotated(h, base.recs)
  <2>1. CASE base.recs = pend
    BY <2>1
  <2>2. CASE base.recs # pend
    BY <1>1, <2>2, NotLoaded DEF Rotated
  <2>3. QED BY <2>1, <2>2
<1>7. \A r \in pend : Survives(r)'
  BY <1>1, <1>4, <1>5, <1>6 DEF Survives, PendExpired
<1>8. \A g \in Hooks : \A r \in issue'[g] : r \in issue[g] \/ r \in pend'
  BY <1>5 DEF StoreInv, TypeOK
<1>9. QED BY <1>4, <1>7, <1>8

\* A CLI process that writes the pending store retires what it removes.
LEMMA CliSurvives ==
    ASSUME StoreInv, TimesInv, tailP = "ok", NEW c \in Clis, CliStep(c)
    PROVE  /\ tailP' = "ok" /\ UNCHANGED <<clock, archive, issue, shown>>
           /\ retired \subseteq retired' /\ \A r \in pend : Survives(r)'
<1> USE SlotsAssumption
<1>1. c \in Procs /\ c \notin Hooks
  BY DEF Procs
<1>2. lock["P"] = c => \A r \in pend : r \in view[c] \/ PendExpired(r, clock)
  BY <1>1, NotLoaded
<1>3. \A n : Goto(c, n) => issue' = issue
  BY <1>1 DEF Goto, local
<1>4. CASE Redeem(c) \/ Revoke(c) \/ Clear(c) \/ Decline(c) \/ Acquire(c) \/ SeeP(c) \/ SeeG(c)
  <2>1. UNCHANGED <<clock, archive, pend, tailP, retired, shown>>
    BY <1>4 DEF Redeem, Revoke, Clear, CliStart, Decline, Acquire, SeeP, SeeG, files, hist
  <2>2. issue' = issue
    BY <1>3, <1>4 DEF Redeem, Revoke, Clear, CliStart, Decline, Acquire, SeeP, SeeG, local
  <2>3. QED BY <2>1, <2>2 DEF Survives
<1>5. CASE Add(c) \/ RevokeGrants(c) \/ ClearGrants(c)
  <2>1. UNCHANGED <<clock, archive, pend, tailP, shown>> /\ retired \subseteq retired'
    BY <1>5 DEF Add, RevokeGrants, ClearGrants
  <2>2. issue' = issue
    BY <1>3, <1>5 DEF Add, RevokeGrants, ClearGrants, Release
  <2>3. QED BY <2>1, <2>2 DEF Survives
<1>6. CASE Lookup(c)
  <2>1. UNCHANGED <<clock, archive, retired, shown, issue>> /\ lock["P"] = c
    BY <1>3, <1>6 DEF Lookup, hist
  <2>2. tailP' = "ok" /\ (pend' = pend \/ pend' = view[c])
    BY <1>6 DEF Lookup, RewritePend
  <2>3. QED BY <1>2, <2>1, <2>2 DEF Survives, PendExpired
<1>7. CASE Drop(c)
  <2>1. UNCHANGED <<clock, archive, shown, issue>> /\ lock["P"] = c
    BY <1>3, <1>7 DEF Drop, Release
  <2>2. /\ tailP' = "ok" /\ (pend' = pend \/ pend' = view[c] \ Removed(c))
        /\ retired' = retired \cup {r.id : r \in Removed(c)}
    BY <1>7 DEF Drop, RewritePend
  <2>3. QED BY <1>2, <2>1, <2>2 DEF Survives, PendExpired
<1>8. CASE ClearPend(c)
  <2>1. UNCHANGED <<clock, archive, shown, issue>> /\ lock["P"] = c
    BY <1>3, <1>8 DEF ClearPend, Release
  <2>2. /\ tailP' = "ok" /\ retired \subseteq retired'
        /\ \A r \in view[c] : r \in pend' \/ r.id \in retired'
    <3>1. CASE "P" \in ask[c].wipe
      BY <1>8, <3>1 DEF ClearPend
    <3>2. CASE "P" \notin ask[c].wipe
      BY <1>8, <2>1, <3>2, <1>1, LoadedView DEF ClearPend, RewritePend, StoreInv
    <3>3. QED BY <3>1, <3>2
  <2>3. QED BY <1>2, <2>1, <2>2 DEF Survives, PendExpired
<1>9. QED BY <1>4, <1>5, <1>6, <1>7, <1>8 DEF CliStep

\* Writes cut short are counted.
LEMMA CrashesGrow ==
    ASSUME TypeOK, [Next]_vars, crashes' = 0
    PROVE  crashes = 0
<1>1. \A p \in Procs : ~InterruptPend(p) /\ ~InterruptGrants(p)
  BY DEF InterruptPend, InterruptGrants, TypeOK
<1>2. \A h \in Hooks : HookStep(h) => crashes' = crashes
  BY DEF HookStep, HookStart, Acquire, Match, SkipRecord, Record, Publish, count
<1>3. \A c \in Clis : CliStep(c) => crashes' = crashes
  BY DEF CliStep, Redeem, Revoke, Clear, CliStart, Decline, Acquire, Lookup, Add, Drop, SeeP,
         SeeG, RevokeGrants, ClearPend, ClearGrants, count
<1>4. Tick \/ AllQuiet \/ UNCHANGED vars => crashes' = crashes
  BY DEF Tick, AllQuiet, vars, count
<1>5. QED BY <1>1, <1>2, <1>3, <1>4 DEF Next

LEMMA StepSurvives ==
    ASSUME StoreInv, TimesInv, CodeInv, [Next]_vars, crashes' = 0
    PROVE  /\ crashes = 0 /\ tailP' = "ok"
           /\ \A r \in pend : Survives(r)'
           /\ retired \subseteq retired' /\ archive \subseteq archive'
           /\ \A h \in Hooks : \A r \in issue'[h] : r \in issue[h] \/ r \in pend'
           /\ \A r \in shown' : r \in shown \/ \E h \in Hooks : r \in issue[h]
<1> USE SlotsAssumption
<1>1. \A p \in Procs : ~InterruptPend(p) /\ ~InterruptGrants(p)
  BY DEF InterruptPend, InterruptGrants, StoreInv, TypeOK
<1>2. crashes = 0
  BY CrashesGrow DEF StoreInv
<1>3. tailP = "ok"
  BY <1>2 DEF CodeInv
<1>4. ASSUME NEW h \in Hooks, HookStep(h), ~Record(h)
      PROVE  /\ UNCHANGED <<pend, tailP, archive, clock, retired>>
             /\ \A g \in Hooks : issue'[g] \subseteq issue[g]
             /\ \A r \in shown' : r \in shown \/ \E g \in Hooks : r \in issue[g]
  <2>1. h \in Procs
    BY DEF Procs
  <2>2. \A n : Goto(h, n) => issue' = issue \/ issue' = [issue EXCEPT ![h] = {}]
    BY DEF Goto, local
  <2>3. issue' = issue \/ issue' = [issue EXCEPT ![h] = {}]
    BY <1>4, <2>2 DEF HookStep, HookStart, Acquire, Match, SkipRecord, Publish, Release
  <2>4. \A g \in Hooks : issue'[g] \subseteq issue[g]
    BY <2>3 DEF StoreInv, TypeOK
  <2>5. UNCHANGED <<pend, tailP, archive, clock, retired>>
    BY <1>4 DEF HookStep, HookStart, Acquire, Match, SkipRecord, Publish, files, hist
  <2>6. shown' = shown \/ shown' = shown \cup issue[h]
    BY <1>4 DEF HookStep, HookStart, Acquire, Match, SkipRecord, Publish, hist
  <2>7. QED BY <2>4, <2>5, <2>6
<1>5. CASE \E h \in Hooks : Record(h)
  <2>1. PICK h \in Hooks : Record(h)
    BY <1>5
  <2>2. retired' = retired /\ shown' = shown /\ archive \subseteq archive'
    BY <2>1 DEF Record
  <2>3. QED BY <1>2, <1>3, <2>1, <2>2, RecordSurvives
<1>6. CASE \E h \in Hooks : HookStep(h) /\ ~Record(h)
  BY <1>2, <1>3, <1>4, <1>6 DEF Survives
<1>7. CASE \E c \in Clis : CliStep(c)
  BY <1>2, <1>3, <1>7, CliSurvives
<1>8. CASE Tick \/ AllQuiet \/ UNCHANGED vars
  <2>1. UNCHANGED <<pend, tailP, archive, retired, issue, shown>>
    BY <1>8 DEF Tick, AllQuiet, vars, files, hist, local
  <2>2. QED BY <1>2, <1>3, <2>1 DEF Survives
<1>9. QED BY <1>1, <1>5, <1>6, <1>7, <1>8 DEF Next

\* Without a write cut short, a displayed code stays redeemable until it
\* expires, is used, revoked or cleared, or is rotated into the archive: no
\* two operations of the stores lose it between them.
THEOREM ShownCodesRedeemable == Spec => []ShownCodeRedeemable
<1> DEFINE Inv == TimesInv /\ CodeInv
<1>1. Init => Inv
  BY DEF Init, TimesInv, CodeInv
<1>2. StoreInv /\ Inv /\ [Next]_vars => Inv'
  <2> SUFFICES ASSUME StoreInv, TimesInv, CodeInv, [Next]_vars PROVE TimesInv' /\ CodeInv'
    OBVIOUS
  <2>1. TimesInv' /\ clock <= clock'
    BY StepTimes DEF StoreInv
  <2>2. TypeOK' /\ TypeOK
    BY StepTypes DEF StoreInv
  <2>3. ASSUME crashes' = 0
        PROVE  tailP' = "ok" /\ (\A r \in shown' : Survives(r)')
               /\ (\A h \in Hooks : \A r \in issue'[h] : Survives(r)')
    <3>1. /\ crashes = 0 /\ tailP' = "ok"
          /\ \A r \in pend : Survives(r)'
          /\ retired \subseteq retired' /\ archive \subseteq archive'
          /\ \A h \in Hooks : \A r \in issue'[h] : r \in issue[h] \/ r \in pend'
          /\ \A r \in shown' : r \in shown \/ \E h \in Hooks : r \in issue[h]
      BY <2>3, StepSurvives
    <3>2. \A r \in PendRec : Survives(r) => Survives(r)'
      BY <2>1, <2>2, <3>1, SurvivesLater DEF TypeOK, Time
    <3>3. \A h \in Hooks : \A r \in issue[h] : Survives(r)'
      BY <2>2, <3>1, <3>2 DEF CodeInv, TypeOK
    <3>4. \A r \in shown : Survives(r)'
      BY <2>2, <3>1, <3>2 DEF CodeInv, TypeOK
    <3>5. \A r \in pend' : Survives(r)'
      BY DEF Survives
    <3>6. QED BY <3>1, <3>3, <3>4, <3>5
  <2>4. QED BY <2>1, <2>3 DEF CodeInv
<1>3. CodeInv => ShownCodeRedeemable
  BY DEF CodeInv, ShownCodeRedeemable, Survives
<1>4. QED BY <1>1, <1>2, <1>3, StoreInvariant, PTL DEF Spec

-------------------------------------------------------------------------------
(* One code, one command: redeems one after another                        *)

\* A hash that at most one record was given.
Once(hash) == \A q, r \in recorded : q.hash = hash /\ r.hash = hash => q = r

\* How a CLI process comes to and through the two halves of a redeem: the
\* record it selected, the grant it adds, the removal of the record.
Redeems(c) ==
    /\ op'[c] = "add" => \/ op[c] = "add" /\ sel'[c] = sel[c]
                         \/ op[c] = "lookup" /\ \E r \in pend : sel'[c].hash = r.hash
    /\ op'[c] = "drop" => op[c] \in {"add", "drop"} /\ sel'[c] = sel[c]
    /\ op[c] = "add" /\ op'[c] = "drop" => Creates(c)
    /\ op[c] = "drop" /\ op'[c] # "drop" => \A r \in pend' : r.hash # sel[c].hash

\* Another process changes nothing of it.
LEMMA NotMine ==
    ASSUME TypeOK, NEW p \in Procs, NEW n, Goto(p, n), NEW c \in Clis \ {p}
    PROVE  op'[c] = op[c] /\ sel'[c] = sel[c]
BY DEF Goto, TypeOK, Procs, local

LEMMA GotoRedeems ==
    ASSUME TypeOK, NEW p \in Procs, NEW n, n \notin {"add", "drop"}, Goto(p, n), op[p] # "drop",
           NEW c \in Clis
    PROVE  Redeems(c)
<1>1. CASE c = p
  <2>1. op'[c] = n
    BY <1>1 DEF Goto, TypeOK
  <2>2. QED BY <1>1, <2>1 DEF Redeems
<1>2. CASE c # p
  BY <1>2, NotMine DEF Redeems
<1>3. QED BY <1>1, <1>2

LEMMA LookupRedeems ==
    ASSUME TypeOK, ViewInv, NEW d \in Clis, Lookup(d), NEW c \in Clis
    PROVE  Redeems(c)
<1>1. d \in Procs /\ op[d] = "lookup" /\ view[d] \subseteq pend
  BY LoadedView DEF Lookup, Procs
<1>2. CASE Goto(d, "idle")
  BY <1>1, <1>2, GotoRedeems
<1>3. CASE ~Goto(d, "idle")
  <2>1. PICK r \in view[d] : sel' = [sel EXCEPT ![d] = [hash |-> r.hash, cfg |-> r.cfg]]
    BY <1>3 DEF Lookup, Oldest
  <2>2. op' = [op EXCEPT ![d] = "add"]
    BY <1>3 DEF Lookup
  <2>3. QED BY <1>1, <2>1, <2>2 DEF Redeems, TypeOK
<1>4. QED BY <1>2, <1>3

LEMMA AddRedeems ==
    ASSUME TypeOK, ViewInv, NEW d \in Clis, Add(d), NEW c \in Clis
    PROVE  Redeems(c) /\ Creates(d)
<1>1. d \in Procs /\ op[d] = "add" /\ Goto(d, "drop")
  BY DEF Add, Release, Procs
<1>2. Creates(d)
  <2>1. grants' \subseteq view[d] \cup {NewGrant(d)}
    BY AppendedBound DEF Add, TypeOK
  <2>2. view[d] \subseteq grants
    BY <1>1, LoadedView DEF Add
  <2>3. QED BY <2>1, <2>2 DEF Add, Creates
<1>3. op'[d] = "drop" /\ sel' = sel /\ \A b \in Clis \ {d} : op'[b] = op[b]
  BY <1>1 DEF Goto, TypeOK, local, Procs
<1>4. QED BY <1>1, <1>2, <1>3 DEF Redeems

LEMMA DropRedeems ==
    ASSUME TypeOK, ViewInv, NEW d \in Clis, Drop(d), NEW c \in Clis
    PROVE  Redeems(c)
<1>1. d \in Procs /\ op[d] \in {"drop", "revokeP"} /\ view[d] \subseteq pend
  BY LoadedView DEF Drop, Procs
<1>2. PICK n \in {"idle", "revokeG"} : Goto(d, n)
  BY DEF Drop, Release
<1>3. CASE op[d] # "drop" \/ c # d
  BY <1>1, <1>2, <1>3, GotoRedeems, NotMine DEF Redeems
<1>4. CASE op[d] = "drop" /\ c = d
  <2>1. op'[c] = n
    BY <1>1, <1>2, <1>4 DEF Goto, TypeOK
  <2>2. pend' = view[c] \ Removed(c)
    BY <1>4 DEF Drop, RewritePend
  <2>3. \A r \in pend' : r.hash # sel[c].hash
    BY <2>2 DEF Removed
  <2>4. QED BY <1>2, <1>4, <2>1, <2>3 DEF Redeems
<1>5. QED BY <1>3, <1>4

\* Without a write cut short, every step does so, and only an Add writes a grant.
LEMMA StepRedeems ==
    ASSUME TypeOK, ViewInv, [Next]_vars, crashes' = crashes, NEW c \in Clis
    PROVE  Redeems(c) /\ (created' = created \/ \E d \in Clis : Add(d))
<1> USE SlotsAssumption
<1>1. \A p \in Procs : ~InterruptPend(p) /\ ~InterruptGrants(p)
  BY DEF InterruptPend, InterruptGrants, TypeOK
<1>2. CASE UNCHANGED vars \/ Tick \/ AllQuiet
  BY <1>2 DEF Tick, AllQuiet, vars, local, hist, Redeems
<1>3. ASSUME NEW p \in Procs, Acquire(p) PROVE Redeems(c) /\ created' = created
  BY <1>3 DEF Acquire, Redeems, hist
<1>4. ASSUME NEW h \in Hooks, HookStep(h) PROVE Redeems(c) /\ created' = created
  <2>1. h \in Procs
    BY DEF Procs
  <2>2. CASE HookStart(h) \/ Record(h)
    BY <2>2 DEF HookStart, Record, Redeems, TypeOK, Procs, hist
  <2>3. CASE Match(h) \/ SkipRecord(h) \/ Publish(h)
    <3>1. created' = created /\ op[h] # "drop"
      BY <2>3 DEF Match, SkipRecord, Publish, hist
    <3>2. QED BY <2>1, <2>3, <3>1, GotoRedeems DEF Match, SkipRecord, Publish, Release
  <2>4. QED BY <1>3, <1>4, <2>1, <2>2, <2>3 DEF HookStep
<1>5. ASSUME NEW d \in Clis, CliStep(d) PROVE Redeems(c) /\ (created' = created \/ Add(d))
  <2>1. d \in Procs
    BY DEF Procs
  <2>2. CASE Redeem(d) \/ Revoke(d) \/ Clear(d)
    <3>1. /\ op[d] = "idle" /\ sel' = sel /\ created' = created
          /\ \E n \in {"lookup", "seeP", "clearP"} : op' = [op EXCEPT ![d] = n]
      BY <2>2 DEF Redeem, Revoke, Clear, CliStart, hist
    <3>2. QED BY <2>1, <3>1 DEF Redeems, TypeOK
  <2>3. CASE Decline(d) \/ RevokeGrants(d) \/ ClearPend(d) \/ ClearGrants(d)
    <3>1. created' = created /\ op[d] # "drop"
      BY <2>3 DEF Decline, RevokeGrants, ClearPend, ClearGrants, hist
    <3>2. QED BY <2>1, <2>3, <3>1, GotoRedeems
             DEF Decline, RevokeGrants, ClearPend, ClearGrants, Release
  <2>4. CASE SeeP(d)
    BY <2>1, <2>4 DEF SeeP, Redeems, TypeOK, local, hist
  <2>5. CASE SeeG(d)
    <3>1. created' = created /\ op[d] = "seeG"
      BY <2>5 DEF SeeG, hist
    <3>2. CASE Goto(d, "idle")
      BY <2>1, <3>1, <3>2, GotoRedeems
    <3>3. CASE ~Goto(d, "idle")
      <4>1. op' = [op EXCEPT ![d] = "revokeP"]
        BY <2>5, <3>3 DEF SeeG
      <4>2. \A b \in Clis \ {d} : sel'[b] = sel[b]
        BY <2>5, <3>3 DEF SeeG, TypeOK
      <4>3. QED BY <2>1, <3>1, <4>1, <4>2 DEF Redeems, TypeOK
    <3>4. QED BY <3>2, <3>3, <3>1
  <2>6. CASE Lookup(d)
    BY <2>6, LookupRedeems DEF Lookup, hist
  <2>7. CASE Drop(d)
    BY <2>7, DropRedeems DEF Drop
  <2>8. CASE Add(d)
    BY <2>8, AddRedeems
  <2>9. QED BY <1>3, <1>5, <2>1, <2>2, <2>3, <2>4, <2>5, <2>6, <2>7, <2>8 DEF CliStep
<1>6. QED BY <1>1, <1>2, <1>4, <1>5 DEF Next

\* A grant goes back to a record that was displayed; while the record's hash is
\* unique there is no second grant, and the record is gone from the store or
\* about to be removed by the process that added the grant.
RedeemInv ==
    /\ IsFiniteSet(recorded) /\ \A a \in approvals : a.entry \in created
    /\ \A e \in created : \E r \in recorded : r.hash = e.hash
    /\ \A c \in Clis : op[c] = "add" =>
          /\ \E r \in recorded : r.hash = sel[c].hash
          /\ Once(sel[c].hash) => \A e \in created : e.hash # sel[c].hash
    /\ \A d, e \in created : d.hash = e.hash /\ Once(e.hash) => d = e
    /\ \A e \in created, r \in pend : r.hash = e.hash /\ Once(e.hash) =>
          \E c \in Clis : op[c] = "drop" /\ sel[c].hash = e.hash

\* The CLI processes run one after another.
OneCli == \A c, d \in Clis : c = d

LEMMA RedeemStep ==
    ASSUME StoreInv, OneCli, RedeemInv, [Next]_vars, crashes' = crashes
    PROVE  RedeemInv'
<1>1. TypeOK /\ ViewInv /\ IdInv /\ StepKind
  BY Kinds DEF StoreInv
<1>2. \A c \in Clis : Redeems(c)
  BY <1>1, StepRedeems
<1>3. recorded \subseteq recorded' /\ created \subseteq created' /\ \A H : Once(H)' => Once(H)
  BY <1>1 DEF StepKind, Thins, Records, Creates, Approves, Once
<1>4. IsFiniteSet(recorded') /\ \A a \in approvals' : a.entry \in created'
  <2>1. IsFiniteSet(recorded')
    BY <1>1, FS_AddElement DEF StepKind, Thins, Records, Creates, Approves, RedeemInv
  <2>2. CASE approvals' = approvals
    BY <1>3, <2>1, <2>2 DEF RedeemInv
  <2>3. ASSUME NEW h \in Hooks, NEW e \in Grant, Approves(h, e) PROVE \A a \in approvals' : a.entry \in created'
    BY <1>1, <2>3 DEF Approves, RunBy, IdInv, RedeemInv
  <2>4. QED BY <1>1, <2>1, <2>2, <2>3 DEF StepKind, Thins, Records, Creates
\* The process is not in two places.
<1>5. ASSUME NEW c \in Clis, op[c] # "drop", NEW e \in created, NEW r \in pend, r.hash = e.hash
      PROVE  ~Once(e.hash)
  BY <1>5 DEF RedeemInv, OneCli
<1>6. CASE created' = created
  <2>1. \A e \in created' : \E r \in recorded' : r.hash = e.hash
    BY <1>3, <1>6 DEF RedeemInv
  <2>2. ASSUME NEW c \in Clis, op'[c] = "add"
        PROVE  /\ \E r \in recorded' : r.hash = sel'[c].hash
               /\ Once(sel[c].hash)' => \A e \in created' : e.hash # sel'[c].hash
    <3>1. CASE op[c] = "add" /\ sel'[c] = sel[c]
      BY <1>3, <1>6, <3>1 DEF RedeemInv
    <3>2. CASE op[c] = "lookup"
      <4>1. PICK r \in pend : sel'[c].hash = r.hash
        BY <1>2, <2>2, <3>2 DEF Redeems
      <4>2. r \in recorded'
        BY <1>1, <1>3 DEF IdInv
      <4>3. \A e \in created : e.hash = r.hash => ~Once(r.hash)
        BY <1>5, <3>2
      <4>4. QED BY <1>3, <1>6, <4>1, <4>2, <4>3
    <3>3. QED BY <1>2, <2>2, <3>1, <3>2 DEF Redeems
  <2>3. \A d, e : {d, e} \subseteq created' /\ d.hash = e.hash /\ Once(e.hash)' => d = e
    BY <1>3, <1>6 DEF RedeemInv
  <2>4. ASSUME NEW e, e \in created', NEW r, r \in pend', r.hash = e.hash, Once(e.hash)'
        PROVE  \E c \in Clis : op'[c] = "drop" /\ sel'[c].hash = e.hash
    <3>1. r \in pend
      <4>1. ASSUME NEW h \in Hooks, r = NewRecord(h), recorded' = recorded \cup {r} PROVE FALSE
        <5>1. PICK q \in recorded : q.hash = e.hash
          BY <1>6, <2>4 DEF RedeemInv
        <5>2. q = r
          BY <2>4, <4>1, <5>1 DEF Once
        <5>3. q.id < nextId /\ r.id = nextId /\ nextId \in Nat
          BY <1>1, <4>1 DEF StoreInv, FreshInv, NewRecord, TypeOK
        <5>4. QED BY <5>2, <5>3
      <4>2. QED BY <1>1, <2>4, <4>1 DEF StepKind, Thins, Records, Creates, Approves
    <3>2. PICK c \in Clis : op[c] = "drop" /\ sel[c].hash = e.hash
      BY <1>3, <1>6, <2>4, <3>1 DEF RedeemInv
    <3>3. op'[c] = "drop"
      BY <1>2, <2>4, <3>2 DEF Redeems
    <3>4. QED BY <1>2, <3>2, <3>3 DEF Redeems
  <2>5. QED BY <1>4, <2>1, <2>2, <2>3, <2>4 DEF RedeemInv
<1>7. ASSUME NEW d \in Clis, Add(d) PROVE RedeemInv'
  <2> DEFINE g == NewGrant(d)
  <2>1. Creates(d) /\ op[d] = "add" /\ op'[d] = "drop" /\ sel'[d] = sel[d]
    <3>1. Creates(d)
      BY <1>1, <1>7, AddRedeems
    <3>2. op[d] = "add" /\ Goto(d, "drop")
      BY <1>7 DEF Add, Release
    <3>3. QED BY <1>1, <3>1, <3>2 DEF Goto, TypeOK, Procs, local
  <2>2. created' = created \cup {g} /\ g.hash = sel[d].hash /\ UNCHANGED <<recorded, pend>>
    BY <2>1 DEF Creates, NewGrant
  <2> HIDE DEF g
  <2>3. \A c \in Clis : c = d /\ op'[c] # "add"
    BY <2>1 DEF OneCli
  <2>4. \A e \in created' : \E r \in recorded' : r.hash = e.hash
    BY <2>1, <2>2 DEF RedeemInv
  <2>5. \A H : Once(H)' = Once(H)
    BY <2>2 DEF Once
  <2>6. \A e, f : {e, f} \subseteq created' /\ e.hash = f.hash /\ Once(f.hash)' => e = f
    BY <2>1, <2>2, <2>5 DEF RedeemInv
  <2>7. \A e, r : e \in created' /\ r \in pend' /\ r.hash = e.hash /\ Once(e.hash)' =>
           \E c \in Clis : op'[c] = "drop" /\ sel'[c].hash = e.hash
    BY <1>5, <2>1, <2>2, <2>5
  <2>8. QED BY <1>4, <2>3, <2>4, <2>6, <2>7 DEF RedeemInv
<1>8. CASE Clis = {}
  <2>1. \A d : ~(d \in Clis)
    BY <1>8
  <2>2. created' = created
    BY <1>1, <2>1, <1>8 DEF StepKind, Thins, Records, Approves
  <2>3. QED BY <1>6, <2>2
<1>9. QED BY <1>1, <1>6, <1>7, <1>8, StepRedeems

\* Redeems that each end before the next starts keep what README.md:183 and
\* docs/allow-once-usage.md:63 promise, whatever hooks do meanwhile and until a
\* write is cut short: a code whose hash is its record's alone authorizes one
\* command (add_entry, then remove_by_full_hash).
THEOREM OneCommandWithOneCli == OneCli => (Spec => [](crashes = 0 => OneCommandPerCode))
<1> SUFFICES ASSUME OneCli PROVE Spec => [](crashes = 0 => OneCommandPerCode)
  OBVIOUS
<1> DEFINE Inv == crashes = 0 => RedeemInv
<1>1. Init => Inv
  BY FS_EmptySet DEF Init, RedeemInv, Procs
<1>2. StoreInv /\ Inv /\ [Next]_vars => Inv'
  <2> SUFFICES ASSUME StoreInv, Inv, [Next]_vars, crashes' = 0 PROVE RedeemInv'
    OBVIOUS
  <2>1. crashes = 0
    BY CrashesGrow DEF StoreInv
  <2>2. QED BY <2>1, RedeemStep
<1>3. StoreInv /\ Inv /\ SingleUseOnce => (crashes = 0 => OneCommandPerCode)
  <2> SUFFICES ASSUME StoreInv, RedeemInv, SingleUseOnce, NEW a \in approvals, NEW b \in approvals,
                      a.entry.hash = b.entry.hash, a.entry.single, b.entry.single,
                      Cardinality({r \in recorded : r.hash = a.entry.hash}) = 1
               PROVE  a = b
    BY DEF OneCommandPerCode
  <2>1. Once(a.entry.hash)
    <3>1. IsFiniteSet({r \in recorded : r.hash = a.entry.hash})
      BY FS_Subset DEF RedeemInv
    <3>2. PICK q : {r \in recorded : r.hash = a.entry.hash} = {q}
      BY <3>1, FS_Singleton
    <3>3. QED BY <3>2 DEF Once
  <2>2. a.entry = b.entry
    BY <2>1 DEF RedeemInv
  <2>3. QED BY <2>2 DEF SingleUseOnce
<1>4. QED BY <1>1, <1>2, <1>3, StoreInvariant, SingleUse, PTL DEF Spec

-------------------------------------------------------------------------------
(* Nobody waits for a process that waits, and every operation ends         *)

\* Operations that a process has ahead, the one it is at included.
Level(o) ==
    CASE o \in {"match", "lookup", "seeG"}     -> 3
      [] o \in {"record", "add", "revokeP", "clearP"} -> 2
      [] o \in {"publish", "drop", "revokeG", "clearG"} -> 1
      [] o = "seeP" -> 4
      [] o = "idle" -> 0
Holding(p) == op[p] \in PendOps \cup GrantOps /\ lock[StoreOf(op[p])] = p

\* Each takes its lock and ends.
Turns(p) == 2 * Level(op[p]) - (IF Holding(p) THEN 1 ELSE 0)

\* Whoever holds a store's lock works on that store: it holds no other lock,
\* and waits for none.
HoldersWork ==
    \A p \in Procs, s \in {"P", "G"} : lock[s] = p => Holding(p) /\ StoreOf(op[p]) = s

\* What a process does itself, a write of its own that is cut short included.
Moves(p) ==
    \/ p \in Hooks /\ HookStep(p)
    \/ p \in Clis /\ CliStep(p)
    \/ InterruptPend(p) \/ InterruptGrants(p)
Nears ==
    \A p \in Procs : op[p] # "idle" => /\ Turns(p)' <= Turns(p)
                                       /\ Moves(p) => Turns(p)' < Turns(p)

\* The steps of a process, as far as its operations and locks go.
Takes(p) ==
    /\ op[p] \in PendOps \cup GrantOps /\ op' = op
    /\ lock[StoreOf(op[p])] = None /\ lock' = [lock EXCEPT ![StoreOf(op[p])] = p]
Leaves(p) ==
    /\ \/ lock' = lock
       \/ lock[StoreOf(op[p])] = p /\ lock' = [lock EXCEPT ![StoreOf(op[p])] = None]
    /\ \E n \in HookOps \cup CliOps : op' = [op EXCEPT ![p] = n] /\ Level(n) < Level(op[p])
Starts(p) ==
    /\ op[p] = "idle" /\ lock' = lock
    /\ \E n \in HookOps \cup CliOps : op' = [op EXCEPT ![p] = n]

LEMMA Levels ==
    /\ \A o \in HookOps \cup CliOps : Level(o) \in 0..4 /\ (o # "idle" => Level(o) >= 1)
    /\ PendOps \cup GrantOps \subseteq HookOps \cup CliOps /\ "idle" \notin PendOps \cup GrantOps
BY DEF Level, HookOps, CliOps, PendOps, GrantOps

LEMMA GotoLeaves ==
    ASSUME NEW p \in Procs, NEW n \in HookOps \cup CliOps, Level(n) < Level(op[p]),
           Goto(p, n), lock' = lock
    PROVE  Leaves(p)
BY DEF Goto, Leaves

LEMMA ReleaseLeaves ==
    ASSUME NEW p \in Procs, NEW n \in HookOps \cup CliOps, Level(n) < Level(op[p]),
           Release(p, n), lock[StoreOf(op[p])] = p
    PROVE  Leaves(p)
BY DEF Release, Unlock, Goto, Leaves

LEMMA HookMoves ==
    ASSUME TypeOK, NEW h \in Hooks, HookStep(h)
    PROVE  Takes(h) \/ Leaves(h) \/ Starts(h)
<1>0. h \in Procs
  BY DEF Procs
<1>1. CASE HookStart(h)
  BY <1>1 DEF HookStart, Starts, HookOps
<1>2. CASE Acquire(h)
  BY <1>2 DEF Acquire, Takes
<1>3. CASE Match(h)
  <2>1. op[h] = "match" /\ lock[StoreOf(op[h])] = h /\ (Release(h, "idle") \/ Release(h, "record"))
    BY <1>3 DEF Match, StoreOf, PendOps
  <2>2. QED BY <1>0, <2>1, ReleaseLeaves DEF Level, HookOps
<1>4. CASE SkipRecord(h)
  BY <1>0, <1>4, GotoLeaves DEF SkipRecord, Level, HookOps
<1>5. CASE Record(h)
  <2>1. op[h] = "record" /\ lock[StoreOf(op[h])] = h /\ Unlock(h) /\ op' = [op EXCEPT ![h] = "publish"]
    BY <1>5 DEF Record, StoreOf, PendOps
  <2>2. Level("publish") < Level(op[h]) /\ "publish" \in HookOps \cup CliOps
    BY <2>1 DEF Level, HookOps
  <2>3. QED BY <2>1, <2>2 DEF Unlock, Leaves
<1>6. CASE Publish(h)
  BY <1>0, <1>6, GotoLeaves DEF Publish, Level, HookOps
<1>7. QED BY <1>1, <1>2, <1>3, <1>4, <1>5, <1>6 DEF HookStep

LEMMA CliMoves ==
    ASSUME TypeOK, NEW c \in Clis, CliStep(c)
    PROVE  Takes(c) \/ Leaves(c) \/ Starts(c)
<1>0. c \in Procs
  BY DEF Procs
<1>1. CASE Redeem(c) \/ Revoke(c) \/ Clear(c)
  BY <1>1 DEF Redeem, Revoke, Clear, CliStart, Starts, CliOps
<1>2. CASE Acquire(c)
  BY <1>2 DEF Acquire, Takes
<1>3. CASE Decline(c)
  BY <1>0, <1>3, GotoLeaves DEF Decline, Level, CliOps
<1>4. CASE Lookup(c)
  <2>1. op[c] = "lookup" /\ lock[StoreOf(op[c])] = c /\ Unlock(c)
        /\ (op' = [op EXCEPT ![c] = "add"] \/ Goto(c, "idle"))
    BY <1>4 DEF Lookup, StoreOf, PendOps
  <2>2. QED BY <2>1 DEF Unlock, Goto, Leaves, Level, CliOps
<1>5. CASE Add(c)
  <2>1. op[c] = "add" /\ lock[StoreOf(op[c])] = c /\ Release(c, "drop")
    BY <1>5 DEF Add, StoreOf, PendOps
  <2>2. QED BY <1>0, <2>1, ReleaseLeaves DEF Level, CliOps
<1>6. CASE Drop(c)
  <2>1. /\ op[c] \in {"drop", "revokeP"} /\ lock[StoreOf(op[c])] = c
        /\ Release(c, IF op[c] = "drop" THEN "idle" ELSE "revokeG")
    BY <1>6 DEF Drop, StoreOf, PendOps
  <2>2. CASE op[c] = "drop"
    BY <1>0, <2>1, <2>2, ReleaseLeaves DEF Level, CliOps
  <2>3. CASE op[c] = "revokeP"
    BY <1>0, <2>1, <2>3, ReleaseLeaves DEF Level, CliOps
  <2>4. QED BY <2>1, <2>2, <2>3
<1>7. CASE SeeP(c)
  <2>1. op[c] = "seeP" /\ lock' = lock /\ op' = [op EXCEPT ![c] = "seeG"]
    BY <1>7 DEF SeeP
  <2>2. Level("seeG") < Level(op[c]) /\ "seeG" \in HookOps \cup CliOps
    BY <2>1 DEF Level, CliOps
  <2>3. QED BY <2>1, <2>2 DEF Leaves
<1>8. CASE SeeG(c)
  <2>1. op[c] = "seeG" /\ lock' = lock /\ (op' = [op EXCEPT ![c] = "revokeP"] \/ Goto(c, "idle"))
    BY <1>8 DEF SeeG
  <2>2. QED BY <2>1 DEF Goto, Leaves, Level, CliOps
<1>9. CASE RevokeGrants(c)
  <2>1. op[c] = "revokeG" /\ lock[StoreOf(op[c])] = c /\ Release(c, "idle")
    BY <1>9 DEF RevokeGrants, StoreOf, PendOps
  <2>2. QED BY <1>0, <2>1, ReleaseLeaves DEF Level, CliOps
<1>10. CASE ClearPend(c)
  <2>1. op[c] = "clearP" /\ lock[StoreOf(op[c])] = c /\ Release(c, "clearG")
    BY <1>10 DEF ClearPend, StoreOf, PendOps
  <2>2. QED BY <1>0, <2>1, ReleaseLeaves DEF Level, CliOps
<1>11. CASE ClearGrants(c)
  <2>1. op[c] = "clearG" /\ lock[StoreOf(op[c])] = c /\ Release(c, "idle")
    BY <1>11 DEF ClearGrants, StoreOf, PendOps
  <2>2. QED BY <1>0, <2>1, ReleaseLeaves DEF Level, CliOps
<1>12. QED BY <1>1, <1>2, <1>3, <1>4, <1>5, <1>6, <1>7, <1>8, <1>9, <1>10, <1>11 DEF CliStep

LEMMA CutMoves ==
    ASSUME TypeOK, NEW p \in Procs, InterruptPend(p) \/ InterruptGrants(p)
    PROVE  Leaves(p)
<1>1. op[p] \in PendOps \cup GrantOps /\ lock[StoreOf(op[p])] = p /\ Fail(p)
  BY DEF InterruptPend, InterruptGrants, StoreOf, PendOps, GrantOps
<1>2. Level("idle") < Level(op[p]) /\ "idle" \in HookOps \cup CliOps
  BY <1>1, Levels DEF Level, HookOps, PendOps, GrantOps
<1>3. CASE Release(p, "idle")
  BY <1>1, <1>2, <1>3, ReleaseLeaves
<1>4. CASE p \in Hooks /\ op[p] = "match" /\ Release(p, "record")
  BY <1>1, <1>4, ReleaseLeaves DEF Level, HookOps
<1>5. CASE p \in Hooks /\ op[p] = "record" /\ Release(p, "publish")
  BY <1>1, <1>5, ReleaseLeaves DEF Level, HookOps
<1>6. p \in Hooks => op[p] \in {"match", "record"}
  BY <1>1 DEF TypeOK, HookOps, PendOps, GrantOps
<1>7. QED BY <1>1, <1>3, <1>4, <1>5, <1>6 DEF Fail

\* A step of one process, and what it is to it and to the others.
LEMMA NearsStep == TypeOK /\ ViewInv /\ [Next]_vars => Nears
<1> SUFFICES ASSUME TypeOK, ViewInv, [Next]_vars PROVE Nears
  OBVIOUS
<1>0. /\ None \notin Procs /\ op \in [Procs -> HookOps \cup CliOps]
      /\ DOMAIN lock = {"P", "G"} /\ \A o : StoreOf(o) \in {"P", "G"}
      /\ lock = [s \in {"P", "G"} |-> lock[s]]
  BY SlotsAssumption DEF TypeOK, Procs, StoreOf
<1>1. \A p \in Procs : Moves(p) => Takes(p) \/ Leaves(p) \/ Starts(p)
  BY HookMoves, CliMoves, CutMoves DEF Moves
<1>2. \A p \in Procs : Turns(p) \in Int
  BY <1>0, Levels DEF Turns
<1>6. \A p \in Procs : Turns(p)' \in Int
  <2>1. op' \in [Procs -> HookOps \cup CliOps]
    BY StepTypes DEF TypeOK
  <2>2. \A p \in Procs : Level(op'[p]) \in Int
    BY <2>1, Levels
  <2>3. QED BY <2>2 DEF Turns
<1>3. ASSUME NEW p \in Procs, NEW q \in Procs, q # p, Takes(p) \/ Leaves(p) \/ Starts(p)
      PROVE  Turns(q)' = Turns(q)
  <2>1. op'[q] = op[q]
    BY <1>0, <1>3 DEF Takes, Leaves, Starts
  <2>2. \A s \in {"P", "G"} : lock'[s] = q <=> lock[s] = q
    BY <1>0, <1>3 DEF Takes, Leaves, Starts
  <2>3. StoreOf(op[q]) \in {"P", "G"}
    BY <1>0
  <2>4. Holding(q)' <=> Holding(q)
    BY <2>1, <2>2, <2>3 DEF Holding
  <2>5. QED BY <2>1, <2>4 DEF Turns
<1>4. ASSUME NEW p \in Procs, Takes(p) \/ Leaves(p), op[p] # "idle" PROVE Turns(p)' < Turns(p)
  <2>1. CASE Takes(p)
    <3>1. op'[p] = op[p] /\ lock[StoreOf(op[p])] # p /\ lock'[StoreOf(op[p])] = p
          /\ op[p] \in PendOps \cup GrantOps
      BY <1>0, <2>1 DEF Takes
    <3>2. ~Holding(p) /\ Holding(p)'
      BY <3>1 DEF Holding
    <3>3. Level(op[p]) \in Int
      BY <1>0, Levels
    <3>4. QED BY <3>1, <3>2, <3>3 DEF Turns
  <2>2. CASE Leaves(p)
    <3>1. PICK n \in HookOps \cup CliOps : op' = [op EXCEPT ![p] = n] /\ Level(n) < Level(op[p])
      BY <2>2 DEF Leaves
    <3>2. op'[p] = n /\ Level(n) \in 0..4 /\ Level(op[p]) \in 0..4
      BY <1>0, <3>1, Levels
    <3>3. QED BY <3>1, <3>2 DEF Turns
  <2>3. QED BY <1>4, <2>1, <2>2
<1>5. CASE \E p \in Procs : Moves(p)
  <2>1. PICK p \in Procs : Moves(p)
    BY <1>5
  <2>2. Takes(p) \/ Leaves(p) \/ Starts(p)
    BY <1>1, <2>1
  <2>3. ASSUME NEW q \in Procs, op[q] # "idle"
        PROVE  Turns(q)' <= Turns(q) /\ (Moves(q) => Turns(q)' < Turns(q))
    <3>1. Moves(q) => Turns(q)' < Turns(q)
      BY <1>1, <1>4, <2>3 DEF Starts
    <3>2. Turns(q) \in Int /\ Turns(q)' \in Int
      BY <1>2, <1>6
    <3>3. CASE q = p
      <4>1. Turns(q)' < Turns(q)
        BY <2>1, <3>1, <3>3
      <4> HIDE DEF Turns
      <4>2. QED BY <3>2, <4>1
    <3>4. CASE q # p
      <4>1. Turns(q)' = Turns(q)
        BY <1>3, <2>2, <3>4
      <4> HIDE DEF Turns
      <4>2. QED BY <3>1, <3>2, <4>1
    <3>5. QED BY <3>3, <3>4
  <2>4. QED BY <2>3 DEF Nears
<1>7. CASE ~\E p \in Procs : Moves(p)
  <2>1. op' = op /\ lock' = lock
    BY <1>7 DEF Next, Moves, Tick, AllQuiet, vars, Procs
  <2>2. \A p \in Procs : Turns(p)' = Turns(p)
    BY <2>1 DEF Turns, Holding
  <2> HIDE DEF Turns
  <2>3. QED BY <1>2, <1>7, <2>2 DEF Nears
<1>8. QED BY <1>5, <1>7

\* No process waits for one that waits: whoever holds a store's lock is at work
\* on that store.  And every process under way is near its end: each step it
\* takes lowers a number of eight at most, and nothing others do raises it.  So
\* an evaluation comes to its verdict once those that work on the grant store
\* do; the pending store it does not wait for (open_locked, open_locked_bounded).
THEOREM NobodyWaitsForWaiters ==
    Spec => [](HoldersWork /\ \A p \in Procs : Turns(p) \in 0..8) /\ [][Nears]_vars
<1>1. TypeOK /\ ViewInv => HoldersWork
  <2> SUFFICES ASSUME TypeOK, ViewInv, NEW p \in Procs, NEW s \in {"P", "G"}, lock[s] = p
               PROVE  Holding(p) /\ StoreOf(op[p]) = s
    BY DEF HoldersWork
  <2>1. CASE s = "P"
    BY <2>1 DEF ViewInv, Holding, StoreOf
  <2>2. CASE s = "G"
    <3>1. op[p] \in GrantOps /\ op[p] \notin PendOps
      BY <2>2 DEF ViewInv, PendOps, GrantOps
    <3>2. QED BY <2>2, <3>1 DEF Holding, StoreOf
  <2>3. QED BY <2>1, <2>2
<1>2. TypeOK => \A p \in Procs : Turns(p) \in 0..8
  <2> SUFFICES ASSUME TypeOK, NEW p \in Procs PROVE Turns(p) \in 0..8
    OBVIOUS
  <2>1. op[p] \in HookOps \cup CliOps
    BY DEF TypeOK
  <2>2. Level(op[p]) \in 0..4 /\ (Holding(p) => Level(op[p]) >= 1)
    BY <2>1, Levels DEF Holding
  <2>3. QED BY <2>2 DEF Turns
<1>3. TypeOK /\ ViewInv /\ [Next]_vars => [Nears]_vars
  BY NearsStep
<1>4. QED BY <1>1, <1>2, <1>3, TypeCorrect, PTL DEF Spec
================================================================================
