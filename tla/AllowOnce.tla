------------------------------- MODULE AllowOnce -------------------------------
(***************************************************************************)
(* The allow-once short-code flow: two JSONL stores shared by every hook   *)
(* process and every `dcg allow-once` process.                             *)
(*                                                                         *)
(*   pending store   one record per denial that displayed a short code     *)
(*   grant store     one entry per redeemed code (src: AllowOnceStore)     *)
(*                                                                         *)
(* A store operation opens the file, takes its exclusive lock, loads the   *)
(* active records, writes, and drops the lock with the file handle.  It is *)
(* two steps here: Acquire (lock + load into `view`) and the operation's   *)
(* own step, which writes from `view` and unlocks.  Nothing spans the two  *)
(* stores, so redeem, revoke and clear are sequences of such operations.   *)
(*                                                                         *)
(* A file is the set of its parsable records, whose append order is the    *)
(* order of their numbers; `tail` says how the last line ends and `junk`   *)
(* counts the bulk of lines that no reader can parse.                      *)
(***************************************************************************)
EXTENDS Naturals, FiniteSets

CONSTANTS
    Hooks,          \* hook process slots
    Clis,           \* `dcg allow-once` process slots
    None,           \* not a process: the value of a free lock
    Targets,        \* (raw command, working directory) pairs
    Covers(_),      \* targets a grant for this target authorizes (same raw
                    \* command, directory within the grant's scope)
    CodeOf(_),      \* short code of a full hash; collisions are possible
    Codes,          \* short codes
    TTL,            \* EXPIRY_HOURS, in ticks
    MaxLines,       \* MAX_PENDING_LINES
    MaxBytes,       \* MAX_PENDING_BYTES, in records
    MaxTime, MaxHookRuns, MaxCliRuns, MaxCrashes   \* bounds of a run

Procs == Hooks \cup Clis
Time  == Nat
Hash  == [at : Time, target : Targets]   \* hash of (second, cwd, command)

PendRec == [id : Nat, hash : Hash, cfg : BOOLEAN]
Grant   == [id : Nat, hash : Hash, at : Time, single : BOOLEAN, force : BOOLEAN]
Sel     == [hash : Hash, cfg : BOOLEAN]
Ask     == [code : Codes, force : BOOLEAN, single : BOOLEAN, wipe : SUBSET {"P", "G"}]
Approval == [run : Nat, entry : Grant, target : Targets, cfg : BOOLEAN, now : Time]

\* Operations on the pending store (P) and on the grant store (G).
PendOps  == {"record", "lookup", "drop", "revokeP", "clearP"}
GrantOps == {"match", "add", "revokeG", "clearG"}
HookOps  == {"idle", "match", "record", "publish"}
CliOps   == {"idle", "lookup", "add", "drop", "seeP", "seeG",
             "revokeP", "revokeG", "clearP", "clearG"}

ASSUME SlotsAssumption ==
    /\ Hooks \cap Clis = {}
    /\ None \notin Hooks \cup Clis
ASSUME ScopeAssumption == \A t \in Targets : Covers(t) \subseteq Targets /\ t \in Covers(t)
ASSUME NumbersAssumption ==
    /\ TTL \in Nat /\ MaxLines \in Nat \ {0} /\ MaxBytes \in Nat
    /\ MaxTime \in Nat /\ MaxHookRuns \in Nat /\ MaxCliRuns \in Nat /\ MaxCrashes \in Nat
ASSUME InputsAssumption == Targets # {} /\ Codes # {}

VARIABLES
    clock,
    pend, tailP, junk, archive,   \* pending store and its rotation archive
    grants, tailG,                \* grant store
    lock,                         \* holder of each store's exclusive lock
    op,                           \* what each process is doing
    view,                         \* active records loaded under the lock
    now,                          \* the time an operation captured
    tgt, cfg, issue,              \* hook: command, config-blocked?, record stored
    sel, ask,                     \* cli: chosen record or hash, and its flags
    hookRuns, cliRuns, crashes, nextId,
    \* history
    recorded,                     \* pending records whose append was started
    created,                      \* grants whose append was started
    approvals,                    \* runs authorized by a grant
    shown,                        \* records whose code a denial displayed
    retired                       \* ids removed by redeem, revoke or clear

files == <<pend, tailP, junk, archive, grants, tailG>>
hist  == <<recorded, created, approvals, shown, retired>>
local == <<now, tgt, cfg, issue, sel, ask>>
count == <<hookRuns, cliRuns, crashes, nextId>>
vars  == <<clock, files, lock, op, view, local, count, hist>>

-------------------------------------------------------------------------------
(* Reading and writing a store file                                        *)

PendExpired(r, t)  == r.hash.at + TTL < t
\* Mutant: grants are as good as forever.
NeverExpired(e, t) == FALSE
GrantExpired(e, t) == e.at + TTL < t

ActivePend(t)  == {r \in pend : ~PendExpired(r, t)}
ActiveGrants(t) == {e \in grants : ~GrantExpired(e, t)}

Newest(S) == {x \in S : \A y \in S : y.id <= x.id}
Oldest(S) == {x \in S : \A y \in S : x.id <= y.id}

\* The oldest records of S, as a rewrite cut short leaves them.
Prefix(T, S) == T \subseteq S /\ \A x \in T, y \in S \ T : x.id < y.id

\* An append joins an unterminated last line, and neither parses afterwards:
\* "cut" is a partial record, "bare" a whole one that lacks its newline.
Appended(S, tail, r) ==
    CASE tail = "ok"   -> S \cup {r}
      [] tail = "cut"  -> S
      [] tail = "bare" -> S \ Newest(S)
Wasted(tail) == CASE tail = "ok" -> 0 [] tail = "cut" -> 1 [] tail = "bare" -> 2

\* The newest MAX_PENDING_LINES / 2 of S (rotate_overflow).
NewestHalf(S) ==
    {x \in S : Cardinality({y \in S : y.id > x.id}) < MaxLines \div 2}

Bytes(S, j) == Cardinality(S) + j

-------------------------------------------------------------------------------
(* Common steps                                                            *)

StoreOf(o) == IF o \in PendOps THEN "P" ELSE "G"

\* Mutant of Acquire: a grant store found locked is loaded before the lock is held.
AcquireAfterLoad(p) ==
    /\ op[p] \in PendOps \cup GrantOps
    /\ LET s == StoreOf(op[p])
           t == IF op[p] = "record" THEN clock ELSE now[p]
           loaded == IF s = "P" THEN ActivePend(t) ELSE ActiveGrants(t)
       IN  \/ /\ op[p] \in {"match", "revokeG"} /\ lock[s] \notin {None, p} /\ view[p] = {}
              /\ view' = [view EXCEPT ![p] = loaded]
              /\ UNCHANGED <<lock, now>>
           \/ /\ lock[s] = None
              /\ lock' = [lock EXCEPT ![s] = p]
              /\ view' = [view EXCEPT ![p] = IF @ = {} THEN loaded ELSE @]
              /\ now' = [now EXCEPT ![p] = t]
    /\ UNCHANGED <<clock, files, op, tgt, cfg, issue, sel, ask, count, hist>>

\* open_locked / open_locked_bounded, then load_*_from_file.  Only the deny
\* path reads the clock after the lock; every other caller read it before.
Acquire(p) ==
    /\ op[p] \in PendOps \cup GrantOps
    /\ LET s == StoreOf(op[p])
           t == IF op[p] = "record" THEN clock ELSE now[p]
       IN  /\ lock[s] = None
           /\ lock' = [lock EXCEPT ![s] = p]
           /\ view' = [view EXCEPT ![p] = IF s = "P" THEN ActivePend(t) ELSE ActiveGrants(t)]
           /\ now' = [now EXCEPT ![p] = t]
    /\ UNCHANGED <<clock, files, op, tgt, cfg, issue, sel, ask, count, hist>>

NoHash == [at |-> 0, target |-> CHOOSE t \in Targets : TRUE]
NoSel  == [hash |-> NoHash, cfg |-> FALSE]
NoAsk  == [code |-> CHOOSE c \in Codes : TRUE, force |-> FALSE, single |-> TRUE, wipe |-> {}]

\* Process p goes on to `next`; a process that exits forgets its variables.
Goto(p, next) ==
    /\ op' = [op EXCEPT ![p] = next]
    /\ IF next # "idle" THEN UNCHANGED local
       ELSE /\ now' = [now EXCEPT ![p] = 0]
            /\ IF p \in Hooks
               THEN /\ tgt' = [tgt EXCEPT ![p] = NoHash.target]
                    /\ cfg' = [cfg EXCEPT ![p] = FALSE]
                    /\ issue' = [issue EXCEPT ![p] = {}]
                    /\ UNCHANGED <<sel, ask>>
               ELSE /\ sel' = [sel EXCEPT ![p] = NoSel]
                    /\ ask' = [ask EXCEPT ![p] = NoAsk]
                    /\ UNCHANGED <<tgt, cfg, issue>>

\* The operation ends: the file handle drops and with it the lock.
Unlock(p) ==
    /\ lock' = [lock EXCEPT ![StoreOf(op[p])] = None]
    /\ view' = [view EXCEPT ![p] = {}]
Release(p, next) == Unlock(p) /\ Goto(p, next)

\* Rewrites happen only when pruning or removal changed something.
RewritePend(S) ==
    IF S = pend THEN UNCHANGED <<pend, tailP, junk>>
                ELSE pend' = S /\ tailP' = "ok" /\ junk' = 0
RewriteGrants(S) ==
    IF S = grants THEN UNCHANGED <<grants, tailG>>
                  ELSE grants' = S /\ tailG' = "ok"

-------------------------------------------------------------------------------
(* Hook processes: evaluate one command that a pack rule or the config     *)
(* blocklist (cfg) denies                                                  *)

HookStart(h) ==
    /\ op[h] = "idle" /\ hookRuns < MaxHookRuns
    /\ \E t \in Targets, b \in BOOLEAN :
          /\ tgt' = [tgt EXCEPT ![h] = t]
          /\ cfg' = [cfg EXCEPT ![h] = b]
    /\ now' = [now EXCEPT ![h] = clock]
    /\ op' = [op EXCEPT ![h] = "match"]
    /\ hookRuns' = hookRuns + 1
    /\ UNCHANGED <<clock, files, lock, view, issue, sel, ask, cliRuns, crashes, nextId, hist>>

\* The first entry for the command in scope; it only overrides a config
\* block when it was redeemed with --force.
Found(h)   == Oldest({e \in view[h] : tgt[h] \in Covers(e.hash.target)})
\* Mutant of Granted: a config block is overridden by any entry.
GrantedUnforced(h) == Found(h)
Granted(h) == {e \in Found(h) : cfg[h] => e.force}
\* Mutants of Spent: the entry is left in the file; it is taken out before the
\* force check, as match_command would.
SpentNever(h) == {e \in Granted(h) : FALSE}
SpentBeforeForce(h) == {e \in Found(h) : e.single}
Spent(h)   == {e \in Granted(h) : e.single}

\* match_command / match_command_force_config.
Match(h) ==
    /\ op[h] = "match" /\ lock["G"] = h
    /\ RewriteGrants(view[h] \ Spent(h))
    /\ \/ \E e \in Granted(h) :
              /\ approvals' = approvals \cup
                     {[run |-> nextId, entry |-> e, target |-> tgt[h],
                       cfg |-> cfg[h], now |-> now[h]]}
              /\ nextId' = nextId + 1
              /\ Release(h, "idle")
       \/ /\ Granted(h) = {}
          /\ Release(h, "record")
          /\ UNCHANGED <<approvals, nextId>>
    /\ UNCHANGED <<clock, pend, tailP, junk, archive, hookRuns, cliRuns,
                   crashes, recorded, created, shown, retired>>

\* Mutant of SkipRecord: the deny path waits for the lock as long as it takes.
SkipNever(h) == op[h] = "record" /\ lock["P"] # h /\ FALSE /\ UNCHANGED vars

\* The denial is published without a code: no budget was left on arrival, or
\* the store lock stayed contended through the bounded wait.
SkipRecord(h) ==
    /\ op[h] = "record" /\ lock["P"] # h
    /\ Goto(h, "publish")
    /\ UNCHANGED <<clock, files, lock, view, count, hist>>

\* Maintenance under the lock: with budget, or forced past the watermark.
Kept(h, budget) ==
    IF ~budget /\ Bytes(pend, junk) <= MaxBytes \div 2 THEN pend
    ELSE IF Cardinality(view[h]) > MaxLines THEN NewestHalf(view[h])
    ELSE view[h]

NewRecord(h) == [id |-> nextId, hash |-> [at |-> now[h], target |-> tgt[h]], cfg |-> cfg[h]]

\* What the append finds: the file as it was, or as maintenance rewrote it.
Base(h, budget) ==
    LET kept == Kept(h, budget)
    IN  IF kept = pend THEN [recs |-> pend, tail |-> tailP, bulk |-> junk]
                       ELSE [recs |-> kept, tail |-> "ok", bulk |-> 0]
\* Mutant of Rotated: rotation drops records instead of archiving them.
RotatedAway(h, kept) == {}
Rotated(h, kept) == IF kept = pend THEN {} ELSE view[h] \ kept

\* The hard cap of record_block_locked.  Mutant: no cap.
NeverRefused(base) == FALSE
Refused(base) == Bytes(base.recs, base.bulk) > MaxBytes

\* record_block_bounded once the lock is held (record_block_locked).
Record(h) ==
    /\ op[h] = "record" /\ lock["P"] = h
    /\ \E budget \in BOOLEAN :
         LET base == Base(h, budget)
         IN  /\ archive' = archive \cup Rotated(h, base.recs)
             /\ \/ /\ Refused(base)                 \* no code
                   /\ pend' = base.recs /\ tailP' = base.tail /\ junk' = base.bulk
                   /\ UNCHANGED <<issue, nextId, recorded>>
                \/ /\ ~Refused(base)
                   /\ pend' = Appended(base.recs, base.tail, NewRecord(h))
                   /\ tailP' = "ok" /\ junk' = base.bulk + Wasted(base.tail)
                   /\ issue' = [issue EXCEPT ![h] = {NewRecord(h)}]
                   /\ recorded' = recorded \cup {NewRecord(h)}
                   /\ nextId' = nextId + 1
    /\ Unlock(h)
    /\ op' = [op EXCEPT ![h] = "publish"]
    /\ UNCHANGED <<clock, grants, tailG, now, tgt, cfg, sel, ask, hookRuns,
                   cliRuns, crashes, created, approvals, shown, retired>>

\* The protocol denial, with the code when one was stored.
Publish(h) ==
    /\ op[h] = "publish"
    /\ shown' = shown \cup issue[h]
    /\ Goto(h, "idle")
    /\ UNCHANGED <<clock, files, lock, view, count, recorded, created, approvals, retired>>

-------------------------------------------------------------------------------
(* `dcg allow-once` processes                                              *)

CliStart(c, next) ==
    /\ op[c] = "idle" /\ cliRuns < MaxCliRuns
    /\ op' = [op EXCEPT ![c] = next]
    /\ now' = [now EXCEPT ![c] = clock]
    /\ cliRuns' = cliRuns + 1
    /\ UNCHANGED <<clock, files, lock, view, tgt, cfg, issue, sel, hookRuns, crashes,
                   nextId, hist>>

Redeem(c) ==
    /\ \E code \in Codes, force \in BOOLEAN, single \in BOOLEAN :
          ask' = [ask EXCEPT ![c] = [code |-> code, force |-> force,
                                     single |-> single, wipe |-> {}]]
    /\ CliStart(c, "lookup")

Revoke(c) == CliStart(c, "seeP") /\ UNCHANGED ask

\* `list` is the clear that wipes neither store: it loads and prunes both.
Clear(c) ==
    /\ \E wipe \in SUBSET {"P", "G"} : ask' = [ask EXCEPT ![c].wipe = wipe]
    /\ CliStart(c, "clearP")

\* The user answers no to the prompt, or stdin is no terminal.
Decline(c) ==
    /\ op[c] \in {"add", "revokeP", "clearP"} /\ lock[StoreOf(op[c])] # c
    /\ Goto(c, "idle")
    /\ UNCHANGED <<clock, files, lock, view, count, hist>>

\* lookup_by_code and select_pending_entry: records that share one hash are
\* one choice, otherwise --hash or --pick chooses; a config block needs --force.
Lookup(c) ==
    /\ op[c] = "lookup" /\ lock["P"] = c
    /\ RewritePend(view[c])
    /\ LET found == {r \in view[c] : CodeOf(r.hash) = ask[c].code}
           choice == IF \A r, q \in found : r.hash = q.hash THEN Oldest(found) ELSE found
       IN  \/ \E r \in choice :
                 /\ r.cfg => ask[c].force
                 /\ sel' = [sel EXCEPT ![c] = [hash |-> r.hash, cfg |-> r.cfg]]
                 /\ op' = [op EXCEPT ![c] = "add"]
                 /\ UNCHANGED <<now, tgt, cfg, issue, ask>>
           \/ Goto(c, "idle")                         \* no code, ambiguous, refused
    /\ Unlock(c)
    /\ UNCHANGED <<clock, archive, grants, tailG, count, hist>>

NewGrant(c) ==
    [id |-> nextId, hash |-> sel[c].hash, at |-> now[c], single |-> ask[c].single,
     force |-> ask[c].force /\ sel[c].cfg]

\* AllowOnceStore::add_entry.
Add(c) ==
    /\ op[c] = "add" /\ lock["G"] = c
    /\ grants' = Appended(view[c], IF view[c] = grants THEN tailG ELSE "ok", NewGrant(c))
    /\ tailG' = "ok"
    /\ created' = created \cup {NewGrant(c)}
    /\ nextId' = nextId + 1
    /\ Release(c, "drop")
    /\ UNCHANGED <<clock, pend, tailP, junk, archive, hookRuns, cliRuns, crashes,
                   recorded, approvals, shown, retired>>

Removed(c) == {r \in view[c] : r.hash = sel[c].hash}

\* remove_by_full_hash: after a redeem, or as the first half of a revoke.
Drop(c) ==
    /\ op[c] \in {"drop", "revokeP"} /\ lock["P"] = c
    /\ RewritePend(view[c] \ Removed(c))
    /\ retired' = retired \cup {r.id : r \in Removed(c)}
    /\ Release(c, IF op[c] = "drop" THEN "idle" ELSE "revokeG")
    /\ UNCHANGED <<clock, archive, grants, tailG, count, recorded, created,
                   approvals, shown>>

\* The two previews of a revoke, which change nothing.
SeeP(c) ==
    /\ op[c] = "seeP" /\ lock["P"] = None
    /\ view' = [view EXCEPT ![c] = ActivePend(now[c])]
    /\ op' = [op EXCEPT ![c] = "seeG"]
    /\ UNCHANGED <<clock, files, lock, local, count, hist>>

\* resolve_allow_once_revoke_target: a code or hash prefix must single out one
\* of the hashes seen; the full hash always can.
SeeG(c) ==
    /\ op[c] = "seeG" /\ lock["G"] = None
    /\ view' = [view EXCEPT ![c] = {}]
    /\ \/ /\ \E x \in view[c] \cup ActiveGrants(now[c]) :
              sel' = [sel EXCEPT ![c] = [hash |-> x.hash, cfg |-> FALSE]]
          /\ op' = [op EXCEPT ![c] = "revokeP"]
          /\ UNCHANGED <<now, tgt, cfg, issue, ask>>
       \/ Goto(c, "idle")
    /\ UNCHANGED <<clock, files, lock, count, hist>>

\* remove_by_source_full_hash.
RevokeGrants(c) ==
    /\ op[c] = "revokeG" /\ lock["G"] = c
    /\ RewriteGrants(view[c] \ Removed(c))
    /\ retired' = retired \cup {e.id : e \in Removed(c)}
    /\ Release(c, "idle")
    /\ UNCHANGED <<clock, pend, tailP, junk, archive, count, recorded, created,
                   approvals, shown>>

\* clear_all (which always rewrites), or load_active when the store is spared.
ClearPend(c) ==
    /\ op[c] = "clearP" /\ lock["P"] = c
    /\ IF "P" \in ask[c].wipe
       THEN /\ pend' = {} /\ tailP' = "ok" /\ junk' = 0
            /\ retired' = retired \cup {r.id : r \in view[c]}
       ELSE RewritePend(view[c]) /\ UNCHANGED retired
    /\ Release(c, "clearG")
    /\ UNCHANGED <<clock, archive, grants, tailG, count, recorded, created,
                   approvals, shown>>

ClearGrants(c) ==
    /\ op[c] = "clearG" /\ lock["G"] = c
    /\ IF "G" \in ask[c].wipe
       THEN /\ grants' = {} /\ tailG' = "ok"
            /\ retired' = retired \cup {e.id : e \in view[c]}
       ELSE RewriteGrants(view[c]) /\ UNCHANGED retired
    /\ Release(c, "idle")
    /\ UNCHANGED <<clock, pend, tailP, junk, archive, count, recorded, created,
                   approvals, shown>>

-------------------------------------------------------------------------------
(* A write cut short: the process is killed (agent hook timeouts kill), or *)
(* an I/O error ends the operation half way                                *)

\* What a store holds after a rewrite to S stops early: a prefix of S, whose
\* next line may be half written or whose last newline may be missing.
Partial(S, T, tail) ==
    /\ Prefix(T, S)
    /\ tail = "bare" => T # {}
    /\ tail = "cut" => T # S

\* The rewrites of the pending store that an operation may have under way.
PendRewrites(p) ==
    CASE op[p] = "record" -> {Kept(p, b) : b \in BOOLEAN} \ {pend}
      [] op[p] = "lookup" -> {view[p]} \ {pend}
      [] op[p] \in {"drop", "revokeP"} -> {view[p] \ Removed(p)} \ {pend}
      [] OTHER -> {IF "P" \in ask[p].wipe THEN {} ELSE view[p]}

\* Match may have two: the prune, then the removal of the entry it spends.
GrantRewrites(p) ==
    CASE op[p] = "match" -> {view[p], view[p] \ Spent(p)} \ {grants}
      [] op[p] = "add" -> {view[p]} \ {grants}
      [] op[p] = "revokeG" -> {view[p] \ Removed(p)} \ {grants}
      [] OTHER -> {IF "G" \in ask[p].wipe THEN {} ELSE view[p]}

\* An append of r to S that stops inside the line or before its newline.
PartialAppend(S, tail, r) ==
    {<<IF tail = "bare" THEN S \ Newest(S) ELSE S, "cut">>}
        \cup {<<S \cup {r}, "bare">> : x \in {tail} \cap {"ok"}}

\* Mutant of Fail: the CLI takes the hook's way out.
FailAsHook(p) ==
    \/ Release(p, "idle")
    \/ p \in Clis /\ Release(p, IF op[p] = "match" THEN "record" ELSE "publish")

\* The process is gone, or goes on without what the operation should have
\* brought: a hook denies without a grant, or without a code.
Fail(p) ==
    \/ Release(p, "idle")
    \/ p \in Hooks /\ Release(p, IF op[p] = "match" THEN "record" ELSE "publish")

InterruptPend(p) ==
    /\ op[p] \in PendOps /\ lock["P"] = p /\ crashes < MaxCrashes
    /\ crashes' = crashes + 1
    /\ \/ \E S \in PendRewrites(p) : \E T \in SUBSET S, tail \in {"ok", "cut", "bare"} :
            /\ Partial(S, T, tail)
            /\ pend' = T /\ tailP' = tail /\ junk' = 0
            /\ archive' = IF op[p] = "record" THEN archive \cup (view[p] \ S) ELSE archive
            /\ UNCHANGED nextId
            /\ UNCHANGED recorded
       \/ /\ op[p] = "record"
          /\ \E budget \in BOOLEAN :
               LET base == Base(p, budget)
               IN  /\ ~Refused(base)
                   /\ \E x \in PartialAppend(base.recs, base.tail, NewRecord(p)) :
                         pend' = x[1] /\ tailP' = x[2]
                   /\ junk' = base.bulk + (IF base.tail = "bare" THEN 1 ELSE 0)
                   /\ archive' = archive \cup Rotated(p, base.recs)
          /\ recorded' = recorded \cup {NewRecord(p)}
          /\ nextId' = nextId + 1
    /\ Fail(p)
    /\ UNCHANGED <<clock, grants, tailG, hookRuns, cliRuns, created, approvals,
                   shown, retired>>

InterruptGrants(p) ==
    /\ op[p] \in GrantOps /\ lock["G"] = p /\ crashes < MaxCrashes
    /\ crashes' = crashes + 1
    /\ \/ \E S \in GrantRewrites(p) : \E T \in SUBSET S, tail \in {"ok", "cut", "bare"} :
            /\ Partial(S, T, tail)
            /\ grants' = T /\ tailG' = tail
            /\ UNCHANGED <<created, nextId>>
       \/ /\ op[p] = "add"
          /\ \E x \in PartialAppend(view[p], IF view[p] = grants THEN tailG ELSE "ok", NewGrant(p)) :
                grants' = x[1] /\ tailG' = x[2]
          /\ created' = created \cup {NewGrant(p)}
          /\ nextId' = nextId + 1
    /\ Fail(p)
    /\ UNCHANGED <<clock, pend, tailP, junk, archive, hookRuns, cliRuns,
                   recorded, approvals, shown, retired>>

-------------------------------------------------------------------------------
Tick ==
    /\ clock < MaxTime
    /\ clock' = clock + 1
    /\ UNCHANGED <<files, lock, op, view, local, count, hist>>

\* Every process has exited and the bounds admit no other.
AllQuiet ==
    /\ \A p \in Procs : op[p] = "idle"
    /\ hookRuns = MaxHookRuns /\ cliRuns = MaxCliRuns /\ clock = MaxTime
    /\ UNCHANGED vars

Init ==
    /\ clock = 0
    /\ pend = {} /\ tailP = "ok" /\ junk = 0 /\ archive = {}
    /\ grants = {} /\ tailG = "ok"
    /\ lock = [s \in {"P", "G"} |-> None]
    /\ op = [p \in Procs |-> "idle"]
    /\ view = [p \in Procs |-> {}]
    /\ now = [p \in Procs |-> 0]
    /\ tgt = [h \in Hooks |-> NoHash.target]
    /\ cfg = [h \in Hooks |-> FALSE]
    /\ issue = [h \in Hooks |-> {}]
    /\ sel = [c \in Clis |-> NoSel]
    /\ ask = [c \in Clis |-> NoAsk]
    /\ hookRuns = 0 /\ cliRuns = 0 /\ crashes = 0 /\ nextId = 0
    /\ recorded = {} /\ created = {} /\ approvals = {} /\ shown = {} /\ retired = {}

HookStep(h) ==
    HookStart(h) \/ Acquire(h) \/ Match(h) \/ SkipRecord(h) \/ Record(h) \/ Publish(h)
CliStep(c) ==
    \/ Redeem(c) \/ Revoke(c) \/ Clear(c) \/ Decline(c) \/ Acquire(c)
    \/ Lookup(c) \/ Add(c) \/ Drop(c) \/ SeeP(c) \/ SeeG(c) \/ RevokeGrants(c)
    \/ ClearPend(c) \/ ClearGrants(c)

Next ==
    \/ \E h \in Hooks : HookStep(h)
    \/ \E c \in Clis : CliStep(c)
    \/ \E p \in Procs : InterruptPend(p) \/ InterruptGrants(p)
    \/ Tick
    \/ AllQuiet

Spec == Init /\ [][Next]_vars

\* A hook runs until its verdict is out; what it waits for may never come.
HookFairness ==
    \A h \in Hooks : /\ WF_vars(Acquire(h)) /\ WF_vars(Match(h)) /\ WF_vars(Record(h))
                     /\ WF_vars(SkipRecord(h)) /\ WF_vars(Publish(h))
\* A CLI process that holds the grant store's lock is scheduled and finishes.
GrantHolderFairness ==
    \A c \in Clis : WF_vars(Add(c) \/ RevokeGrants(c) \/ ClearGrants(c))

FairSpec == Spec /\ HookFairness /\ GrantHolderFairness

-------------------------------------------------------------------------------
(* Properties                                                              *)

TypeOK ==
    /\ clock \in Time
    /\ pend \in SUBSET PendRec /\ archive \in SUBSET PendRec
    /\ grants \in SUBSET Grant
    /\ tailP \in {"ok", "cut", "bare"} /\ tailG \in {"ok", "cut", "bare"} /\ junk \in Nat
    /\ lock \in [{"P", "G"} -> Procs \cup {None}]
    /\ op \in [Procs -> HookOps \cup CliOps]
    /\ \A h \in Hooks : op[h] \in HookOps
    /\ \A c \in Clis : op[c] \in CliOps
    /\ view \in [Procs -> SUBSET (PendRec \cup Grant)]
    /\ now \in [Procs -> Time]
    /\ tgt \in [Hooks -> Targets] /\ cfg \in [Hooks -> BOOLEAN]
    /\ issue \in [Hooks -> SUBSET PendRec]
    /\ sel \in [Clis -> Sel] /\ ask \in [Clis -> Ask]
    /\ hookRuns \in Nat /\ cliRuns \in Nat /\ crashes \in Nat /\ nextId \in Nat
    /\ recorded \in SUBSET PendRec /\ created \in SUBSET Grant
    /\ approvals \in SUBSET Approval
    /\ shown \in SUBSET PendRec /\ retired \in SUBSET Nat

\* A single-use grant lets at most one command run, whatever hooks and CLI
\* processes do at the same time and wherever one is killed (match_command
\* removes the entry under the lock before the hook may allow).
SingleUseOnce ==
    \A a, b \in approvals : a.entry.id = b.entry.id /\ a.entry.single => a = b

\* Every run a grant authorized was in the grant's scope, at a time the hook
\* read within the grant's life; over a config block, the code behind it came
\* from a config block and was redeemed with --force.
ApprovalJustified ==
    \A a \in approvals :
        /\ a.target \in Covers(a.entry.hash.target)
        /\ a.now <= a.entry.at + TTL
        /\ a.cfg => /\ a.entry.force
                    /\ \E r \in recorded : r.hash = a.entry.hash /\ r.cfg

\* What a redeem, a revoke or a clear removed from a store never comes back:
\* no operation writes records it loaded before another one removed them.
RetiredStayGone == \A x \in pend \cup grants : x.id \notin retired

\* A code a denial displayed stays redeemable until it expires, is used,
\* revoked or cleared, or is rotated into the archive; without a write cut
\* short, no concurrent operation loses it.
ShownCodeRedeemable ==
    crashes = 0 => \A r \in shown : \/ r \in pend
                                     \/ PendExpired(r, clock)
                                     \/ r.id \in retired
                                     \/ r \in archive

\* The live pending file exceeds MAX_PENDING_BYTES by one record at most.
StoreBounded == Bytes(pend, junk) <= MaxBytes + 1

\* A hook that goes on to deny has used up no live grant: a config block
\* that still stands must not cost the user the exception.
DenialKeepsGrants ==
    [][\A h \in Hooks :
         op[h] = "match" /\ op'[h] = "record" /\ crashes' = crashes
            => \A e \in grants : GrantExpired(e, now[h]) \/ e \in grants']_vars

\* Refinement: the grant store under concurrent hooks, CLI processes and
\* interrupted writes is a ledger of grants.
Ledger == INSTANCE AllowOnceLedger WITH created <- created, live <- grants, runs <- approvals
LedgerSpec == Ledger!Spec

\* Every evaluation ends with its verdict, though the holder of the pending
\* store's lock may never let go.
VerdictReached == \A h \in Hooks : op[h] # "idle" ~> op[h] = "idle"

\* README.md:183 and docs/allow-once-usage.md:63: a code is good for a single
\* command.  (Codes issued twice for one hash are left out.)
OneCommandPerCode ==
    \A a, b \in approvals :
        /\ a.entry.hash = b.entry.hash /\ a.entry.single /\ b.entry.single
        /\ Cardinality({r \in recorded : r.hash = a.entry.hash}) = 1
        => a = b
================================================================================
