------------------------------ MODULE HookRequest ------------------------------
(***************************************************************************)
(* One hook process and one request: the path of `main` from stdin to the  *)
(* exit status.                                                            *)
(*                                                                         *)
(* The host pipes a request holding one command or a batch and reads back  *)
(* at most one document and the exit status.  Every entry is resolved      *)
(* before anything is published, the strictest outcome is published, and   *)
(* a panic of any thread makes the panic hook (the backstop) publish a     *)
(* blocking verdict in its place.  The main thread, the backstop of a      *)
(* panicking thread, the deadline and the host closing the pipe interleave.*)
(*                                                                         *)
(* What evaluating an entry would find, given time, is its verdict:        *)
(*   allow         no rule matches, or an allowlist covers it              *)
(*   granted       allowed by a single-use allow-once grant                *)
(*   permitted     a recovery command allowed by a rebase-recovery permit  *)
(*   log, warn, ask, deny   a rule matches, with that decision mode        *)
(*   unverifiable  analysis gives up whatever the time: a size, depth or   *)
(*                 round limit of the evaluator                            *)
(*   oversized     longer than max_command_bytes                           *)
(***************************************************************************)
EXTENDS Integers, Sequences

CONSTANTS
    Hosts,          \* hosts the request may come from
    Forms,          \* how the bytes on stdin read
    Verdicts,       \* verdicts of the entries
    MaxBatch,       \* bound: entries of a request
    FaultyThreads   \* threads that may panic, once

Protocols == {"claude", "copilot", "codex", "codexask", "gemini", "hermes",
              "grok", "antigravity", "crush", "reasonix"}
AllHosts    == Protocols \cup {"opencode"}
Unreadable  == {"toolarge", "utf8", "json", "io"}
AllForms    == {"shell", "other"} \cup Unreadable
AllVerdicts == {"allow", "granted", "permitted", "log", "warn", "ask", "deny",
                "unverifiable", "oversized"}
NotYet  == -1     \* exit status before the process ends
Aborted == 134    \* killed by SIGABRT: a panic with no policy armed
Silent  == "silent"

ASSUME InputsAssumption ==
    /\ Hosts \subseteq AllHosts /\ Forms \subseteq AllForms
    /\ Verdicts \subseteq AllVerdicts /\ FaultyThreads \subseteq {"main", "worker"}
ASSUME BatchAssumption == MaxBatch \in Nat \ {0}

VARIABLES
    req,        \* the request: host, form, batch of verdicts
    cfg,        \* fail-closed?, unverified denies?, history on?
    pc, i,      \* main thread: where it is, entry it is at
    proto,      \* protocol main publishes with: at first, the detected agent's
    decisive,   \* strictest outcome so far
    chosen,     \* and its entry
    primaryRow, \* an allow row is held back for the first entry
    expired,    \* the deadline has passed
    policy,     \* armed panic policy: a protocol or "off"
    claimed,    \* VERDICT_OUTPUT_CLAIMED
    status,     \* exit status main is going to use
    fault, backstop, held,  \* thread that panicked, its panic hook, its policy
    docs,       \* documents on stdout, and the protocol each is written in
    hostReads,  \* the host still reads stdout
    exit,       \* exit status of the process
    rows,       \* history rows logged
    judged      \* entries whose evaluation reached a verdict

vars == <<req, cfg, pc, i, proto, decisive, chosen, primaryRow, expired, policy,
          claimed, status, fault, backstop, held, docs, hostReads, exit, rows, judged>>
setup  == <<req, cfg>>
choice == <<decisive, chosen>>
panics == <<fault, backstop, held>>
output == <<claimed, docs, status, exit>>
record == <<rows, judged>>

Proto(h)    == IF h = "opencode" THEN "claude" ELSE h
Explicit(h) == h = "opencode"
\* What the environment and the parent process make of the agent, before the
\* payload is read: the host's own markers, none (the Claude shape is assumed), or
\* those inherited from the session of another agent.  That Codex takes a review
\* is known from the payload alone.
Detected == Protocols \ {"codexask"}
Last == Len(req.batch)

Rank == [allow |-> 0, warn |-> 1, ask |-> 2, oversized |-> 3, unverified |-> 3, deny |-> 4]

\* What the document for a denial, a review, an unverified command and a
\* warning says in protocol p; denies: unverified commands are to be denied.
Asks(p)      == p \in {"claude", "copilot"}
DenyDoc(p)   == CASE p = "reasonix" -> Silent [] p = "codexask" -> "ask" [] OTHER -> "deny"
ReviewDoc(p) == IF Asks(p) THEN "ask" ELSE DenyDoc(p)
UnverifiedDoc(p, denies) == IF Asks(p) /\ ~denies THEN "ask" ELSE DenyDoc(p)
WarnDoc(p) == IF p \in {"gemini", "hermes", "grok", "antigravity", "crush"} THEN "proceed" ELSE Silent

\* Mutant: warnings are answered like reviews.
DocWithoutWarn(p, o, denies) ==
    CASE o = "deny" -> DenyDoc(p)
      [] o \in {"ask", "warn"} -> ReviewDoc(p)
      [] o \in {"oversized", "unverified"} -> UnverifiedDoc(p, denies)
Doc(p, o, denies) ==
    CASE o = "deny" -> DenyDoc(p)
      [] o = "ask"  -> ReviewDoc(p)
      [] o = "warn" -> WarnDoc(p)
      [] o \in {"oversized", "unverified"} -> UnverifiedDoc(p, denies)
Blocking == {"deny", "ask"}

\* Exit status after publishing; delivered is FALSE when the write failed.
StatusOf(p, o, delivered) ==
    IF o = "warn" THEN IF p = "reasonix" THEN 1 ELSE 0
    ELSE IF ~delivered \/ p = "reasonix" THEN 2 ELSE 0
Arrives(doc) == hostReads \/ doc = Silent
Written(p, doc) == IF hostReads /\ doc # Silent THEN Append(docs, [to |-> p, says |-> doc]) ELSE docs

\* What the host makes of it (external).  It takes in the documents of its own
\* protocol; a host of the Claude shape those for Codex too, which have its fields.
Reads(h) ==
    {Proto(h)} \cup (CASE h \in {"claude", "opencode"} -> {"codex", "codexask"}
                       [] h = "codexask" -> {"codex"}
                       [] OTHER -> {})
Says == {docs[k].says : k \in {j \in 1..Len(docs) : docs[j].to \in Reads(req.host)}}
HostBlocks ==
    CASE req.host = "reasonix"    -> exit = 2
      [] req.host = "antigravity" -> Says \cap Blocking # {}
      [] req.host = "opencode"    -> Says \cap Blocking # {} \/ exit # 0 \/ "allow" \notin Says
      [] OTHER                    -> Says \cap Blocking # {} \/ exit = 2
Ended    == exit # NotYet
HostRuns == Ended /\ ~HostBlocks

Batches == UNION {[1..n -> Verdicts] : n \in 1..MaxBatch}
Init ==
    /\ req \in [host : Hosts, form : Forms, batch : Batches \cup {<<>>}]
    /\ req.form = "shell" => req.batch # <<>>
    /\ req.form \in {"other", "io"} => req.batch = <<>>
    \* windows are cut to fit, and only payloads naming a shell tool have any
    /\ req.form # "shell" => \A k \in DOMAIN req.batch : req.batch[k] # "oversized"
    /\ cfg \in [failClosed : BOOLEAN, denies : BOOLEAN, history : BOOLEAN]
    /\ pc = "start" /\ i = 1 /\ proto \in Detected
    /\ decisive = "allow" /\ chosen = 0 /\ primaryRow = FALSE
    /\ expired = FALSE /\ policy = "off" /\ claimed = FALSE /\ status = 0
    /\ fault = "none" /\ backstop = "idle" /\ held = "off"
    /\ docs = <<>> /\ hostReads = TRUE /\ exit = NotYet
    /\ rows = {} /\ judged = {}

At(l) == ~Ended /\ fault # "main" /\ pc = l
Goto(l) == pc' = l
Row(k, outcome) == IF cfg.history THEN {<<k, outcome>>} ELSE {}

--------------------------------------------------------------------------------
(* Reading the request *)

Configure ==
    /\ At("start") /\ policy' = proto /\ Goto("read")
    /\ UNCHANGED <<setup, i, proto, choice, primaryRow, expired, panics, output, hostReads, record>>

\* Markers in the raw bytes of an unreadable payload may tell a Codex, and a
\* Reasonix where no agent was detected; no other host.
Salvaged(p) ==
    {p} \cup IF req.host \in {"codex", "codexask"} \/ (req.host = "reasonix" /\ p = "claude")
             THEN {req.host} ELSE {}

\* The deadline starts after stdin is read; self-heal and pack loading follow.
Read ==
    /\ At("read")
    /\ Goto(IF req.form \notin Unreadable THEN "extract"
            ELSE IF cfg.failClosed \/ req.form = "io" THEN "unparsed" ELSE "salvage")
    /\ IF req.form \in Unreadable \ {"io"} THEN proto' \in Salvaged(proto) ELSE UNCHANGED proto
    /\ UNCHANGED <<setup, i, choice, primaryRow, expired, policy, panics, output, hostReads, record>>

\* Mutant: the policy stays armed with the protocol of the detected agent.
ExtractUnarmed ==
    /\ At("extract")
    /\ proto' = Proto(req.host)
    /\ IF req.form = "other"
       THEN policy' = "off" /\ Goto(IF Explicit(req.host) THEN "explicit" ELSE "finish") /\ UNCHANGED choice
       ELSE /\ UNCHANGED policy
            /\ IF req.batch = <<"oversized">>
               THEN decisive' = "oversized" /\ chosen' = 1 /\ Goto("claim")
               ELSE Goto("resolve") /\ UNCHANGED choice
    /\ UNCHANGED <<setup, i, primaryRow, expired, panics, output, hostReads, record>>

\* A single oversized command is refused before anything else is built.
Extract ==
    /\ At("extract")
    /\ proto' = Proto(req.host)
    /\ IF req.form = "other"
       THEN policy' = "off" /\ Goto(IF Explicit(req.host) THEN "explicit" ELSE "finish") /\ UNCHANGED choice
       ELSE /\ policy' = Proto(req.host)
            /\ IF req.batch = <<"oversized">>
               THEN decisive' = "oversized" /\ chosen' = 1 /\ Goto("claim")
               ELSE Goto("resolve") /\ UNCHANGED choice
    /\ UNCHANGED <<setup, i, primaryRow, expired, panics, output, hostReads, record>>

--------------------------------------------------------------------------------
(* Resolving the entries *)

\* Mutants of Collect: the scan also stops elsewhere, or does not move by one.
CollectWith(o, row, stops, step) ==
    /\ primaryRow' = IF i = 1 /\ o = "allow" THEN row ELSE primaryRow
    /\ IF Rank[o] > Rank[decisive] THEN decisive' = o /\ chosen' = i ELSE UNCHANGED choice
    /\ IF o \in stops THEN Goto("publish") /\ UNCHANGED i ELSE Goto("resolve") /\ i' = i + step
CollectToSize(o, row)   == CollectWith(o, row, {"deny", "unverified", "oversized"}, 1)
CollectSkipping(o, row) == CollectWith(o, row, {"deny", "unverified"}, 2)
CollectStuck(o, row)    == CollectWith(o, row, {"deny", "unverified"}, IF o = "oversized" THEN 0 ELSE 1)

\* Outcome o of entry i enters the selection; the scan stops at a denial and
\* at an entry that could not be verified.
Collect(o, row) ==
    /\ primaryRow' = IF i = 1 /\ o = "allow" THEN row ELSE primaryRow
    /\ IF Rank[o] > Rank[decisive] THEN decisive' = o /\ chosen' = i ELSE UNCHANGED choice
    /\ IF o \in {"deny", "unverified"} THEN Goto("publish") /\ UNCHANGED i
       ELSE Goto("resolve") /\ i' = i + 1

Begin ==
    /\ At("resolve") /\ i <= Last
    /\ IF req.batch[i] = "oversized" THEN Collect("oversized", FALSE)
       ELSE IF expired THEN Collect("unverified", FALSE)
       ELSE Goto("evaluate") /\ UNCHANGED <<i, choice, primaryRow>>
    /\ UNCHANGED <<setup, proto, expired, policy, panics, output, hostReads, record>>

\* Evaluation ended without a verdict: the deadline passed, or a limit was hit.
GivesUp(v) == expired \/ v = "unverifiable"
Outcome(v) == IF v \in {"warn", "ask", "deny"} THEN v ELSE "allow"
\* A verdict was reached.  The history rows of permitted and logged commands are
\* written here, whatever the batch comes to (and grants and permits used up:
\* see AllowOnce and RebaseRecovery).
Judge(v, rowsOn) ==
    /\ v # "unverifiable"
    /\ judged' = judged \cup {i}
    /\ rows' = IF rowsOn /\ v \in {"permitted", "log"} THEN rows \cup Row(i, "allow") ELSE rows

Evaluate ==
    /\ At("evaluate")
    /\ LET v == req.batch[i] IN
         \/ GivesUp(v) /\ Collect("unverified", FALSE) /\ UNCHANGED record
         \/ Judge(v, TRUE) /\ Collect(Outcome(v), v \in {"allow", "granted"})
    /\ UNCHANGED <<setup, proto, expired, policy, panics, output, hostReads>>

\* Mutant: the policy is disarmed for every request.
EndBatchDisarming ==
    /\ At("resolve") /\ i > Last
    /\ policy' = "off" /\ Goto(IF decisive # "allow" THEN "publish" ELSE "allowed")
    /\ UNCHANGED <<setup, i, proto, choice, primaryRow, expired, panics, output, hostReads, record>>

EndBatch ==
    /\ At("resolve") /\ i > Last
    /\ IF decisive # "allow" THEN Goto("publish") /\ UNCHANGED policy
       ELSE policy' = "off" /\ Goto("allowed")
    /\ UNCHANGED <<setup, i, proto, choice, primaryRow, expired, panics, output, hostReads, record>>

\* All entries are allowed: one row, for the primary command.
Allowed ==
    /\ At("allowed")
    /\ rows' = IF primaryRow THEN rows \cup Row(1, "allow") ELSE rows
    /\ Goto(IF Explicit(req.host) THEN "explicit" ELSE "finish")
    /\ UNCHANGED <<setup, i, proto, choice, primaryRow, expired, policy, panics, output, hostReads, judged>>

--------------------------------------------------------------------------------
(* Unreadable input *)

\* The scan windows of an unparsable payload: quick-rejected ones are skipped.
Salvage ==
    /\ At("salvage") /\ i <= Last
    /\ \/ /\ expired
          /\ decisive' = "unverified" /\ chosen' = i /\ Goto("publish") /\ UNCHANGED <<i, judged>>
       \/ /\ ~expired /\ req.batch[i] = "allow"
          /\ judged' = judged \cup {i} /\ i' = i + 1 /\ UNCHANGED <<pc, choice>>
       \/ ~expired /\ Goto("window") /\ UNCHANGED <<i, choice, judged>>
    /\ UNCHANGED <<setup, proto, primaryRow, expired, policy, panics, output, hostReads, rows>>

\* Only a denial or a review ends the scan; every other outcome is dropped.
Window ==
    /\ At("window")
    /\ LET v == req.batch[i] IN
         \/ /\ GivesUp(v) /\ i' = i + 1 /\ Goto("salvage") /\ UNCHANGED <<choice, record>>
         \/ /\ Judge(v, FALSE)
            /\ IF v \in {"ask", "deny"}
               THEN decisive' = v /\ chosen' = i /\ Goto("publish") /\ UNCHANGED i
               ELSE i' = i + 1 /\ Goto("salvage") /\ UNCHANGED choice
    /\ UNCHANGED <<setup, proto, primaryRow, expired, policy, panics, output, hostReads>>

EndSalvage ==
    /\ At("salvage") /\ i > Last /\ Goto("unparsed")
    /\ UNCHANGED <<setup, i, proto, choice, primaryRow, expired, policy, panics, output, hostReads, record>>

\* Mutant: fail-closed blocks parse errors only.
UnparsedJsonOnly ==
    /\ At("unparsed")
    /\ IF cfg.failClosed /\ req.form = "json"
       THEN /\ decisive' = "deny" /\ chosen' = 0 /\ rows' = rows \cup Row(0, "deny") /\ Goto("claim")
       ELSE /\ rows' = rows \cup Row(0, "allow") /\ Goto("finish") /\ UNCHANGED choice
    /\ UNCHANGED <<setup, i, proto, primaryRow, expired, policy, panics, output, hostReads, judged>>

Unparsed ==
    /\ At("unparsed")
    /\ IF cfg.failClosed /\ req.form # "io"
       THEN /\ decisive' = "deny" /\ chosen' = 0 /\ rows' = rows \cup Row(0, "deny") /\ Goto("claim")
       ELSE /\ rows' = rows \cup Row(0, "allow") /\ Goto("finish") /\ UNCHANGED choice
    /\ UNCHANGED <<setup, i, proto, primaryRow, expired, policy, panics, output, hostReads, judged>>

--------------------------------------------------------------------------------
(* Publishing *)

\* A denial's row is logged, and its short code recorded (see AllowOnce),
\* before the answer is written; the row of an unverified entry comes after.
Publish ==
    /\ At("publish")
    /\ rows' = CASE decisive \in Blocking -> rows \cup Row(chosen, "deny")
                 [] decisive = "warn"     -> rows \cup Row(chosen, "warn")
                 [] OTHER                 -> rows
    /\ Goto("claim")
    /\ UNCHANGED <<setup, i, proto, choice, primaryRow, expired, policy, panics, output, hostReads, judged>>

\* Whoever takes the claim writes; the other one writes nothing.
Claim ==
    /\ At("claim")
    /\ IF claimed
       THEN status' = StatusOf(proto, decisive, TRUE) /\ Goto("audit") /\ UNCHANGED claimed
       ELSE claimed' = TRUE /\ Goto("write") /\ UNCHANGED status
    /\ UNCHANGED <<setup, i, proto, choice, primaryRow, expired, policy, panics, docs, exit, hostReads, record>>

Write ==
    /\ At("write")
    /\ LET doc == Doc(proto, decisive, cfg.denies) IN
         docs' = Written(proto, doc) /\ status' = StatusOf(proto, decisive, Arrives(doc))
    /\ Goto("audit")
    /\ UNCHANGED <<setup, i, proto, choice, primaryRow, expired, policy, panics, claimed, exit, hostReads, record>>

\* Mutant: no row for an unverified entry.
AuditSilent ==
    /\ At("audit")
    /\ Goto(IF Explicit(req.host) /\ req.form = "shell" /\ req.batch # <<"oversized">> /\ status = 0
            THEN "explicit" ELSE "finish")
    /\ UNCHANGED <<setup, i, proto, choice, primaryRow, expired, policy, panics, output, hostReads, record>>

Audit ==
    /\ At("audit")
    /\ rows' = IF decisive = "unverified" THEN rows \cup Row(chosen, "deny") ELSE rows
    /\ Goto(IF Explicit(req.host) /\ req.form = "shell" /\ req.batch # <<"oversized">> /\ status = 0
            THEN "explicit" ELSE "finish")
    /\ UNCHANGED <<setup, i, proto, choice, primaryRow, expired, policy, panics, output, hostReads, judged>>

\* Mutant: the allow line is written without a claim.
ExplicitUnclaimed ==
    /\ At("explicit")
    /\ Goto("allowLine")
    /\ UNCHANGED <<setup, i, proto, choice, primaryRow, expired, policy, panics, output, hostReads, record>>

\* The explicit allow line, for a caller that asked for one.
ExplicitClaim ==
    /\ At("explicit")
    /\ claimed' = TRUE /\ Goto(IF claimed THEN "finish" ELSE "allowLine")
    /\ UNCHANGED <<setup, i, proto, choice, primaryRow, expired, policy, panics, docs, status, exit, hostReads, record>>

ExplicitWrite ==
    /\ At("allowLine")
    /\ docs' = Written(Proto(req.host), "allow") /\ Goto("finish")
    /\ UNCHANGED <<setup, i, proto, choice, primaryRow, expired, policy, panics, claimed, status, exit, hostReads, record>>

Finish ==
    /\ At("finish") /\ exit' = status
    /\ UNCHANGED <<setup, pc, i, proto, choice, primaryRow, expired, policy, panics, claimed, docs, status, hostReads, record>>

--------------------------------------------------------------------------------
(* Panics, the deadline and the host *)

\* Analysis workers that missed their time slice, and the history thread, run on.
WorkerAlive ==
    /\ pc \notin {"start", "read", "extract"}
    /\ pc \in {"salvage", "unparsed"} => i > 1

Panic(t) ==
    /\ ~Ended /\ fault = "none" /\ (t = "worker" => WorkerAlive)
    /\ fault' = t /\ held' = policy
    /\ IF policy = "off" THEN exit' = Aborted /\ UNCHANGED backstop
       ELSE backstop' = "claim" /\ UNCHANGED exit
    /\ UNCHANGED <<setup, pc, i, proto, choice, primaryRow, expired, policy, claimed, docs, status, hostReads, record>>

BackstopClaim ==
    /\ ~Ended /\ backstop = "claim"
    /\ IF claimed THEN exit' = 2 /\ backstop' = "done" /\ UNCHANGED claimed
       ELSE claimed' = TRUE /\ backstop' = "write" /\ UNCHANGED exit
    /\ UNCHANGED <<setup, pc, i, proto, choice, primaryRow, expired, policy, fault, held, docs, status, hostReads, record>>

BackstopWrite ==
    /\ ~Ended /\ backstop = "write"
    /\ LET doc == Doc(held, "unverified", cfg.denies) IN
         docs' = Written(held, doc) /\ exit' = StatusOf(held, "unverified", Arrives(doc))
    /\ backstop' = "done"
    /\ UNCHANGED <<setup, pc, i, proto, choice, primaryRow, expired, policy, fault, held, claimed, status, hostReads, record>>

Expire ==
    /\ ~Ended /\ ~expired /\ pc \notin {"start", "read"} /\ expired' = TRUE
    /\ UNCHANGED <<setup, pc, i, proto, choice, primaryRow, policy, panics, output, hostReads, record>>

HostCloses ==
    /\ ~Ended /\ hostReads /\ hostReads' = FALSE
    /\ UNCHANGED <<setup, pc, i, proto, choice, primaryRow, expired, policy, panics, output, record>>

Main ==
    \/ Configure \/ Read \/ Extract \/ Begin \/ Evaluate \/ EndBatch \/ Allowed
    \/ Salvage \/ Window \/ EndSalvage \/ Unparsed
    \/ Publish \/ Claim \/ Write \/ Audit \/ ExplicitClaim \/ ExplicitWrite \/ Finish
Backstop == BackstopClaim \/ BackstopWrite
Next ==
    \/ Main \/ Backstop
    \/ \E t \in FaultyThreads : Panic(t)
    \/ Expire \/ HostCloses

\* Both threads run until the process ends; nothing obliges a panic, an
\* expiry or the host.
Spec == Init /\ [][Next]_vars /\ WF_vars(Main) /\ WF_vars(Backstop)

--------------------------------------------------------------------------------
(* Properties *)

TypeOK ==
    /\ req \in [host : Hosts, form : Forms, batch : Seq(Verdicts)]
    /\ cfg \in [failClosed : BOOLEAN, denies : BOOLEAN, history : BOOLEAN]
    /\ proto \in Protocols /\ held \in Protocols \cup {"off"}
    /\ policy \in Protocols \cup {"off"}
    /\ pc \in {"start", "read", "extract", "resolve", "evaluate", "allowed", "salvage", "window",
               "unparsed", "publish", "claim", "write", "audit", "explicit", "allowLine", "finish"}
    /\ i \in 1..(Last + 1) /\ chosen \in 0..Last
    /\ decisive \in DOMAIN Rank
    /\ {primaryRow, expired, claimed, hostReads} \subseteq BOOLEAN
    /\ status \in {0, 1, 2} /\ exit \in {NotYet, 0, 1, 2, Aborted}
    /\ fault \in {"none", "main", "worker"} /\ backstop \in {"idle", "claim", "write", "done"}
    /\ docs \in Seq([to : Protocols, says : {"deny", "ask", "proceed", "allow"}])
    /\ rows \subseteq (0..Last) \X {"allow", "warn", "deny"}
    /\ judged \subseteq 1..Last

Harmful == {"ask", "deny"}

\* An answer given while the payload has not been read, or could not be, is in
\* the protocol of the detected agent, and means nothing to a host of another:
\* Codex knows no review (hook.rs:4001), Crush does not read the Claude shape
\* (hook.rs:712-717), Reasonix reads no document (main.rs:276-281).
Guessed ==
    /\ pc \in {"read", "extract"} \/ req.form \in Unreadable
    /\ \E k \in 1..Len(docs) : docs[k].to \notin Reads(req.host)

\* What the guarantees leave out: a crash before any policy is armed, an answer in
\* the guessed protocol of another host, an exit status that Antigravity does not
\* take for a refusal.  In the last, a worker's panic hook took the claim, and the
\* main thread, having found it taken, ended the process before it could write.
Excused ==
    \/ pc = "start"
    \/ Guessed
    \/ req.host = "antigravity" /\ exit = 2
    \/ backstop = "write"

\* A readable request runs only when every one of its entries was evaluated and
\* none was denied or put up for review: neither batch order, the deadline, a
\* panic, a closed pipe nor, once the payload is read, an agent not detected gets
\* an entry past the guard (main.rs:2339-2346, 2187-2194, 895-907;
\* hook.rs:735-745).  An unreadable one never runs in fail-closed mode
\* (a failed read apart), and outside it never once a scan window was judged
\* harmful (main.rs:397-406, 598-600).
GuardHolds ==
    HostRuns /\ ~Excused =>
        /\ req.form = "shell" => \A k \in 1..Last : k \in judged /\ req.batch[k] \notin Harmful
        /\ req.form \in Unreadable \ {"io"} =>
               ~cfg.failClosed /\ \A k \in judged : req.batch[k] \notin Harmful

\* The process puts at most one document on stdout, with the main thread and
\* the panic hook of another thread both ready to answer (hook.rs:841-847).
OneDocument == Len(docs) <= 1

Strength(v) == IF v = "unverifiable" THEN "unverified" ELSE IF v = "oversized" THEN v ELSE Outcome(v)
\* The answer is the one the strictest entry calls for, wherever it stands in
\* the batch (main.rs:2345-2346), when time does not run out and no entry hits a
\* limit: one that cannot be verified ends the scan before a later denial.
AnswerIsStrictest ==
    Ended /\ req.form = "shell" /\ fault = "none" /\ ~expired /\ hostReads
          /\ (\A k \in 1..Last : req.batch[k] # "unverifiable") =>
        \E k \in 1..Last :
            LET o == Strength(req.batch[k])
                doc == IF o = "allow" THEN Silent ELSE Doc(Proto(req.host), o, cfg.denies) IN
            /\ \A j \in 1..Last : Rank[Strength(req.batch[j])] <= Rank[o]
            /\ Says \ {"allow"} = {doc} \ {Silent}

\* A request whose entries are all allowed, logged or warned about runs: "The
\* command proceeds (allowed, warned, or logged). A caller that asked for an
\* explicit verdict gets one" (main.rs:2405-2407).
PermittedRequestRuns ==
    Ended /\ req.form = "shell" /\ fault = "none" /\ ~expired /\ hostReads
          /\ (\A k \in 1..Last : req.batch[k] \in {"allow", "granted", "permitted", "log", "warn"})
    => HostRuns

\* The history says a request was denied exactly when it was answered so (a
\* refusal for size leaves no row), and shows no held-back allow row for a
\* request that was not (main.rs:2391-2400, 314-358).
AuditAgrees ==
    Ended /\ req.form = "shell" /\ fault = "none" /\ cfg.history =>
        LET refused == exit = 2 \/ Says \cap Blocking # {}
            sized == decisive = "oversized" IN
        /\ (\E k \in 1..Last : <<k, "deny">> \in rows) <=> refused /\ ~sized
        /\ refused => (<<1, "allow">> \in rows => req.batch[1] \in {"permitted", "log"})

\* "Deadline exhaustion also returns a blocking decision" (main.rs:583): a
\* scan of an unreadable payload that time cut short does not let it run.
ExhaustedScanBlocks ==
    HostRuns /\ fault = "none" /\ req.form \in Unreadable /\ ~cfg.failClosed
             /\ (\A k \in 1..Last : req.batch[k] # "unverifiable") /\ ~Excused =>
        judged = 1..Last

\* Every request is answered with an exit status.
EveryRequestEnds == <>Ended
================================================================================
