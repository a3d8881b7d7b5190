---------------------------- MODULE MCHookRequest ----------------------------
(***************************************************************************)
(* Instances of HookRequest for TLC.                                       *)
(***************************************************************************)
EXTENDS HookRequest

\* One host per way of answering: documents of every kind, a review from every
\* verdict, a document for a warning, the exit status alone.
BatchHosts == {"claude", "codexask", "crush", "reasonix"}
Entries == {req.batch[k] : k \in DOMAIN req.batch}
BatchVerdicts == AllVerdicts \ {"unverifiable"}
\* The same, the host that wants every answer spelled out, and the one that
\* reads no exit status.
FaultHosts == {"claude", "codex", "opencode", "antigravity", "reasonix"}
FaultVerdicts == {"allow", "warn", "deny", "unverifiable", "oversized"}
MCHosts == BatchHosts \cup FaultHosts

\* Two kinds of request: a shell batch of every length and verdict without a
\* panic, from an agent that was not detected; and up to two entries, in every
\* form, with a panic at any point, from one that was detected, was not, or runs
\* inside the session of another.
Agents(h) == {Proto(h), "claude", "gemini"}
Calm == Len(req.batch) = MaxBatch \/ Entries \ FaultVerdicts # {}
SceneInit ==
    /\ Init
    /\ Calm => /\ req.form = "shell" /\ req.host \in BatchHosts /\ Entries \subseteq BatchVerdicts
               /\ proto = "claude"
    /\ ~Calm => /\ req.host \in FaultHosts /\ (req.host = "opencode" => "warn" \notin Entries)
                /\ proto \in Agents(req.host)
SceneNext == Next /\ (Calm => fault' = "none")
SceneSpec == SceneInit /\ [][SceneNext]_vars /\ WF_vars(Main) /\ WF_vars(Backstop)
==============================================================================
