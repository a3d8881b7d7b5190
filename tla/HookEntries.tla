------------------------------ MODULE HookEntries ------------------------------
(***************************************************************************)
(* The list of PreToolUse entries in the host's settings, as `dcg install`,*)
(* the self-heal and `dcg uninstall` rewrite it.  An entry has a matcher   *)
(* and hooks; dcg's own may be under any matcher, several times, out of    *)
(* date, or with a timeout the operator gave it, among hooks of others.    *)
(***************************************************************************)
EXTENDS Naturals, FiniteSets, SequencesExt

CONSTANT Lists      \* the lists to start from

\* Who: dcg's hook as it writes it now, an older one of dcg's, a hook of others.
\* Extra: the fields that are the operator's or the host's.
\* Matcher: dcg's, one of its earlier ones, any other.  An entry whose hooks
\* are not an array has none; one without the field, under a matcher not
\* dcg's, is treated like one with an empty array.
HookObject == [who : {"ours", "stale", "foreign"}, extra : Nat]
Matchers == {"shell", "legacy", "other"}
Entry == {e \in [matcher : Matchers, array : BOOLEAN, hooks : Seq(HookObject)] : ~e.array => e.hooks = <<>>}

ASSUME ListsAssumption == Lists \subseteq Seq(Entry)

VARIABLES
    entries,        \* the list
    was, did        \* history: the list before the last command, and the command

entryVars == <<entries, was, did>>

IsDcg(h) == h.who # "foreign"
IsShell(e) == e.matcher = "shell"

\* The hooks that are dcg's, or are not.
Only(hooks, dcg) ==
    FlattenSeq([k \in DOMAIN hooks |-> IF IsDcg(hooks[k]) = dcg THEN <<hooks[k]>> ELSE <<>>])
DcgHooks(e) == Only(e.hooks, TRUE)
Stripped(e) == [e EXCEPT !.hooks = Only(@, FALSE)]

\* An entry that held nothing but hooks of dcg; one that was empty is not ours.
Emptied(e) == e.hooks # <<>> /\ Stripped(e).hooks = <<>>

\* The hook is judged by the fields that dcg owns.
Exact(e) == IsShell(e) /\ \E k \in DOMAIN e.hooks : e.hooks[k].who = "ours"
Registers(list) == \E p \in DOMAIN list : Exact(list[p])

Malformed(list) == \E p \in DOMAIN list : ~list[p].array /\ list[p].matcher # "other"

\* Mutant: only the entries under dcg's own matcher are looked at.
PreviousHere(list) == FlattenSeq([p \in DOMAIN list |-> IF IsShell(list[p]) THEN DcgHooks(list[p]) ELSE <<>>])
\* The dcg hooks in the list, those under dcg's own matcher first.
Previous(list) ==
    LET Under(own) == FlattenSeq([p \in DOMAIN list |->
                          IF IsShell(list[p]) = own THEN DcgHooks(list[p]) ELSE <<>>])
    IN  Under(TRUE) \o Under(FALSE)

\* dcg's hook as it is written: what is not dcg's own is taken over.
Desired(list) ==
    [who |-> "ours", extra |-> IF Previous(list) = <<>> THEN 0 ELSE Previous(list)[1].extra]

\* Mutant: dcg's hooks under other matchers are left.
CleanedOnlyShell(list, moved) ==
    FlattenSeq([p \in DOMAIN list |->
        IF p = moved \/ (IsShell(list[p]) /\ Emptied(list[p])) THEN <<>>
        ELSE IF IsShell(list[p]) THEN <<Stripped(list[p])>> ELSE <<list[p]>>])
\* The list without dcg's hooks, the entries left empty, and the entry moved.
Cleaned(list, moved) ==
    FlattenSeq([p \in DOMAIN list |->
        IF p = moved \/ Emptied(list[p]) THEN <<>> ELSE <<Stripped(list[p])>>])

\* The first entry under dcg's matcher, or a new one, comes first, with dcg's
\* hook first in it.
Installed(list) ==
    LET own == SelectInSeq(list, IsShell)
        entry == IF own = 0 THEN [matcher |-> "shell", array |-> TRUE, hooks |-> <<>>]
                 ELSE Stripped(list[own])
    IN  <<[entry EXCEPT !.hooks = <<Desired(list)>> \o @]>> \o Cleaned(list, own)

--------------------------------------------------------------------------------
EntriesInit == entries \in Lists /\ was = entries /\ did = "nothing"

Writes(list, command) ==
    IF command # "uninstall" /\ Malformed(entries)
    THEN did' = "failed" /\ UNCHANGED entries
    ELSE did' = command /\ entries' = list

InstallHook   == Writes(Installed(entries), "install") /\ was' = entries
\* The self-heal leaves a list alone that registers dcg in any way.
HealHook      == /\ ~Registers(entries)
                 /\ Writes(Installed(entries), "heal") /\ was' = entries
UninstallHook == Writes(Cleaned(entries, 0), "uninstall") /\ was' = entries

EntriesNext == InstallHook \/ HealHook \/ UninstallHook
EntriesSpec == EntriesInit /\ [][EntriesNext]_entryVars

--------------------------------------------------------------------------------
(* Properties *)

HooksUnder(list, m) == FlattenSeq([p \in DOMAIN list |-> IF list[p].matcher = m THEN list[p].hooks ELSE <<>>])
Foreign(list, m) == Only(HooksUnder(list, m), FALSE)
Unreadable(list) == FlattenSeq([p \in DOMAIN list |-> IF list[p].array THEN <<>> ELSE <<list[p]>>])
Dcg(list) == FlattenSeq([p \in DOMAIN list |-> DcgHooks(list[p])])
Written == did \in {"install", "heal"}

\* Exactly one hook of dcg's after an install, under its matcher, none after an
\* uninstall, wherever and however often there were some: "without adding
\* duplicate hooks" (README.md:1372).  "self-heal is idempotent" (cli.rs:31334):
\* what was written passes the next hook's check, and would be written again.
OneHook ==
    /\ Written => /\ Len(Dcg(entries)) = 1 /\ Exact(entries[1])
                  /\ Registers(entries) /\ Installed(entries) = entries
    /\ did = "uninstall" => Dcg(entries) = <<>>

\* "preserving unrelated hooks under their original matchers" (README.md:1364):
\* each matcher keeps the hooks of others, in their order, and entries dcg
\* cannot read stay.  "self-heal must not drop the timeout" (cli.rs:31396): what
\* all hooks of dcg's carried, the one that replaces them carries.
OthersKept ==
    /\ \A m \in Matchers : Foreign(entries, m) = Foreign(was, m)
    /\ Unreadable(entries) = Unreadable(was)
    /\ Written /\ Dcg(was) # <<>> /\ (\A j, k \in DOMAIN Dcg(was) : Dcg(was)[j].extra = Dcg(was)[k].extra)
        => Dcg(entries)[1].extra = Dcg(was)[1].extra
================================================================================
