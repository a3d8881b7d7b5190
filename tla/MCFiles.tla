-------------------------------- MODULE MCFiles --------------------------------
(* The files that hooks and commands change outside the stores: the permit of
   the rebase recovery, without a lock, and the host's settings, where only the
   healers lock, with the list of entries in it.  Each behaviour is about one
   of the three. *)
EXTENDS RebaseRecovery, SelfHeal, HookEntries

VARIABLE part

SomeHooks == {[who |-> "foreign", extra |-> 0]} \cup [who : {"ours", "stale"}, extra : {0, 1}]
HookLists == {<<>>} \cup {<<a>> : a \in SomeHooks} \cup {<<a, b>> : a, b \in SomeHooks}
EntriesOf(lists) == {[matcher |-> m, array |-> TRUE, hooks |-> l] : m \in Matchers, l \in lists}
NoArrays == {[matcher |-> m, array |-> FALSE, hooks |-> <<>>] : m \in Matchers}
AnyEntry   == EntriesOf(HookLists) \cup NoArrays
SmallEntry == EntriesOf({l \in HookLists : Len(l) = 1}) \cup NoArrays
\* Two entries of up to two hooks, or three of one.
SmallLists == {<<>>} \cup {<<a>> : a \in AnyEntry} \cup {<<a, b>> : a, b \in AnyEntry}
              \cup {<<a, b, c>> : a, b, c \in SmallEntry}

\* The parts a behaviour is not about stay at one initial state.
PermitIdle   == rebasing = FALSE /\ Init
SettingsIdle == settings = Absent /\ HealInit
EntriesIdle  == entries = <<>> /\ was = <<>> /\ did = "nothing"
FilesInit ==
    \/ part = "permit" /\ Init /\ SettingsIdle /\ EntriesIdle
    \/ part = "settings" /\ PermitIdle /\ HealInit /\ EntriesIdle
    \/ part = "entries" /\ PermitIdle /\ SettingsIdle /\ EntriesInit

FilesNext ==
    \/ part = "permit" /\ Next /\ UNCHANGED <<part, healVars, entryVars>>
    \/ part = "settings" /\ HealNext /\ UNCHANGED <<part, vars, entryVars>>
    \/ part = "entries" /\ EntriesNext /\ UNCHANGED <<part, vars, healVars>>

allVars == <<part, vars, healVars, entryVars>>
Looking(h) == part = "settings" /\ Look(h) /\ UNCHANGED <<part, vars, entryVars>>
Healing(h) == part = "settings" /\ Repair(h) /\ UNCHANGED <<part, vars, entryVars>>

\* The fairness of SelfHeal, where it applies.
FilesSpec ==
    /\ FilesInit
    /\ [][FilesNext]_allVars
    /\ \A h \in Healers : WF_allVars(Looking(h)) /\ WF_allVars(Healing(h))

\* The types of the two with a machine of their own.
TypesOK == TypeOK /\ HealTypeOK
================================================================================
