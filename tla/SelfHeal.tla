------------------------------- MODULE SelfHeal -------------------------------
(***************************************************************************)
(* The settings file of the host, in which dcg's hook is registered, and   *)
(* the processes that write it: hooks that find the entry missing or stale *)
(* and repair it, `dcg install` and `dcg uninstall`, and the host itself.  *)
(*                                                                         *)
(* Healers take an advisory lock, read the file again and replace it by a  *)
(* rename.  The other writers know nothing of the lock: the commands       *)
(* truncate the file and write it in place.                                *)
(***************************************************************************)
EXTENDS Naturals, FiniteSets

CONSTANTS
    Healers,    \* hook process slots
    Dirs,       \* configuration directories of their environments
    MaxEdits, MaxCommands, MaxFaults    \* bounds: host edits, install and uninstall
                                        \* runs, crashes and failed writes

ASSUME BoundsAssumption == MaxEdits \in Nat /\ MaxCommands \in Nat /\ MaxFaults \in Nat

VARIABLES
    settings,           \* the file
    heal, snap, temp,   \* where each healer is, what it read, its temporary file
    lockfile, held,     \* the lock file each opened; the healers that hold theirs
    gen,                \* how often each directory was purged, and its lock file with it
    command, read,      \* the command running, what it read
    handle,             \* the file it writes: not open, of that name, replaced since
    lockedAt,           \* history: host edits when each healer took its lock
    edits, commands, faults, crashed,   \* history: how many; who crashed
    tore,               \* history: a command truncated the file
    repairs             \* history: repairs since the entry was last missing or stale

healVars == <<settings, heal, snap, temp, lockfile, held, gen, command, read, handle,
              lockedAt, edits, commands, faults, crashed, tore, repairs>>
healer == <<heal, snap, temp, lockfile, held, lockedAt, crashed>>
cli    == <<command, read, commands, tore>>

\* What dcg's entry is: as the healers want it, out of date, missing; and of a
\* file that does not parse or does not exist, "torn", "absent".  The rest of
\* the file is the number of the host edit it is from.
Content == [edit : 0..MaxEdits, hook : {"ours", "stale", "none", "torn", "absent"}]
Torn   == [edit |-> 0, hook |-> "torn"]
Absent == [edit |-> 0, hook |-> "absent"]
Broken(s) == s.hook \in {"stale", "none"}
Registered(s) == [s EXCEPT !.hook = "ours"]
Removed(s)    == [s EXCEPT !.hook = "none"]

HealInit ==
    /\ settings \in {Absent, [edit |-> 0, hook |-> "ours"], [edit |-> 0, hook |-> "none"]}
    /\ heal = [h \in Healers |-> "idle"] /\ snap = [h \in Healers |-> Absent]
    /\ temp = [h \in Healers |-> FALSE] /\ held = {} /\ gen = [d \in Dirs |-> 0]
    /\ lockfile \in [Healers -> {<<d, 0>> : d \in Dirs}]
    /\ command = "idle" /\ read = Absent /\ handle = "closed"
    /\ lockedAt = [h \in Healers |-> 0] /\ crashed = {} /\ tore = FALSE
    /\ edits = 0 /\ commands = 0 /\ faults = 0 /\ repairs = 0

--------------------------------------------------------------------------------
(* A hook process that finds its entry missing or stale *)

Detach == handle' = IF handle = "attached" THEN "detached" ELSE handle
At(h, l) == heal' = [heal EXCEPT ![h] = l]
\* Mutant: the lock outlives the repair.
LeaveLocked(h) == At(h, "idle") /\ UNCHANGED held
Leave(h) == At(h, "idle") /\ held' = held \ {h}

\* The first read takes no lock; the lock file is opened, or created.  A
\* process that finds nothing to repair changes nothing.
Look(h) ==
    /\ heal[h] = "idle" /\ Broken(settings)
    /\ At(h, "lock") /\ snap' = [snap EXCEPT ![h] = settings]
    /\ temp' = [temp EXCEPT ![h] = FALSE] /\ crashed' = crashed \ {h}
    /\ \E d \in Dirs : lockfile' = [lockfile EXCEPT ![h] = <<d, gen[d]>>]
    /\ UNCHANGED <<settings, held, gen, cli, handle, lockedAt, edits, faults, repairs>>

LockFree(h) == \A o \in held : lockfile[o] # lockfile[h]

\* Mutant: the lock is taken for granted.
TryLockAnyway(h) ==
    /\ heal[h] = "lock"
    /\ At(h, "reread") /\ held' = held \cup {h}
    /\ lockedAt' = [lockedAt EXCEPT ![h] = edits]
    /\ UNCHANGED <<settings, snap, temp, lockfile, crashed, gen, cli, handle, edits, faults, repairs>>
\* Five attempts to take the lock; still taken, the hook goes on without repair.
TryLock(h) ==
    /\ heal[h] = "lock"
    /\ \/ /\ LockFree(h) /\ At(h, "reread") /\ held' = held \cup {h}
          /\ lockedAt' = [lockedAt EXCEPT ![h] = edits]
       \/ ~LockFree(h) /\ Leave(h) /\ UNCHANGED lockedAt
    /\ UNCHANGED <<settings, snap, temp, lockfile, crashed, gen, cli, handle, edits, faults, repairs>>

\* Mutant: the first read is used.
RereadNot(h) ==
    /\ heal[h] = "reread" /\ At(h, "write")
    /\ UNCHANGED <<settings, snap, temp, lockfile, held, lockedAt, crashed, gen, cli, handle, edits, faults, repairs>>
\* The file is read again; one that is whole and right by now, or does not
\* parse, is left alone.
Reread(h) ==
    /\ heal[h] = "reread"
    /\ IF Broken(settings) THEN At(h, "write") /\ snap' = [snap EXCEPT ![h] = settings] /\ UNCHANGED held
       ELSE Leave(h) /\ UNCHANGED snap
    /\ UNCHANGED <<settings, temp, lockfile, lockedAt, crashed, gen, cli, handle, edits, faults, repairs>>

\* A failed write or rename removes the temporary file.
WriteFails(h) ==
    /\ faults < MaxFaults /\ faults' = faults + 1
    /\ temp' = [temp EXCEPT ![h] = FALSE] /\ Leave(h)

\* Mutant: the file is written in place.
WriteInPlace(h) ==
    /\ heal[h] = "write"
    /\ At(h, "rename") /\ settings' = Torn
    /\ UNCHANGED <<temp, held, faults, snap, lockfile, lockedAt, crashed, gen, cli, handle, edits, repairs>>
\* Mutant: a failed write leaves the temporary file.
WriteTempCareless(h) ==
    /\ heal[h] = "write"
    /\ \/ At(h, "rename") /\ temp' = [temp EXCEPT ![h] = TRUE] /\ UNCHANGED <<held, faults>>
       \/ /\ faults < MaxFaults /\ faults' = faults + 1
          /\ temp' = [temp EXCEPT ![h] = TRUE] /\ Leave(h)
    /\ UNCHANGED <<settings, snap, lockfile, lockedAt, crashed, gen, cli, handle, edits, repairs>>
\* The repaired content goes to a file next to the target, which gets the
\* target's permissions.
WriteTemp(h) ==
    /\ heal[h] = "write"
    /\ \/ At(h, "rename") /\ temp' = [temp EXCEPT ![h] = TRUE] /\ UNCHANGED <<held, faults>>
       \/ WriteFails(h)
    /\ UNCHANGED <<settings, snap, lockfile, lockedAt, crashed, gen, cli, handle, edits, repairs>>

\* The rename; a command that has the old file open writes to no name any more.
Replace(h) ==
    /\ heal[h] = "rename"
    /\ \/ /\ settings' = Registered(snap[h]) /\ Detach /\ repairs' = repairs + 1
          /\ temp' = [temp EXCEPT ![h] = FALSE] /\ Leave(h) /\ UNCHANGED faults
       \/ WriteFails(h) /\ UNCHANGED <<settings, handle, repairs>>
    /\ UNCHANGED <<snap, lockfile, lockedAt, crashed, gen, cli, edits>>

\* The process dies: its lock goes with it, its temporary file does not.
HealerDies(h) ==
    /\ heal[h] # "idle" /\ faults < MaxFaults /\ faults' = faults + 1
    /\ Leave(h) /\ crashed' = crashed \cup {h}
    /\ temp' \in {temp, [temp EXCEPT ![h] = temp[h] \/ heal[h] = "write"]}
    /\ UNCHANGED <<settings, snap, lockfile, lockedAt, gen, cli, handle, edits, repairs>>

--------------------------------------------------------------------------------
(* dcg install and dcg uninstall *)

Commands == {"install", "uninstall"}
Rewritten(c, s) == IF c = "install" THEN Registered(s) ELSE Removed(s)
Done(c, s) == IF c = "install" THEN s.hook = "ours" ELSE s.hook \in {"none", "absent"}

\* Nothing is written when nothing changes.  A file that does not parse ends
\* the command; install creates one that does not exist.
CommandReads(c) ==
    /\ command = "idle" /\ commands < MaxCommands /\ commands' = commands + 1
    /\ read' = settings
    /\ command' = IF settings = Torn THEN "idle"
                  ELSE IF ~Done(c, settings) THEN c
                  ELSE IF c = "uninstall" /\ settings # Absent THEN "purge" ELSE "idle"
    /\ UNCHANGED <<settings, healer, gen, handle, edits, faults, tore, repairs>>

Truncate ==
    /\ command \in Commands /\ handle = "closed"
    /\ settings' = Torn /\ handle' = "attached" /\ tore' = TRUE
    /\ UNCHANGED <<healer, gen, command, read, commands, edits, faults, repairs>>

\* The bytes reach the file it truncated, whether or not it has a name still.
CommandWrites ==
    /\ handle # "closed" /\ handle' = "closed"
    /\ IF handle = "attached"
       THEN /\ settings' = Rewritten(command, read)
            /\ repairs' = IF command = "uninstall" THEN 0 ELSE repairs
       ELSE UNCHANGED <<settings, repairs>>
    /\ command' = IF command = "uninstall" THEN "purge" ELSE "idle"
    /\ UNCHANGED <<healer, gen, read, commands, tore, edits, faults>>

\* uninstall --purge removes a configuration directory, lock files included.
Purge ==
    /\ command = "purge" /\ command' = "idle"
    /\ \/ \E d \in Dirs : gen' = [gen EXCEPT ![d] = @ + 1]
       \/ UNCHANGED gen
    /\ UNCHANGED <<settings, healer, read, handle, commands, tore, edits, faults, repairs>>

CommandDies ==
    /\ command # "idle" /\ faults < MaxFaults /\ faults' = faults + 1
    /\ command' = "idle" /\ handle' = "closed"
    /\ UNCHANGED <<settings, healer, gen, read, commands, tore, edits, repairs>>

--------------------------------------------------------------------------------
\* The host replaces the file by content of its own, with or without the entry.
HostEdit ==
    /\ edits < MaxEdits /\ edits' = edits + 1
    /\ \E k \in {"ours", "stale", "none"} :
         /\ settings' = [edit |-> edits + 1, hook |-> k]
         /\ repairs' = IF k = "ours" THEN repairs ELSE 0
    /\ Detach
    /\ UNCHANGED <<healer, gen, cli, faults>>

Repair(h) == TryLock(h) \/ Reread(h) \/ WriteTemp(h) \/ Replace(h)
Healer(h) == Look(h) \/ Repair(h) \/ HealerDies(h)
Command == (\E c \in Commands : CommandReads(c)) \/ Truncate \/ CommandWrites \/ Purge \/ CommandDies
HealNext == (\E h \in Healers : Healer(h)) \/ Command \/ HostEdit

\* A process under way goes on, and the host keeps running hooks.
HealFairness == \A h \in Healers : WF_healVars(Repair(h)) /\ WF_healVars(Look(h))
HealSpec == HealInit /\ [][HealNext]_healVars /\ HealFairness

--------------------------------------------------------------------------------
(* Properties *)

\* Types; and a repair starts from a file that parses and lacks the entry
\* ("corrupt settings must not be modified or truncated", cli.rs:31420).
HealTypeOK ==
    /\ settings \in Content /\ read \in Content /\ snap \in [Healers -> Content]
    /\ heal \in [Healers -> {"idle", "lock", "reread", "write", "rename"}]
    /\ temp \in [Healers -> BOOLEAN] /\ gen \in [Dirs -> Nat]
    /\ lockfile \in [Healers -> Dirs \X Nat]
    /\ held = {h \in Healers : heal[h] \in {"reread", "write", "rename"}}
    /\ command \in Commands \cup {"idle", "purge"} /\ handle \in {"closed", "attached", "detached"}
    /\ handle # "closed" => command \in Commands
    /\ lockedAt \in [Healers -> 0..MaxEdits] /\ edits \in 0..MaxEdits
    /\ commands \in 0..MaxCommands /\ faults \in 0..MaxFaults /\ repairs \in Nat
    /\ crashed \subseteq Healers /\ tore \in BOOLEAN
    /\ \A h \in Healers : heal[h] \in {"write", "rename"} => Broken(snap[h])

NoPurge == \A d \in Dirs : gen[d] = 0

\* The lock serializes healers, "so two dcg hook processes cannot interleave
\* read-modify-write" (cli.rs:18384-18385): what goes wrong once is repaired
\* once.  (A purge takes the lock file away from under them.)
OneRepair == NoPurge => repairs <= 1

\* "a crash mid-write leaves the original file intact instead of
\* truncated/invalid JSON" (cli.rs:18282-18283): whatever healers do and
\* wherever they stop, only a command's write in place leaves such a file.
TornOnlyByCommands == settings = Torn => tore

\* "Every failure after this point must remove the temp file"
\* (cli.rs:18311): a temporary file is left by processes that died only.
OnlyCrashesLitter == \A h \in Healers : heal[h] = "idle" /\ temp[h] => h \in crashed

\* What crashes and failures of healers leave: a file that is whole, and of the
\* failures nothing.
CrashSafe == TornOnlyByCommands /\ OnlyCrashesLitter

\* The content repaired is "the freshest snapshot" (cli.rs:18392): what a
\* repair overwrites unread was written after its healer took the lock.
LostOnlyInWindow ==
    NoPurge => \A h \in Healers :
        heal[h] \in {"write", "rename"} /\ settings.edit > snap[h].edit => settings.edit > lockedAt[h]

\* While hooks are run and failures end, a missing entry does not stay missing,
\* though healers give way to each other and to nobody who never repairs. This is
\* for lists of entries that an install understands; a malformed one fails it every
\* time (HookEntries).
Repaired == Broken(settings) ~> ~Broken(settings)
================================================================================
