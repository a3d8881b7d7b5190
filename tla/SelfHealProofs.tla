---------------------------- MODULE SelfHealProofs ----------------------------
(***************************************************************************)
(* What the repair of the settings file keeps to, for any number of hook   *)
(* processes, edits, commands, crashes and failed writes.                  *)
(*                                                                         *)
(* The lock serializes healers that open the same lock file: those with    *)
(* one configuration directory among them (SelfHeal_dirs.cfg has two).     *)
(*                                                                         *)
(* And what an install, a repair and an uninstall make of the list of      *)
(* hook entries, for any list of any length.  Everything they do is a      *)
(* sequence per entry, joined (Each); what joining does is proved first,   *)
(* the fold behind FlattenSeq by its recursive equation (Sums), where a    *)
(* list that breaks a statement would have a shortest beginning that       *)
(* breaks it (LeastOne, Climb).  An install splits the list around the     *)
(* first entry under dcg's matcher (Around); what was written splits the   *)
(* same way, which is why it is written again unchanged (InstalledKeeps).  *)
(***************************************************************************)
EXTENDS SelfHeal, HookEntries, WellFoundedInduction, TLAPS

OneDir == \A d, e \in Dirs : d = e

Working == {"reread", "write", "rename"}
Repairing == {"write", "rename"}

\* The temporary file exists from its write to the rename; whoever leaves one
\* behind has died.
Temps ==
    /\ \A h \in Healers : heal[h] \in {"lock", "reread", "write"} => ~temp[h]
    /\ OnlyCrashesLitter

\* While no directory was purged every healer has the first lock file of its
\* directory, so that of one directory one healer holds the lock.
Locks ==
    NoPurge =>
        /\ \A h \in Healers : \E d \in Dirs : lockfile[h] = <<d, 0>>
        /\ OneDir => \A g, h \in held : g = h

\* What is broken is not repaired yet, and nobody repairs it but the healer
\* that holds the lock.
Repairs ==
    /\ Broken(settings) => repairs = 0
    /\ OneDir /\ NoPurge =>
        /\ repairs <= 1
        /\ \A h \in Healers : heal[h] \in Repairing => repairs = 0

\* Nothing is newer than the last edit.
Numbers ==
    /\ settings.edit <= edits /\ read.edit <= edits
    /\ \A h \in Healers : lockedAt[h] <= edits /\ snap[h].edit <= edits

\* A command that is going to write has read nothing newer than a broken file
\* it overwrites; a file newer than what a healer read is from after its lock,
\* and so is what a command may still put in its place.
Ages ==
    /\ command \in Commands /\ Broken(settings) => read.edit <= settings.edit
    /\ OneDir /\ NoPurge =>
        \A h \in Healers : heal[h] \in Repairing =>
            /\ settings.edit > snap[h].edit => settings.edit > lockedAt[h]
            /\ command \in Commands /\ read.edit > snap[h].edit => read.edit > lockedAt[h]

HealInv == HealTypeOK /\ TornOnlyByCommands /\ Temps /\ Locks /\ Repairs /\ Numbers /\ Ages

--------------------------------------------------------------------------------
\* A rewritten file parses, with the entry or without, and is as old as before.
LEMMA RewrittenFacts ==
    ASSUME NEW s \in Content
    PROVE  /\ Registered(s) \in Content /\ Removed(s) \in Content
           /\ Registered(s).edit = s.edit /\ Removed(s).edit = s.edit
           /\ Registered(s).hook = "ours" /\ Removed(s).hook = "none"
           /\ ~Broken(Registered(s)) /\ Registered(s) # Torn /\ Removed(s) # Torn
           /\ s.edit \in 0..MaxEdits
BY DEF Content, Registered, Removed, Broken, Torn

\* What is not there, or does not parse, is not broken.
LEMMA TornFacts ==
    /\ Torn \in Content /\ Absent \in Content /\ ~Broken(Torn) /\ ~Broken(Absent) /\ Absent # Torn
    /\ Torn.edit = 0
BY BoundsAssumption DEF Torn, Absent, Content, Broken

\* The invariant holds at the start.
LEMMA HealInitInv == HealInit => HealInv
<1> SUFFICES ASSUME HealInit PROVE HealInv OBVIOUS
<1>1. settings \in Content /\ settings # Torn
  BY BoundsAssumption DEF HealInit, Content, Absent, Torn
<1>2. HealTypeOK
  <2>1. lockfile \in [Healers -> Dirs \X Nat] /\ gen \in [Dirs -> Nat]
    BY DEF HealInit
  <2>2. held = {h \in Healers : heal[h] \in {"reread", "write", "rename"}}
    BY DEF HealInit
  <2>3. /\ heal \in [Healers -> {"idle", "lock", "reread", "write", "rename"}]
        /\ snap \in [Healers -> Content] /\ temp \in [Healers -> BOOLEAN]
        /\ lockedAt \in [Healers -> 0..MaxEdits] /\ \A h \in Healers : heal[h] = "idle"
    BY BoundsAssumption, TornFacts DEF HealInit
  <2>4. read \in Content /\ command = "idle" /\ handle = "closed" /\ tore = FALSE /\ crashed = {}
    BY TornFacts DEF HealInit
  <2>5. /\ edits \in 0..MaxEdits /\ commands \in 0..MaxCommands
        /\ faults \in 0..MaxFaults /\ repairs \in Nat
    BY BoundsAssumption DEF HealInit
  <2> QED BY <1>1, <2>1, <2>2, <2>3, <2>4, <2>5 DEF HealTypeOK
<1>3. TornOnlyByCommands /\ Temps
  BY <1>1 DEF HealInit, TornOnlyByCommands, Temps, OnlyCrashesLitter
<1>4. Locks
  BY DEF HealInit, Locks
<1>5. Repairs
  BY DEF HealInit, Repairs, Repairing
<1>6. Ages
  BY BoundsAssumption DEF HealInit, Ages, Repairing, Commands
<1>7. Numbers
  <2>1. settings.edit = 0 /\ Absent.edit = 0
    BY DEF HealInit, Absent
  <2> QED BY <2>1 DEF HealInit, Numbers
<1> QED BY <1>2, <1>3, <1>4, <1>5, <1>6, <1>7 DEF HealInv

\* A purge is never undone.
LEMMA PurgeStays == HealTypeOK /\ HealNext /\ NoPurge' => NoPurge /\ UNCHANGED gen
<1> SUFFICES ASSUME HealTypeOK, HealNext, NoPurge' PROVE NoPurge /\ UNCHANGED gen OBVIOUS
<1>1. CASE UNCHANGED gen
  BY <1>1 DEF NoPurge
<1>2. CASE \E d \in Dirs : gen' = [gen EXCEPT ![d] = @ + 1]
  <2>1. PICK d \in Dirs : gen' = [gen EXCEPT ![d] = @ + 1]
    BY <1>2
  <2>2. gen'[d] = gen[d] + 1 /\ gen[d] \in Nat
    BY <2>1 DEF HealTypeOK
  <2> QED BY <2>2 DEF NoPurge
<1>3. UNCHANGED gen \/ \E d \in Dirs : gen' = [gen EXCEPT ![d] = @ + 1]
  BY DEF HealNext, Healer, Repair, Look, TryLock, Reread, WriteTemp, Replace, HealerDies, Command,
         CommandReads, Truncate, CommandWrites, Purge, CommandDies, HostEdit
<1> QED BY <1>1, <1>2, <1>3

--------------------------------------------------------------------------------
(* Healers *)

\* A healer that looks, and opens the lock file.
LEMMA LookKeeps ==
    ASSUME NEW h \in Healers, HealInv, Look(h)
    PROVE  HealInv'
<1> USE DEF HealInv
<1>1. HealTypeOK'
  BY DEF HealTypeOK, Look, At, cli
<1>2. TornOnlyByCommands' /\ Temps'
  BY DEF TornOnlyByCommands, Temps, OnlyCrashesLitter, Look, At, HealTypeOK, cli
<1>3. Locks'
  <2>1. h \notin held /\ UNCHANGED <<held, gen>>
    BY DEF Look, HealTypeOK
  <2>2. PICK d \in Dirs : lockfile' = [lockfile EXCEPT ![h] = <<d, gen[d]>>]
    BY DEF Look
  <2> QED BY <2>1, <2>2 DEF Locks, NoPurge, HealTypeOK
<1>4. Repairs'
  BY DEF Repairs, Look, At, HealTypeOK, Repairing, NoPurge
<1>5. Ages'
  BY DEF Ages, Look, At, HealTypeOK, Repairing, NoPurge, cli
<1>6. Numbers'
  BY DEF Numbers, Look, HealTypeOK, cli
<1> QED BY <1>1, <1>2, <1>3, <1>4, <1>5, <1>6

\* A healer that takes the lock, or gives way.
LEMMA TryLockKeeps ==
    ASSUME NEW h \in Healers, HealInv, TryLock(h)
    PROVE  HealInv'
<1> USE DEF HealInv
<1>1. HealTypeOK'
  BY DEF HealTypeOK, TryLock, At, Leave, cli
<1>2. TornOnlyByCommands' /\ Temps'
  BY DEF TornOnlyByCommands, Temps, OnlyCrashesLitter, TryLock, At, Leave, HealTypeOK, cli
<1>3. Locks'
  <2>1. CASE LockFree(h) /\ held' = held \cup {h}
    <3>1. ASSUME OneDir, NoPurge, NEW g \in held PROVE FALSE
      BY <2>1, <3>1 DEF Locks, LockFree, OneDir, HealTypeOK
    <3> QED BY <2>1, <3>1 DEF Locks, NoPurge, OneDir, TryLock
  <2>2. CASE held' = held \ {h}
    BY <2>2 DEF Locks, NoPurge, OneDir, TryLock
  <2> QED BY <2>1, <2>2 DEF TryLock, Leave
<1>4. Repairs'
  BY DEF Repairs, TryLock, At, Leave, HealTypeOK, Repairing, NoPurge
<1>5. Ages'
  BY DEF Ages, TryLock, At, Leave, HealTypeOK, Repairing, NoPurge, cli
<1>6. Numbers'
  BY BoundsAssumption DEF Numbers, TryLock, HealTypeOK, cli
<1> QED BY <1>1, <1>2, <1>3, <1>4, <1>5, <1>6

\* A healer that reads again: what is broken now is not repaired yet.
LEMMA RereadKeeps ==
    ASSUME NEW h \in Healers, HealInv, Reread(h)
    PROVE  HealInv'
<1> USE DEF HealInv
<1>1. HealTypeOK'
  BY DEF HealTypeOK, Reread, At, Leave, cli
<1>2. TornOnlyByCommands' /\ Temps'
  BY DEF TornOnlyByCommands, Temps, OnlyCrashesLitter, Reread, At, Leave, HealTypeOK, cli
<1>3. Locks'
  BY DEF Locks, NoPurge, Reread, At, Leave
<1>4. Repairs'
  BY DEF Repairs, Reread, At, Leave, HealTypeOK, Repairing, NoPurge
<1>5. Ages'
  <2>1. ASSUME NEW g \in Healers, heal'[g] \in Repairing, g # h
        PROVE  heal[g] \in Repairing /\ snap'[g] = snap[g]
    BY <2>1 DEF Reread, At, Leave, HealTypeOK
  <2>2. ASSUME heal'[h] \in Repairing PROVE snap'[h] = settings /\ Broken(settings)
    BY <2>2 DEF Reread, At, Leave, HealTypeOK, Repairing
  <2>3. settings.edit \in Nat /\ read.edit \in Nat
    BY BoundsAssumption DEF HealTypeOK, Content
  <2> QED BY <2>1, <2>2, <2>3 DEF Ages, Reread, NoPurge, cli
<1>6. Numbers'
  BY DEF Numbers, Reread, HealTypeOK, cli
<1> QED BY <1>1, <1>2, <1>3, <1>4, <1>5, <1>6

\* A healer that writes its temporary file, or fails to.
LEMMA WriteTempKeeps ==
    ASSUME NEW h \in Healers, HealInv, WriteTemp(h)
    PROVE  HealInv'
<1> USE DEF HealInv
<1>1. HealTypeOK'
  <2>1. /\ held' = {g \in Healers : heal'[g] \in {"reread", "write", "rename"}}
        /\ \A g \in Healers : heal'[g] \in {"write", "rename"} => heal[g] \in {"write", "rename"}
    BY DEF HealTypeOK, WriteTemp, WriteFails, At, Leave
  <2>2. /\ heal' \in [Healers -> {"idle", "lock", "reread", "write", "rename"}]
        /\ temp' \in [Healers -> BOOLEAN]
    BY DEF HealTypeOK, WriteTemp, WriteFails, At, Leave
  <2>3. faults' \in 0..MaxFaults
    BY BoundsAssumption DEF HealTypeOK, WriteTemp, WriteFails
  <2> QED BY <2>1, <2>2, <2>3 DEF HealTypeOK, WriteTemp, cli
<1>2. TornOnlyByCommands' /\ Temps'
  BY DEF TornOnlyByCommands, Temps, OnlyCrashesLitter, WriteTemp, WriteFails, At, Leave, HealTypeOK, cli
<1>3. Locks'
  BY DEF Locks, NoPurge, WriteTemp, WriteFails, At, Leave
<1>4. Repairs'
  BY DEF Repairs, WriteTemp, WriteFails, At, Leave, HealTypeOK, Repairing, NoPurge
<1>5. Ages'
  BY DEF Ages, WriteTemp, WriteFails, At, Leave, HealTypeOK, Repairing, NoPurge, cli
<1>6. Numbers'
  BY DEF Numbers, WriteTemp, HealTypeOK, cli
<1> QED BY <1>1, <1>2, <1>3, <1>4, <1>5, <1>6

\* A process that dies.
LEMMA DiesKeeps ==
    ASSUME NEW h \in Healers, HealInv, HealerDies(h)
    PROVE  HealInv'
<1> USE DEF HealInv
<1>1. temp' \in [Healers -> BOOLEAN] /\ \A g \in Healers : g # h => temp'[g] = temp[g]
  BY DEF HealerDies, HealTypeOK
<1>2. HealTypeOK'
  <2>1. /\ held' = {g \in Healers : heal'[g] \in {"reread", "write", "rename"}}
        /\ \A g \in Healers : heal'[g] \in {"write", "rename"} => heal[g] \in {"write", "rename"}
    BY DEF HealTypeOK, HealerDies, At, Leave
  <2>2. /\ heal' \in [Healers -> {"idle", "lock", "reread", "write", "rename"}]
        /\ faults' \in 0..MaxFaults /\ crashed' \subseteq Healers
    BY BoundsAssumption DEF HealTypeOK, HealerDies, At, Leave
  <2> QED BY <1>1, <2>1, <2>2 DEF HealTypeOK, HealerDies, cli
<1>3. TornOnlyByCommands' /\ Temps'
  BY <1>1 DEF TornOnlyByCommands, Temps, OnlyCrashesLitter, HealerDies, At, Leave, HealTypeOK, cli
<1>4. Locks'
  BY DEF Locks, NoPurge, HealerDies, At, Leave
<1>5. Repairs'
  BY DEF Repairs, HealerDies, At, Leave, HealTypeOK, Repairing, NoPurge
<1>6. Ages'
  BY DEF Ages, HealerDies, At, Leave, HealTypeOK, Repairing, NoPurge, cli
<1>7. Numbers'
  BY DEF Numbers, HealerDies, HealTypeOK, cli
<1> QED BY <1>2, <1>3, <1>4, <1>5, <1>6, <1>7

\* The rename: of one directory this healer is the only one at work, so that
\* nothing broken is repaired a second time.
LEMMA ReplaceKeeps ==
    ASSUME NEW h \in Healers, HealInv, Replace(h)
    PROVE  HealInv'
<1> USE DEF HealInv
<1>1. CASE /\ settings' = Registered(snap[h]) /\ Detach /\ repairs' = repairs + 1
           /\ temp' = [temp EXCEPT ![h] = FALSE] /\ Leave(h) /\ UNCHANGED faults
  <2>1. /\ snap[h] \in Content /\ heal[h] = "rename" /\ h \in held
        /\ settings' \in Content /\ settings' # Torn /\ ~Broken(settings')
    BY <1>1, RewrittenFacts DEF HealTypeOK, Replace
  <2>2. HealTypeOK'
    BY <1>1, <2>1 DEF HealTypeOK, Replace, At, Leave, Detach, cli
  <2>3. TornOnlyByCommands' /\ Temps'
    BY <1>1, <2>1 DEF TornOnlyByCommands, Temps, OnlyCrashesLitter, Replace, At, Leave, HealTypeOK, cli
  <2>4. Locks'
    BY <1>1 DEF Locks, NoPurge, Replace, At, Leave
  <2>5. OneDir /\ NoPurge => \A g \in Healers : heal'[g] \notin Repairing
    BY <1>1, <2>1 DEF Locks, HealTypeOK, At, Leave, Repairing
  <2>6. Repairs'
    BY <1>1, <2>1, <2>5 DEF Repairs, Repairing, Replace, NoPurge, OneDir
  <2>7. Ages'
    BY <1>1, <2>1, <2>5 DEF Ages, Replace, NoPurge, OneDir, cli
  <2>8. Numbers'
    <3>1. settings'.edit = snap[h].edit
      BY <1>1, <2>1, RewrittenFacts
    <3> QED BY <3>1 DEF Numbers, Replace, cli
  <2> QED BY <2>2, <2>3, <2>4, <2>6, <2>7, <2>8
<1>2. CASE WriteFails(h) /\ UNCHANGED <<settings, handle, repairs>>
  <2>1. HealTypeOK'
    BY <1>2, BoundsAssumption DEF HealTypeOK, Replace, WriteFails, At, Leave, cli
  <2>2. TornOnlyByCommands' /\ Temps'
    BY <1>2 DEF TornOnlyByCommands, Temps, OnlyCrashesLitter, Replace, WriteFails, At, Leave, HealTypeOK, cli
  <2>3. Locks'
    BY <1>2 DEF Locks, NoPurge, Replace, WriteFails, At, Leave
  <2>4. Repairs'
    BY <1>2 DEF Repairs, Replace, WriteFails, At, Leave, HealTypeOK, Repairing, NoPurge
  <2>5. Ages'
    BY <1>2 DEF Ages, Replace, WriteFails, At, Leave, HealTypeOK, Repairing, NoPurge, cli
  <2>6. Numbers'
    BY <1>2 DEF Numbers, Replace, cli
  <2> QED BY <2>1, <2>2, <2>3, <2>4, <2>5, <2>6
<1> QED BY <1>1, <1>2 DEF Replace

--------------------------------------------------------------------------------
(* Commands and the host *)

\* A command that reads the file, or finds nothing to do.
LEMMA ReadsKeeps ==
    ASSUME NEW c \in Commands, HealInv, CommandReads(c)
    PROVE  HealInv'
<1> USE DEF HealInv
<1>1. UNCHANGED <<settings, heal, snap, temp, lockfile, held, lockedAt, crashed, gen, handle, edits,
                  faults, tore, repairs>>
  BY DEF CommandReads, healer
<1>2. /\ commands' \in 0..MaxCommands /\ read' = settings /\ handle = "closed"
      /\ command' \in Commands \cup {"idle", "purge"}
  BY BoundsAssumption DEF CommandReads, HealTypeOK, Commands
<1>3. HealTypeOK'
  BY <1>1, <1>2 DEF HealTypeOK
<1>4. TornOnlyByCommands' /\ Temps' /\ Locks' /\ Repairs'
  BY <1>1 DEF TornOnlyByCommands, Temps, OnlyCrashesLitter, Locks, Repairs, NoPurge
<1>5. settings.edit \in Nat /\ settings.edit <= settings.edit
  BY BoundsAssumption DEF HealTypeOK, Content
<1>6. Ages'
  BY <1>1, <1>2, <1>5 DEF Ages, NoPurge
<1>7. Numbers'
  BY <1>1, <1>2 DEF Numbers
<1> QED BY <1>3, <1>4, <1>6, <1>7

\* A command that truncates the file: what is torn is nobody's to repair.
LEMMA TruncateKeeps ==
    ASSUME HealInv, Truncate
    PROVE  HealInv'
<1> USE DEF HealInv
<1>1. UNCHANGED <<heal, snap, temp, lockfile, held, lockedAt, crashed, gen, command, read, commands, edits,
                  faults, repairs>>
  BY DEF Truncate, healer
<1>2. /\ settings' = Torn /\ ~Broken(settings') /\ settings' \in Content /\ settings'.edit = 0
      /\ command \in Commands /\ handle' = "attached" /\ tore' = TRUE
  BY TornFacts DEF Truncate
<1>3. HealTypeOK'
  BY <1>1, <1>2 DEF HealTypeOK
<1>4. TornOnlyByCommands' /\ Temps' /\ Locks' /\ Repairs'
  BY <1>1, <1>2 DEF TornOnlyByCommands, Temps, OnlyCrashesLitter, Locks, Repairs, NoPurge
<1>5. \A h \in Healers : snap[h].edit \in Nat
  BY BoundsAssumption DEF HealTypeOK, Content
<1>6. Ages'
  BY <1>1, <1>2, <1>5 DEF Ages, NoPurge, Repairing, HealTypeOK
<1>7. Numbers'
  BY <1>1, <1>2, BoundsAssumption DEF Numbers, HealTypeOK
<1> QED BY <1>3, <1>4, <1>6, <1>7

\* A command whose bytes reach the file, or no file any more.
LEMMA WritesKeeps ==
    ASSUME HealInv, CommandWrites
    PROVE  HealInv'
<1> USE DEF HealInv
<1>1. /\ UNCHANGED <<heal, snap, temp, lockfile, held, lockedAt, crashed, gen, read, commands, tore, edits, faults>>
      /\ handle' = "closed" /\ command \in Commands /\ command' \in {"idle", "purge"} /\ command' \notin Commands
  BY DEF CommandWrites, healer, HealTypeOK, Commands
<1>2. CASE UNCHANGED <<settings, repairs>>
  <2>1. HealTypeOK'
    BY <1>1, <1>2 DEF HealTypeOK
  <2>2. TornOnlyByCommands' /\ Temps' /\ Locks' /\ Repairs' /\ Ages'
    BY <1>1, <1>2 DEF TornOnlyByCommands, Temps, OnlyCrashesLitter, Locks, Repairs, Ages, NoPurge
  <2>3. Numbers'
    BY <1>1, <1>2 DEF Numbers
  <2> QED BY <2>1, <2>2, <2>3
<1>3. CASE /\ settings' = Rewritten(command, read)
           /\ repairs' = IF command = "uninstall" THEN 0 ELSE repairs
  <2>1. /\ settings' \in Content /\ settings' # Torn /\ settings'.edit = read.edit
        /\ Broken(settings') => command = "uninstall"
    <3>1. CASE command = "install"
      <4>1. settings' = Registered(read) /\ read \in Content
        BY <1>3, <3>1 DEF Rewritten, HealTypeOK
      <4> QED BY <4>1, RewrittenFacts
    <3>2. CASE command = "uninstall"
      <4>1. settings' = Removed(read) /\ read \in Content
        BY <1>3, <3>2 DEF Rewritten, HealTypeOK
      <4> QED BY <3>2, <4>1, RewrittenFacts
    <3> QED BY <1>1, <3>1, <3>2 DEF Commands
  <2>2. HealTypeOK'
    BY <1>1, <1>3, <2>1 DEF HealTypeOK
  <2>3. TornOnlyByCommands' /\ Temps' /\ Locks'
    BY <1>1, <2>1 DEF TornOnlyByCommands, Temps, OnlyCrashesLitter, Locks, NoPurge
  <2>4. Repairs'
    BY <1>1, <1>3, <2>1 DEF Repairs, NoPurge
  <2>5. Ages'
    BY <1>1, <2>1 DEF Ages, NoPurge
  <2>6. Numbers'
    BY <1>1, <2>1 DEF Numbers
  <2> QED BY <2>2, <2>3, <2>4, <2>5, <2>6
<1> QED BY <1>2, <1>3 DEF CommandWrites

\* A purge, and a command that dies.
LEMMA EndsKeeps ==
    ASSUME HealInv, Purge \/ CommandDies
    PROVE  HealInv'
<1> USE DEF HealInv
<1>1. /\ UNCHANGED <<settings, heal, snap, temp, lockfile, held, lockedAt, crashed, read, commands, tore, edits, repairs>>
      /\ command' = "idle" /\ command' \notin Commands /\ handle' \in {handle, "closed"}
      /\ faults' \in 0..MaxFaults
  BY BoundsAssumption DEF Purge, CommandDies, healer, HealTypeOK, Commands
<1>2. gen' \in [Dirs -> Nat]
  BY DEF Purge, CommandDies, HealTypeOK
<1>3. handle' = "closed"
  BY <1>1 DEF Purge, CommandDies, HealTypeOK, Commands
<1>4. HealTypeOK'
  BY <1>1, <1>2, <1>3 DEF HealTypeOK
<1>5. NoPurge' => NoPurge
  BY PurgeStays DEF HealNext, Command
<1>6. TornOnlyByCommands' /\ Temps' /\ Locks' /\ Repairs' /\ Ages'
  BY <1>1, <1>5 DEF TornOnlyByCommands, Temps, OnlyCrashesLitter, Locks, Repairs, Ages
<1>7. Numbers'
  BY <1>1 DEF Numbers, Purge, CommandDies
<1> QED BY <1>4, <1>6, <1>7

\* An edit of the host's is newer than whatever was read or locked before.
LEMMA EditKeeps ==
    ASSUME HealInv, HostEdit
    PROVE  HealInv'
<1> USE DEF HealInv
<1>1. UNCHANGED <<heal, snap, temp, lockfile, held, lockedAt, crashed, gen, command, read, commands, tore, faults>>
  BY DEF HostEdit, healer, cli
<1>2. PICK k \in {"ours", "stale", "none"} :
        /\ settings' = [edit |-> edits + 1, hook |-> k]
        /\ repairs' = IF k = "ours" THEN repairs ELSE 0
  BY DEF HostEdit
<1>3. edits \in Nat /\ edits' = edits + 1 /\ edits' \in 0..MaxEdits
  BY BoundsAssumption DEF HostEdit, HealTypeOK
<1>4. /\ settings' \in Content /\ settings' # Torn /\ settings'.edit = edits + 1
      /\ Broken(settings') => repairs' = 0
  BY <1>2, <1>3 DEF Content, Torn, Broken
<1>5. repairs' \in {0, repairs} /\ handle' \in {handle, "detached"} /\ (handle = "closed" => handle' = "closed")
  BY <1>2 DEF HostEdit, Detach
<1>6. HealTypeOK'
  BY <1>1, <1>3, <1>4, <1>5 DEF HealTypeOK
<1>7. TornOnlyByCommands' /\ Temps' /\ Locks' /\ Repairs'
  BY <1>1, <1>4, <1>5 DEF TornOnlyByCommands, Temps, OnlyCrashesLitter, Locks, Repairs, NoPurge
<1>8. /\ \A h \in Healers : /\ lockedAt[h] \in Nat /\ lockedAt[h] <= edits
                              /\ snap[h].edit \in Nat /\ snap[h].edit <= edits
      /\ read.edit \in Nat /\ read.edit <= edits
  BY BoundsAssumption DEF Numbers, HealTypeOK, Content
<1>9. Ages'
  BY <1>1, <1>3, <1>4, <1>8 DEF Ages, NoPurge
<1>10. Numbers'
  BY <1>1, <1>3, <1>4, <1>8 DEF Numbers
<1> QED BY <1>6, <1>7, <1>9, <1>10

--------------------------------------------------------------------------------
\* Every step keeps the invariant.
LEMMA HealStepInv == HealInv /\ [HealNext]_healVars => HealInv'
<1> SUFFICES ASSUME HealInv, [HealNext]_healVars PROVE HealInv' OBVIOUS
<1>1. ASSUME NEW h \in Healers, Healer(h) PROVE HealInv'
  BY <1>1, LookKeeps, TryLockKeeps, RereadKeeps, WriteTempKeeps, ReplaceKeeps, DiesKeeps DEF Healer, Repair
<1>2. CASE Command
  BY <1>2, ReadsKeeps, TruncateKeeps, WritesKeeps, EndsKeeps DEF Command
<1>3. CASE HostEdit
  BY <1>3, EditKeeps
<1>4. CASE UNCHANGED healVars
  BY <1>4 DEF healVars, HealInv, HealTypeOK, TornOnlyByCommands, Temps, OnlyCrashesLitter, Locks, Repairs,
              Numbers, Ages, NoPurge
<1> QED BY <1>1, <1>2, <1>3, <1>4 DEF HealNext

\* The invariant, for every behaviour.
LEMMA HealInvariant == HealSpec => []HealInv
BY HealInitInv, HealStepInv, PTL DEF HealSpec

\* Every variable keeps to its type, and a repair starts from a file that
\* parses and lacks the entry (cli.rs:31420).
THEOREM HealTypeCorrect == HealSpec => []HealTypeOK
<1>1. HealInv => HealTypeOK
  BY DEF HealInv
<1> QED BY <1>1, HealInvariant, PTL

\* "a crash mid-write leaves the original file intact" (cli.rs:18282) and
\* "Every failure after this point must remove the temp file" (cli.rs:18311):
\* a file that does not parse was truncated by a command, whatever healers do,
\* and a temporary file is left by a process that died.
THEOREM HealersAreCrashSafe == HealSpec => []CrashSafe
<1>1. HealInv => CrashSafe
  BY DEF HealInv, Temps, CrashSafe
<1> QED BY <1>1, HealInvariant, PTL

\* The lock serializes the healers of one configuration directory: what goes
\* wrong once is repaired once (cli.rs:18384).
THEOREM RepairedOnce ==
    ASSUME OneDir
    PROVE  HealSpec => []OneRepair
<1>1. HealInv => OneRepair
  BY DEF HealInv, Repairs, OneRepair
<1> QED BY <1>1, HealInvariant, PTL

\* A repair overwrites unread nothing older than its healer's lock
\* (cli.rs:18392), of one configuration directory.
THEOREM LostInWindow ==
    ASSUME OneDir
    PROVE  HealSpec => []LostOnlyInWindow
<1>1. HealInv => LostOnlyInWindow
  BY DEF HealInv, Ages, LostOnlyInWindow, Repairing
<1> QED BY <1>1, HealInvariant, PTL

--------------------------------------------------------------------------------
\* A set of numbers has a least one.
LEMMA LeastOne == ASSUME NEW S \in SUBSET Nat, S # {} PROVE \E m \in S : \A k \in S : m <= k
<1> DEFINE below == {p \in Nat \X Nat : p[1] < p[2]}
<1>1. IsWellFoundedOn(below, Nat)
  BY NatLessThanWellFounded, Zenon DEF OpToRel
<1>2. \A i, j \in Nat : <<i, j>> \in below <=> i < j
  OBVIOUS
<1> HIDE DEF below
<1>3. PICK m \in S : \A k \in S : <<k, m>> \notin below
  BY <1>1, WFMin
<1>4. \A k \in S : ~(k < m)
  BY <1>2, <1>3
<1> QED BY <1>4

--------------------------------------------------------------------------------
(* Sequences of sequences, flattened                                       *)

\* What holds of zero and is handed on holds of every number.
LEMMA Climb ==
    ASSUME NEW N \in Nat, NEW P, 0 \in P, \A i \in 0..N : i \in P /\ i < N => i + 1 \in P
    PROVE  \A i \in 0..N : i \in P
<1> DEFINE T == {i \in Nat : i <= N /\ i \notin P}
<1>1. SUFFICES ASSUME T # {} PROVE FALSE
  OBVIOUS
<1>2. PICK m \in T : \A k \in T : m <= k
  <2>1. T \in SUBSET Nat
    OBVIOUS
  <2> HIDE DEF T
  <2> QED BY <1>1, <2>1, LeastOne
<1>3. m # 0
  OBVIOUS
<1>4. m - 1 \in 0..N /\ m - 1 < N /\ m - 1 \notin T
  BY <1>2, <1>3
<1>5. m - 1 \in P
  BY <1>4
<1>6. (m - 1) + 1 \in P
  BY <1>4, <1>5
<1> QED BY <1>6

\* The sums of the first few: the last of them is what the sequence flattens to.
Sums(ss, g) ==
    /\ g[0] = <<>>
    /\ \A i \in 1..Len(ss) : g[i] = g[i-1] \o ss[i]

\* There is a function with that equation.
LEMMA SumsExist ==
    ASSUME NEW S, NEW ss \in Seq(Seq(S))
    PROVE  \E g \in [0..Len(ss) -> Seq(S)] : Sums(ss, g)
<1> DEFINE Upto(n) == \E g \in [0..n -> Seq(S)] : g[0] = <<>> /\ \A i \in 1..n : g[i] = g[i-1] \o ss[i]
           P == {n \in 0..Len(ss) : Upto(n)}
<1>1. Len(ss) \in Nat
  OBVIOUS
<1>2. Upto(0)
  <2> DEFINE z == [i \in 0..0 |-> <<>>]
  <2>1. z \in [0..0 -> Seq(S)] /\ z[0] = <<>>
    OBVIOUS
  <2>2. \A i \in 1..0 : z[i] = z[i-1] \o ss[i]
    OBVIOUS
  <2> HIDE DEF z
  <2> QED BY <2>1, <2>2
<1>3. ASSUME NEW n \in 0..Len(ss), Upto(n), n < Len(ss) PROVE Upto(n + 1)
  <2>1. PICK g \in [0..n -> Seq(S)] : g[0] = <<>> /\ \A i \in 1..n : g[i] = g[i-1] \o ss[i]
    BY <1>3
  <2> DEFINE h == [i \in 0..(n+1) |-> IF i = n + 1 THEN g[n] \o ss[n + 1] ELSE g[i]]
  <2>2. g[n] \o ss[n + 1] \in Seq(S)
    BY <1>1, <1>3
  <2>3. \A i \in 0..(n+1) : i # n + 1 => i \in 0..n /\ g[i] \in Seq(S)
    BY <1>1
  <2>4. h \in [0..(n+1) -> Seq(S)]
    BY <2>2, <2>3
  <2>5. h[0] = <<>>
    BY <1>1, <2>1
  <2>6. ASSUME NEW i \in 1..(n+1) PROVE h[i] = h[i-1] \o ss[i]
    <3>1. i - 1 \in 0..(n+1) /\ i - 1 # n + 1 /\ i \in 0..(n+1)
      BY <1>1
    <3>2. h[i-1] = g[i-1]
      BY <3>1
    <3>3. CASE i = n + 1
      <4>1. h[i] = g[n] \o ss[n+1] /\ i - 1 = n
        BY <3>1, <3>3, <1>1
      <4> QED BY <3>2, <3>3, <4>1
    <3>4. CASE i # n + 1
      <4>1. i \in 1..n /\ h[i] = g[i]
        BY <3>1, <3>4, <1>1
      <4> QED BY <2>1, <3>2, <4>1
    <3> QED BY <3>3, <3>4
  <2> QED BY <2>4, <2>5, <2>6
<1>4. \A n \in 0..Len(ss) : n \in P
  <2> HIDE DEF Upto
  <2>1. 0 \in P
    BY <1>1, <1>2
  <2>2. \A n \in 0..Len(ss) : n \in P /\ n < Len(ss) => n + 1 \in P
    <3> SUFFICES ASSUME NEW n \in 0..Len(ss), n \in P, n < Len(ss) PROVE n + 1 \in P
      OBVIOUS
    <3>1. n + 1 \in 0..Len(ss)
      BY <1>1
    <3>2. Upto(n + 1)
      BY <1>3
    <3> QED BY <3>1, <3>2
  <2> HIDE DEF P
  <2> QED BY <1>1, <2>1, <2>2, Climb
<1>5. Upto(Len(ss))
  <2> HIDE DEF Upto
  <2> QED BY <1>1, <1>4
<1> QED BY <1>5 DEF Sums

\* And only one.
LEMMA SumsUnique ==
    ASSUME NEW S, NEW ss \in Seq(Seq(S)), NEW g, NEW h, Sums(ss, g), Sums(ss, h)
    PROVE  \A i \in 0..Len(ss) : g[i] = h[i]
<1> DEFINE P == {i \in 0..Len(ss) : g[i] = h[i]}
<1>1. Len(ss) \in Nat
  OBVIOUS
<1>2. 0 \in P
  BY <1>1 DEF Sums
<1>3. \A i \in 0..Len(ss) : i \in P /\ i < Len(ss) => i + 1 \in P
  <2> SUFFICES ASSUME NEW i \in 0..Len(ss), i \in P, i < Len(ss) PROVE i + 1 \in P
    OBVIOUS
  <2>1. i + 1 \in 1..Len(ss) /\ (i + 1) - 1 = i /\ i + 1 \in 0..Len(ss)
    BY <1>1
  <2>2. g[i + 1] = g[i] \o ss[i + 1] /\ h[i + 1] = h[i] \o ss[i + 1]
    BY <2>1 DEF Sums
  <2> QED BY <2>1, <2>2
<1>4. \A i \in 0..Len(ss) : i \in P
  <2> HIDE DEF P
  <2> QED BY <1>1, <1>2, <1>3, Climb
<1> QED BY <1>4

\* FlattenSeq, which is defined by recursion, is the last sum.
LEMMA FlatIsSum ==
    ASSUME NEW S, NEW ss \in Seq(Seq(S)), NEW g \in [0..Len(ss) -> Seq(S)], Sums(ss, g)
    PROVE  FlattenSeq(ss) = g[Len(ss)] /\ FlattenSeq(ss) \in Seq(S)
<1>1. Len(ss) \in Nat
  OBVIOUS
<1>2. CASE Len(ss) = 0
  <2>1. ss = <<>> /\ FlattenSeq(ss) = <<>>
    BY <1>2 DEF FlattenSeq
  <2> QED BY <1>2, <2>1 DEF Sums
<1>3. CASE Len(ss) # 0
  <2> DEFINE Next1(f) == [i \in 1..Len(ss) |-> IF i = 1 THEN ss[i] ELSE f[i-1] \o ss[i]]
             flatten == CHOOSE f : f = Next1(f)
             d == [i \in 1..Len(ss) |-> g[i]]
  <2>1. FlattenSeq(ss) = flatten[Len(ss)]
    BY <1>3 DEF FlattenSeq
  <2>2. d = Next1(d)
    <3>1. ASSUME NEW i \in 1..Len(ss) PROVE g[i] = IF i = 1 THEN ss[i] ELSE d[i-1] \o ss[i]
      <4>1. g[i] = g[i-1] \o ss[i] /\ ss[i] \in Seq(S)
        BY DEF Sums
      <4>2. CASE i = 1
        <5>1. g[i-1] = <<>>
          BY <4>2 DEF Sums
        <5> QED BY <4>1, <4>2, <5>1
      <4>3. CASE i # 1
        <5>1. i - 1 \in 1..Len(ss)
          BY <1>1, <4>3
        <5>2. d[i-1] = g[i-1]
          BY <5>1
        <5> QED BY <4>1, <4>3, <5>2
      <4> QED BY <4>2, <4>3
    <3> QED BY <3>1
  <2>3. flatten = Next1(flatten)
    <3>1. \E f : f = Next1(f)
      <4> HIDE DEF d
      <4> QED BY <2>2
    <3> QED BY <3>1, Zenon
  <2>4. \A i \in 1..Len(ss) : flatten[i] = IF i = 1 THEN ss[i] ELSE flatten[i-1] \o ss[i]
    <3> HIDE DEF flatten
    <3> QED BY <2>3
  <2> DEFINE h == [i \in 0..Len(ss) |-> IF i = 0 THEN <<>> ELSE flatten[i]]
  <2> HIDE DEF flatten
  <2>5. Sums(ss, h)
    <3>1. h[0] = <<>>
      BY <1>1
    <3>2. ASSUME NEW i \in 1..Len(ss) PROVE h[i] = h[i-1] \o ss[i]
      <4>1. i \in 0..Len(ss) /\ i - 1 \in 0..Len(ss) /\ h[i] = flatten[i] /\ ss[i] \in Seq(S)
        BY <1>1
      <4>2. CASE i = 1
        <5>1. h[i-1] = <<>>
          BY <4>1, <4>2
        <5> QED BY <2>4, <4>1, <4>2, <5>1
      <4>3. CASE i # 1
        <5>1. h[i-1] = flatten[i-1]
          BY <4>1, <4>3
        <5> QED BY <2>4, <4>1, <4>3, <5>1
      <4> QED BY <4>2, <4>3
    <3> QED BY <3>1, <3>2 DEF Sums
  <2>6. Len(ss) \in 0..Len(ss) /\ h[Len(ss)] = flatten[Len(ss)]
    BY <1>1, <1>3
  <2> HIDE DEF h
  <2>7. h[Len(ss)] = g[Len(ss)]
    BY <2>5, <2>6, SumsUnique
  <2> QED BY <2>1, <2>6, <2>7
<1> QED BY <1>2, <1>3

\* Concatenation is associative.
LEMMA Regroup ==
    ASSUME NEW S, NEW a \in Seq(S), NEW b \in Seq(S), NEW c \in Seq(S)
    PROVE  a \o (b \o c) = (a \o b) \o c
<1>1. Len(a \o (b \o c)) = Len((a \o b) \o c)
  OBVIOUS
<1>2. \A i \in 1..Len(a \o (b \o c)) : (a \o (b \o c))[i] = ((a \o b) \o c)[i]
  OBVIOUS
<1>3. a \o (b \o c) \in Seq(S) /\ (a \o b) \o c \in Seq(S)
  OBVIOUS
<1> QED BY <1>1, <1>2, <1>3

\* The sequences joined: their elements, none of none, the one of one, in order.
LEMMA FlatType == ASSUME NEW S, NEW ss \in Seq(Seq(S)) PROVE FlattenSeq(ss) \in Seq(S)
  BY SumsExist, FlatIsSum

LEMMA FlatEmpty == FlattenSeq(<<>>) = <<>>
  BY DEF FlattenSeq

LEMMA FlatOne == ASSUME NEW S, NEW s \in Seq(S) PROVE FlattenSeq(<<s>>) = s
<1> DEFINE g == [i \in 0..1 |-> IF i = 0 THEN <<>> ELSE s]
<1>1. <<s>> \in Seq(Seq(S)) /\ Len(<<s>>) = 1 /\ <<s>>[1] = s
  OBVIOUS
<1>2. g \in [0..1 -> Seq(S)] /\ g[0] = <<>> /\ g[1] = s
  OBVIOUS
<1>3. s = <<>> \o s
  OBVIOUS
<1> HIDE DEF g
<1>4. Sums(<<s>>, g)
  <2>1. ASSUME NEW i \in 1..1 PROVE g[i] = g[i-1] \o <<s>>[i]
    <3>1. i = 1 /\ i - 1 = 0
      OBVIOUS
    <3> QED BY <1>1, <1>2, <1>3, <3>1
  <2> QED BY <1>1, <1>2, <2>1 DEF Sums
<1> QED BY <1>1, <1>2, <1>4, FlatIsSum

\* Sequences of sequences joined one after the other.
LEMMA FlatConcat ==
    ASSUME NEW S, NEW ss \in Seq(Seq(S)), NEW tt \in Seq(Seq(S))
    PROVE  FlattenSeq(ss \o tt) = FlattenSeq(ss) \o FlattenSeq(tt)
<1> DEFINE m == Len(ss)
           n == Len(tt)
           all == ss \o tt
<1>1. m \in Nat /\ n \in Nat
  OBVIOUS
<1>2. /\ all \in Seq(Seq(S)) /\ Len(all) = m + n
      /\ \A i \in 1..m : all[i] = ss[i]
      /\ \A i \in 1..n : all[m + i] = tt[i]
  OBVIOUS
<1>3. PICK g \in [0..m -> Seq(S)] : Sums(ss, g)
  BY SumsExist
<1>4. PICK h \in [0..n -> Seq(S)] : Sums(tt, h)
  BY SumsExist
<1>5. FlattenSeq(ss) = g[m] /\ FlattenSeq(tt) = h[n]
  BY <1>3, <1>4, FlatIsSum
<1>6. g[m] \in Seq(S) /\ \A i \in 0..n : h[i] \in Seq(S)
  <2>1. m \in 0..m
    BY <1>1
  <2> HIDE DEF m, n
  <2> QED BY <2>1
<1> DEFINE k == [i \in 0..(m + n) |-> IF i <= m THEN g[i] ELSE g[m] \o h[i - m]]
<1>7. \A i \in 0..(m + n) : (i <= m => i \in 0..m) /\ (~(i <= m) => i - m \in 1..n)
  <2> HIDE DEF m, n
  <2> QED BY <1>1
<1>8. k \in [0..(m + n) -> Seq(S)]
  <2>1. ASSUME NEW i \in 0..(m + n) PROVE (IF i <= m THEN g[i] ELSE g[m] \o h[i - m]) \in Seq(S)
    <3>1. CASE i <= m
      BY <1>7, <3>1
    <3>2. CASE ~(i <= m)
      <4>1. h[i - m] \in Seq(S)
        BY <1>1, <1>6, <1>7, <3>2
      <4> QED BY <1>6, <3>2, <4>1
    <3> QED BY <3>1, <3>2
  <2> QED BY <2>1
<1>9. Sums(all, k)
  <2>1. k[0] = <<>>
    BY <1>1, <1>3 DEF Sums
  <2>2. ASSUME NEW i \in 1..(m + n) PROVE k[i] = k[i-1] \o all[i]
    <3>1. i \in 0..(m + n) /\ i - 1 \in 0..(m + n)
      BY <1>1
    <3>2. CASE i <= m
      <4>1. i \in 1..m /\ i - 1 <= m
        BY <1>1, <3>2
      <4>2. k[i] = g[i] /\ k[i-1] = g[i-1]
        BY <3>1, <3>2, <4>1
      <4>3. g[i] = g[i-1] \o ss[i] /\ all[i] = ss[i]
        BY <1>2, <1>3, <4>1 DEF Sums
      <4> QED BY <4>2, <4>3
    <3>3. CASE ~(i <= m)
      <4>1. i - m \in 1..n /\ (i - m) - 1 = (i - 1) - m /\ m + (i - m) = i /\ i - 1 >= m /\ (i - 1) - m \in 0..n
        BY <1>1, <3>3
      <4>2. k[i] = g[m] \o h[i - m]
        BY <3>1, <3>3
      <4>3. k[i-1] = g[m] \o h[(i - 1) - m]
        <5>1. CASE i - 1 = m
          <6>1. k[i-1] = g[m] /\ h[(i - 1) - m] = <<>>
            BY <1>1, <1>4, <3>1, <5>1 DEF Sums
          <6> QED BY <1>6, <6>1
        <5>2. CASE i - 1 # m
          <6>1. ~(i - 1 <= m)
            BY <1>1, <4>1, <5>2
          <6> QED BY <3>1, <6>1
        <5> QED BY <5>1, <5>2
      <4>4. h[i - m] = h[(i - 1) - m] \o tt[i - m] /\ all[i] = tt[i - m]
        BY <1>2, <1>4, <4>1 DEF Sums
      <4>5. tt[i - m] \in Seq(S) /\ h[(i - 1) - m] \in Seq(S)
        BY <1>6, <4>1
      <4> HIDE DEF k, m, n, all
      <4>6. g[m] \o (h[(i - 1) - m] \o tt[i - m]) = (g[m] \o h[(i - 1) - m]) \o tt[i - m]
        <5>1. ASSUME NEW a \in Seq(S), NEW b \in Seq(S), NEW c \in Seq(S)
              PROVE  a \o (b \o c) = (a \o b) \o c
          BY Regroup
        <5> QED BY <1>6, <4>5, <5>1
      <4> QED BY <4>2, <4>3, <4>4, <4>6
    <3> QED BY <3>2, <3>3
  <2> QED BY <1>2, <2>1, <2>2 DEF Sums
<1>10. k[m + n] = g[m] \o h[n]
  <2>1. m + n \in 0..(m + n)
    BY <1>1
  <2>2. CASE n = 0
    <3>1. k[m + n] = g[m] /\ h[n] = <<>>
      BY <1>1, <1>4, <2>1, <2>2 DEF Sums
    <3> QED BY <1>6, <3>1
  <2>3. CASE n # 0
    <3>1. ~(m + n <= m) /\ (m + n) - m = n
      BY <1>1, <2>3
    <3> QED BY <2>1, <3>1
  <2> QED BY <2>2, <2>3
<1> HIDE DEF k
<1>11. FlattenSeq(all) = k[m + n]
  <2> HIDE DEF all, m, n
  <2> QED BY <1>2, <1>8, <1>9, FlatIsSum
<1> QED BY <1>5, <1>10, <1>11

\* A sequence that agrees with one and then with another.
LEMMA Joined ==
    ASSUME NEW S, NEW s \in Seq(S), NEW t \in Seq(S), NEW u \in Seq(S), Len(u) = Len(s) + Len(t),
           \A p \in 1..Len(s) : u[p] = s[p], \A p \in 1..Len(t) : u[Len(s) + p] = t[p]
    PROVE  u = s \o t
<1>1. s \o t \in Seq(S) /\ Len(s \o t) = Len(s) + Len(t) /\ Len(s) \in Nat /\ Len(t) \in Nat
  OBVIOUS
<1>2. ASSUME NEW p \in 1..Len(u) PROVE u[p] = (s \o t)[p]
  <2>1. CASE p <= Len(s)
    BY <2>1
  <2>2. CASE ~(p <= Len(s))
    <3>1. p - Len(s) \in 1..Len(t) /\ Len(s) + (p - Len(s)) = p
      BY <1>1, <2>2
    <3>2. u[p] = t[p - Len(s)]
      BY <3>1
    <3>3. (s \o t)[p] = t[p - Len(s)]
      BY <1>1, <2>2, <3>1
    <3> QED BY <3>2, <3>3
  <2> QED BY <2>1, <2>2
<1> QED BY <1>1, <1>2

\* What each element of a list gives, one after the other.
Gives(q, E, T) == q \in [E -> Seq(T)]
Each(q, list) == FlattenSeq([p \in DOMAIN list |-> q[list[p]]])

\* Each joins one sequence per element.
LEMMA EachPieces ==
    ASSUME NEW E, NEW T, NEW q, Gives(q, E, T), NEW list \in Seq(E)
    PROVE  /\ [p \in DOMAIN list |-> q[list[p]]] \in Seq(Seq(T))
           /\ Len([p \in DOMAIN list |-> q[list[p]]]) = Len(list)
<1>1. DOMAIN list = 1..Len(list) /\ Len(list) \in Nat /\ \A p \in 1..Len(list) : list[p] \in E
  OBVIOUS
<1>2. \A p \in 1..Len(list) : q[list[p]] \in Seq(T)
  BY <1>1 DEF Gives
<1>3. [p \in 1..Len(list) |-> q[list[p]]] \in Seq(Seq(T))
  BY <1>1, <1>2
<1>4. Len([p \in 1..Len(list) |-> q[list[p]]]) = Len(list)
  BY <1>1
<1> QED BY <1>1, <1>3, <1>4

\* What Each gives: elements of the right type, nothing of the empty list, the part of
\* one element of a list of one.
LEMMA EachType ==
    ASSUME NEW E, NEW T, NEW q, Gives(q, E, T), NEW list \in Seq(E)
    PROVE  Each(q, list) \in Seq(T)
<1> DEFINE ss == [p \in DOMAIN list |-> q[list[p]]]
<1>1. ss \in Seq(Seq(T))
  BY EachPieces
<1> HIDE DEF ss
<1>2. FlattenSeq(ss) \in Seq(T)
  BY <1>1, FlatType
<1> QED BY <1>2 DEF Each, ss

LEMMA EachEmpty == ASSUME NEW q PROVE Each(q, <<>>) = <<>>
<1>1. [p \in DOMAIN <<>> |-> q[<<>>[p]]] = <<>>
  OBVIOUS
<1> QED BY <1>1, FlatEmpty DEF Each

LEMMA EachOne ==
    ASSUME NEW E, NEW T, NEW q, Gives(q, E, T), NEW e \in E
    PROVE  Each(q, <<e>>) = q[e]
<1>1. [p \in DOMAIN <<e>> |-> q[<<e>>[p]]] = <<q[e]>>
  OBVIOUS
<1>2. FlattenSeq(<<q[e]>>) = q[e]
  BY FlatOne DEF Gives
<1> QED BY <1>1, <1>2 DEF Each

\* It is taken of two lists as of each.
LEMMA EachConcat ==
    ASSUME NEW E, NEW T, NEW q, Gives(q, E, T), NEW a \in Seq(E), NEW b \in Seq(E)
    PROVE  Each(q, a \o b) = Each(q, a) \o Each(q, b)
<1> DEFINE Of(list) == [p \in DOMAIN list |-> q[list[p]]]
<1>1. /\ a \o b \in Seq(E) /\ DOMAIN (a \o b) = 1..(Len(a) + Len(b)) /\ Len(a) \in Nat /\ Len(b) \in Nat
      /\ DOMAIN a = 1..Len(a) /\ DOMAIN b = 1..Len(b)
  OBVIOUS
<1>2. /\ Of(a) \in Seq(Seq(T)) /\ Len(Of(a)) = Len(a)
      /\ Of(b) \in Seq(Seq(T)) /\ Len(Of(b)) = Len(b)
      /\ Of(a \o b) \in Seq(Seq(T)) /\ Len(Of(a \o b)) = Len(a \o b)
  <2>1. \A list \in Seq(E) : Of(list) \in Seq(Seq(T)) /\ Len(Of(list)) = Len(list)
    BY EachPieces
  <2> HIDE DEF Of
  <2> QED BY <1>1, <2>1
<1>3. \A p \in 1..Len(a) : Of(a \o b)[p] = Of(a)[p]
  <2> TAKE p \in 1..Len(a)
  <2>1. p \in 1..(Len(a) + Len(b)) /\ (a \o b)[p] = a[p]
    BY <1>1
  <2> QED BY <1>1, <2>1
<1>4. \A p \in 1..Len(b) : Of(a \o b)[Len(a) + p] = Of(b)[p]
  <2> TAKE p \in 1..Len(b)
  <2>1. Len(a) + p \in 1..(Len(a) + Len(b)) /\ (a \o b)[Len(a) + p] = b[p]
    BY <1>1
  <2> QED BY <1>1, <2>1
<1>5. Len(Of(a \o b)) = Len(a) + Len(b)
  BY <1>1, <1>2
<1> DEFINE A == Of(a)
           B == Of(b)
           AB == Of(a \o b)
<1>6. A \in Seq(Seq(T)) /\ B \in Seq(Seq(T)) /\ AB \in Seq(Seq(T))
  BY <1>2
<1>7. Len(A) = Len(a) /\ Len(B) = Len(b)
  BY <1>2
<1>8. AB = A \o B
  <2> HIDE DEF Of
  <2>1. \A p \in 1..Len(A) : AB[p] = A[p]
    BY <1>3, <1>7
  <2>2. \A p \in 1..Len(B) : AB[Len(A) + p] = B[p]
    BY <1>4, <1>7
  <2>3. Len(AB) = Len(A) + Len(B)
    BY <1>5, <1>7
  <2> HIDE DEF A, B, AB
  <2>4. \A s, t, u \in Seq(Seq(T)) : Len(u) = Len(s) + Len(t) /\ (\A p \in 1..Len(s) : u[p] = s[p])
                                     /\ (\A p \in 1..Len(t) : u[Len(s) + p] = t[p]) => u = s \o t
    BY Joined
  <2> QED BY <1>6, <2>1, <2>2, <2>3, <2>4
<1>9. FlattenSeq(A \o B) = FlattenSeq(A) \o FlattenSeq(B)
  <2> HIDE DEF Of, A, B
  <2> QED BY <1>6, FlatConcat
<1> QED BY <1>8, <1>9 DEF Each

\* Going over what each element gives.
LEMMA EachEach ==
    ASSUME NEW E, NEW F, NEW T, NEW q, Gives(q, E, T), NEW r, Gives(r, F, E), NEW list \in Seq(F)
    PROVE  Each(q, Each(r, list)) = Each([f \in F |-> Each(q, r[f])], list)
<1> DEFINE ss == [p \in DOMAIN list |-> r[list[p]]]
           c == [f \in F |-> Each(q, r[f])]
           tt == [p \in DOMAIN list |-> c[list[p]]]
<1>1. Len(list) \in Nat /\ DOMAIN list = 1..Len(list) /\ \A p \in 1..Len(list) : list[p] \in F
  OBVIOUS
<1>2. Gives(c, F, T)
  <2>1. \A f \in F : r[f] \in Seq(E)
    BY DEF Gives
  <2>2. \A f \in F : Each(q, r[f]) \in Seq(T)
    BY <2>1, EachType
  <2> QED BY <2>2 DEF Gives
<1>3. ss \in Seq(Seq(E)) /\ Len(ss) = Len(list)
  BY EachPieces
<1>4. tt \in Seq(Seq(T)) /\ Len(tt) = Len(list)
  <2> HIDE DEF c
  <2> QED BY <1>2, EachPieces
<1>5. \A p \in 1..Len(list) : ss[p] \in Seq(E) /\ tt[p] = Each(q, ss[p])
  BY <1>1 DEF Gives
<1> HIDE DEF ss, tt
<1>6. PICK g \in [0..Len(ss) -> Seq(E)] : Sums(ss, g)
  BY <1>3, SumsExist
<1> DEFINE h == [i \in 0..Len(tt) |-> Each(q, g[i])]
<1>7. h \in [0..Len(tt) -> Seq(T)]
  <2>1. \A i \in 0..Len(tt) : g[i] \in Seq(E)
    BY <1>3, <1>4
  <2> QED BY <2>1, EachType
<1>8. Sums(tt, h)
  <2>1. h[0] = <<>>
    <3>1. 0 \in 0..Len(tt) /\ g[0] = <<>>
      BY <1>1, <1>4, <1>6 DEF Sums
    <3> QED BY <3>1, EachEmpty
  <2>2. ASSUME NEW i \in 1..Len(tt) PROVE h[i] = h[i-1] \o tt[i]
    <3>1. i \in 1..Len(ss) /\ i \in 1..Len(list) /\ i \in 0..Len(tt) /\ i - 1 \in 0..Len(tt) /\ i - 1 \in 0..Len(ss)
      BY <1>1, <1>3, <1>4
    <3>2. g[i] = g[i-1] \o ss[i]
      BY <1>6, <3>1 DEF Sums
    <3>3. g[i-1] \in Seq(E) /\ ss[i] \in Seq(E)
      BY <1>5, <3>1
    <3>4. Each(q, g[i-1] \o ss[i]) = Each(q, g[i-1]) \o Each(q, ss[i])
      <4>1. \A a, b \in Seq(E) : Each(q, a \o b) = Each(q, a) \o Each(q, b)
        BY EachConcat
      <4> QED BY <3>3, <4>1
    <3>5. h[i] = Each(q, g[i]) /\ h[i-1] = Each(q, g[i-1])
      BY <3>1
    <3> QED BY <1>5, <3>1, <3>2, <3>4, <3>5
  <2> QED BY <2>1, <2>2 DEF Sums
<1>9. h[Len(tt)] = Each(q, g[Len(ss)])
  BY <1>1, <1>3, <1>4
<1> HIDE DEF h
<1>10. FlattenSeq(ss) = g[Len(ss)] /\ FlattenSeq(tt) = h[Len(tt)]
  BY <1>3, <1>4, <1>6, <1>7, <1>8, FlatIsSum
<1>11. Each(r, list) = FlattenSeq(ss) /\ Each(c, list) = FlattenSeq(tt)
  BY DEF Each, ss, tt
<1> QED BY <1>9, <1>10, <1>11

\* What is in it comes from an element of the list, and what an element gives is in it.
Has(s, x) == \E i \in DOMAIN s : s[i] = x
\* A sequence of two parts has what they have.
LEMMA HasConcat ==
    ASSUME NEW T, NEW s \in Seq(T), NEW t \in Seq(T), NEW x
    PROVE  Has(s \o t, x) <=> Has(s, x) \/ Has(t, x)
<1>1. Len(s) \in Nat /\ Len(t) \in Nat /\ DOMAIN s = 1..Len(s) /\ DOMAIN t = 1..Len(t) /\ DOMAIN (s \o t) = 1..(Len(s) + Len(t))
  OBVIOUS
<1>2. \A i \in 1..Len(s) : (s \o t)[i] = s[i] /\ i \in 1..(Len(s) + Len(t))
  BY <1>1
<1>3. \A i \in 1..Len(t) : (s \o t)[Len(s) + i] = t[i] /\ Len(s) + i \in 1..(Len(s) + Len(t))
  BY <1>1
<1>4. \A i \in 1..(Len(s) + Len(t)) : i \in 1..Len(s) \/ (i - Len(s) \in 1..Len(t) /\ Len(s) + (i - Len(s)) = i)
  BY <1>1
<1>5. ASSUME Has(s, x) PROVE Has(s \o t, x)
  <2>1. PICK i \in 1..Len(s) : s[i] = x
    BY <1>1, <1>5 DEF Has
  <2>2. i \in DOMAIN (s \o t) /\ (s \o t)[i] = x
    BY <1>1, <1>2, <2>1
  <2> QED BY <2>2 DEF Has
<1>6. ASSUME Has(t, x) PROVE Has(s \o t, x)
  <2>1. PICK i \in 1..Len(t) : t[i] = x
    BY <1>1, <1>6 DEF Has
  <2>2. Len(s) + i \in DOMAIN (s \o t) /\ (s \o t)[Len(s) + i] = x
    BY <1>1, <1>3, <2>1
  <2> QED BY <2>2 DEF Has
<1>7. ASSUME Has(s \o t, x) PROVE Has(s, x) \/ Has(t, x)
  <2>1. PICK i \in 1..(Len(s) + Len(t)) : (s \o t)[i] = x
    BY <1>1, <1>7 DEF Has
  <2>2. CASE i \in 1..Len(s)
    <3>1. i \in DOMAIN s /\ s[i] = x
      BY <1>1, <1>2, <2>1, <2>2
    <3> QED BY <3>1 DEF Has
  <2>3. CASE i - Len(s) \in 1..Len(t) /\ Len(s) + (i - Len(s)) = i
    <3>1. i - Len(s) \in DOMAIN t /\ t[i - Len(s)] = (s \o t)[Len(s) + (i - Len(s))]
      BY <1>1, <1>3, <2>3
    <3>2. t[i - Len(s)] = x
      BY <2>1, <2>3, <3>1
    <3> QED BY <3>1, <3>2 DEF Has
  <2> QED BY <1>4, <2>1, <2>2, <2>3
<1> QED BY <1>5, <1>6, <1>7

\* What is in it comes from some element.
LEMMA EachHas ==
    ASSUME NEW E, NEW T, NEW q, Gives(q, E, T), NEW list \in Seq(E), NEW x
    PROVE  Has(Each(q, list), x) <=> \E p \in DOMAIN list : Has(q[list[p]], x)
<1> DEFINE ss == [p \in DOMAIN list |-> q[list[p]]]
<1>1. Len(list) \in Nat /\ DOMAIN list = 1..Len(list)
  OBVIOUS
<1>2. ss \in Seq(Seq(T)) /\ Len(ss) = Len(list)
  BY EachPieces
<1>3. \A p \in 1..Len(list) : ss[p] = q[list[p]] /\ ss[p] \in Seq(T)
  <2>1. \A p \in 1..Len(list) : ss[p] = q[list[p]]
    BY <1>1
  <2> HIDE DEF ss
  <2> QED BY <1>2, <2>1
<1> HIDE DEF ss
<1>4. PICK g \in [0..Len(ss) -> Seq(T)] : Sums(ss, g)
  BY <1>2, SumsExist
<1>5. ASSUME NEW s \in Seq(T), NEW t \in Seq(T) PROVE Has(s \o t, x) <=> Has(s, x) \/ Has(t, x)
  BY HasConcat
<1> DEFINE P == {i \in 0..Len(ss) : Has(g[i], x) <=> \E p \in 1..i : Has(ss[p], x)}
<1>6. Len(ss) \in Nat
  BY <1>1, <1>2
<1>7. 0 \in P
  <2>1. g[0] = <<>> /\ 0 \in 0..Len(ss)
    BY <1>6, <1>4 DEF Sums
  <2>2. ~Has(<<>>, x)
    BY DEF Has
  <2>3. \A p \in 1..0 : FALSE
    OBVIOUS
  <2> QED BY <2>1, <2>2, <2>3
<1>8. \A i \in 0..Len(ss) : i \in P /\ i < Len(ss) => i + 1 \in P
  <2> SUFFICES ASSUME NEW i \in 0..Len(ss), i \in P, i < Len(ss) PROVE i + 1 \in P
    OBVIOUS
  <2>1. i + 1 \in 1..Len(ss) /\ (i + 1) - 1 = i /\ i + 1 \in 0..Len(ss)
    BY <1>6
  <2>2. g[i + 1] = g[i] \o ss[i + 1]
    BY <1>4, <2>1 DEF Sums
  <2>3. g[i] \in Seq(T) /\ ss[i + 1] \in Seq(T)
    BY <1>2, <1>3, <2>1
  <2>4. Has(g[i + 1], x) <=> Has(g[i], x) \/ Has(ss[i + 1], x)
    BY <1>5, <2>2, <2>3
  <2>5. /\ \A p \in 1..(i + 1) : p \in 1..i \/ p = i + 1
        /\ \A p \in 1..i : p \in 1..(i + 1)
        /\ i + 1 \in 1..(i + 1)
    BY <1>6
  <2>6. Has(g[i], x) <=> \E p \in 1..i : Has(ss[p], x)
    OBVIOUS
  <2>7. Has(g[i + 1], x) <=> \E p \in 1..(i + 1) : Has(ss[p], x)
    BY <2>4, <2>5, <2>6
  <2> QED BY <2>1, <2>7
<1>9. Len(ss) \in P
  <2> HIDE DEF P
  <2>1. \A i \in 0..Len(ss) : i \in P
    BY <1>6, <1>7, <1>8, Climb
  <2> QED BY <1>6, <2>1
<1>10. Has(g[Len(ss)], x) <=> \E p \in 1..Len(list) : Has(q[list[p]], x)
  BY <1>2, <1>3, <1>9
<1>11. FlattenSeq(ss) = g[Len(ss)]
  BY <1>2, <1>4, FlatIsSum
<1> QED BY <1>1, <1>10, <1>11 DEF Each, ss

\* Nothing is in it when no element gives anything.
LEMMA HasNone == ASSUME NEW T, NEW s \in Seq(T) PROVE s = <<>> <=> \A x \in T : ~Has(s, x)
<1>1. DOMAIN s = 1..Len(s) /\ Len(s) \in Nat /\ (s = <<>> <=> Len(s) = 0)
  OBVIOUS
<1>2. ASSUME s # <<>> PROVE \E x \in T : Has(s, x)
  <2>1. 1 \in DOMAIN s /\ s[1] \in T
    BY <1>1, <1>2
  <2> QED BY <2>1 DEF Has
<1>3. ASSUME s = <<>>, NEW x PROVE ~Has(s, x)
  BY <1>1, <1>3 DEF Has
<1> QED BY <1>2, <1>3

\* It is empty where every element gives nothing.
LEMMA EachNone ==
    ASSUME NEW E, NEW T, NEW q, Gives(q, E, T), NEW list \in Seq(E),
           \A p \in DOMAIN list : q[list[p]] = <<>>
    PROVE  Each(q, list) = <<>>
<1>1. Each(q, list) \in Seq(T)
  BY EachType
<1>2. ASSUME NEW p \in DOMAIN list, NEW x PROVE ~Has(q[list[p]], x)
  BY DEF Has
<1>3. \A x \in T : ~Has(Each(q, list), x)
  BY <1>2, EachHas
<1> QED BY <1>1, <1>3, HasNone

--------------------------------------------------------------------------------
(* The list of entries                                                     *)

\* What each operation takes from a hook or an entry.
Keep(dcg) == [h \in HookObject |-> IF IsDcg(h) = dcg THEN <<h>> ELSE <<>>]
UnderOf(m) == [e \in Entry |-> IF e.matcher = m THEN e.hooks ELSE <<>>]
ForeignOf(m) == [e \in Entry |-> IF e.matcher = m THEN Only(e.hooks, FALSE) ELSE <<>>]
DcgOf == [e \in Entry |-> DcgHooks(e)]
PreviousOf(own) == [e \in Entry |-> IF IsShell(e) = own THEN DcgHooks(e) ELSE <<>>]
NoArrayOf == [e \in Entry |-> IF e.array THEN <<>> ELSE <<e>>]
CleanOf == [e \in Entry |-> IF Emptied(e) THEN <<>> ELSE <<Stripped(e)>>]

\* Only takes from each hook itself or nothing.
LEMMA OnlyIs ==
    ASSUME NEW hooks \in Seq(HookObject), NEW dcg \in BOOLEAN
    PROVE  /\ Only(hooks, dcg) = Each(Keep(dcg), hooks) /\ Only(hooks, dcg) \in Seq(HookObject)
           /\ Gives(Keep(dcg), HookObject, HookObject)
<1>1. Gives(Keep(dcg), HookObject, HookObject)
  BY DEF Gives, Keep
<1>2. \A k \in DOMAIN hooks : hooks[k] \in HookObject
  OBVIOUS
<1>3. [k \in DOMAIN hooks |-> IF IsDcg(hooks[k]) = dcg THEN <<hooks[k]>> ELSE <<>>]
      = [k \in DOMAIN hooks |-> Keep(dcg)[hooks[k]]]
  BY <1>2 DEF Keep
<1>4. Only(hooks, dcg) = Each(Keep(dcg), hooks)
  BY <1>3 DEF Only, Each
<1> QED BY <1>1, <1>4, EachType

\* Taken twice it is as taken once, and nothing is both dcg's and not.
LEMMA OnlyOnly ==
    ASSUME NEW hooks \in Seq(HookObject), NEW b \in BOOLEAN, NEW c \in BOOLEAN
    PROVE  Only(Only(hooks, b), c) = IF b = c THEN Only(hooks, b) ELSE <<>>
<1> DEFINE both == [h \in HookObject |-> Each(Keep(c), Keep(b)[h])]
<1>1. /\ Only(hooks, b) = Each(Keep(b), hooks) /\ Only(hooks, b) \in Seq(HookObject)
      /\ Gives(Keep(b), HookObject, HookObject) /\ Gives(Keep(c), HookObject, HookObject)
  BY OnlyIs
<1>2. Only(Only(hooks, b), c) = Each(Keep(c), Only(hooks, b))
  BY <1>1, OnlyIs
<1>3. Each(Keep(c), Each(Keep(b), hooks)) = Each(both, hooks)
  BY <1>1, EachEach
<1>4. ASSUME NEW h \in HookObject PROVE both[h] = IF b = c THEN Keep(b)[h] ELSE <<>>
  <2>1. Each(Keep(c), <<>>) = <<>> /\ Each(Keep(c), <<h>>) = Keep(c)[h]
    BY <1>1, EachEmpty, EachOne
  <2>2. Keep(b)[h] = (IF IsDcg(h) = b THEN <<h>> ELSE <<>>) /\ Keep(c)[h] = IF IsDcg(h) = c THEN <<h>> ELSE <<>>
    BY DEF Keep
  <2>3. IsDcg(h) \in BOOLEAN
    BY DEF IsDcg
  <2>4. both[h] = Each(Keep(c), Keep(b)[h])
    OBVIOUS
  <2> HIDE DEF both
  <2>5. CASE IsDcg(h) = b
    BY <2>1, <2>2, <2>3, <2>4, <2>5
  <2>6. CASE IsDcg(h) # b
    BY <2>1, <2>2, <2>3, <2>4, <2>6
  <2> QED BY <2>5, <2>6
<1>5. CASE b = c
  <2>1. both = Keep(b)
    BY <1>4, <1>5 DEF Keep
  <2> QED BY <1>1, <1>2, <1>3, <1>5, <2>1
<1>6. CASE b # c
  <2>1. Gives(both, HookObject, HookObject)
    <3>1. \A h \in HookObject : both[h] = <<>>
      BY <1>4, <1>6
    <3>2. both = [h \in HookObject |-> <<>>]
      BY <3>1
    <3> HIDE DEF both
    <3> QED BY <3>2 DEF Gives
  <2>2. \A k \in DOMAIN hooks : both[hooks[k]] = <<>>
    <3> HIDE DEF both
    <3> QED BY <1>4, <1>6
  <2> HIDE DEF both
  <2>3. Each(both, hooks) = <<>>
    BY <2>1, <2>2, EachNone
  <2> QED BY <1>1, <1>2, <1>3, <1>6, <2>3
<1> QED BY <1>5, <1>6

\* An entry without dcg's hooks.
LEMMA StrippedIs ==
    ASSUME NEW e \in Entry
    PROVE  /\ e.hooks \in Seq(HookObject) /\ DcgHooks(e) \in Seq(HookObject)
           /\ Stripped(e) \in Entry
           /\ Stripped(e).hooks = Only(e.hooks, FALSE) /\ Stripped(e).hooks \in Seq(HookObject)
           /\ Stripped(e).matcher = e.matcher /\ Stripped(e).array = e.array
           /\ DcgHooks(Stripped(e)) = <<>> /\ Stripped(Stripped(e)) = Stripped(e)
<1>1. /\ e \in [matcher : Matchers, array : BOOLEAN, hooks : Seq(HookObject)] /\ e.hooks \in Seq(HookObject)
      /\ ~e.array => e.hooks = <<>>
  BY DEF Entry
<1>2. /\ Only(e.hooks, FALSE) \in Seq(HookObject) /\ Only(e.hooks, TRUE) \in Seq(HookObject)
  BY <1>1, OnlyIs
<1>3. /\ Only(Only(e.hooks, FALSE), TRUE) = <<>>
      /\ Only(Only(e.hooks, FALSE), FALSE) = Only(e.hooks, FALSE)
  BY <1>1, OnlyOnly
<1>4. /\ Stripped(e).hooks = Only(e.hooks, FALSE)
      /\ Stripped(e).matcher = e.matcher /\ Stripped(e).array = e.array
      /\ Stripped(e) \in [matcher : Matchers, array : BOOLEAN, hooks : Seq(HookObject)]
  BY <1>1, <1>2 DEF Stripped
<1>5. ~e.array => Stripped(e).hooks = <<>>
  <2>1. Only(<<>>, FALSE) = <<>>
    <3>1. <<>> \in Seq(HookObject)
      OBVIOUS
    <3> QED BY <3>1, OnlyIs, EachEmpty
  <2> QED BY <1>1, <1>4, <2>1
<1>6. Stripped(e) \in Entry
  BY <1>4, <1>5 DEF Entry
<1>7. Stripped(Stripped(e)) = [Stripped(e) EXCEPT !.hooks = Only(Stripped(e).hooks, FALSE)]
  BY DEF Stripped
<1>8. Stripped(Stripped(e)) = Stripped(e)
  <2>1. Only(Stripped(e).hooks, FALSE) = Stripped(e).hooks
    BY <1>3, <1>4
  <2> QED BY <1>4, <1>7, <2>1
<1> QED BY <1>1, <1>2, <1>3, <1>4, <1>6, <1>8 DEF DcgHooks

\* The operations are such functions.
LEMMA PiecesGive ==
    /\ \A m : Gives(UnderOf(m), Entry, HookObject) /\ Gives(ForeignOf(m), Entry, HookObject)
    /\ Gives(DcgOf, Entry, HookObject) /\ \A own : Gives(PreviousOf(own), Entry, HookObject)
    /\ Gives(NoArrayOf, Entry, Entry) /\ Gives(CleanOf, Entry, Entry)
<1>1. \A e \in Entry : e.hooks \in Seq(HookObject) /\ Only(e.hooks, FALSE) \in Seq(HookObject) /\ DcgHooks(e) \in Seq(HookObject)
                       /\ Stripped(e) \in Entry
  <2> TAKE e \in Entry
  <2> QED BY StrippedIs
<1>2. \A e \in Entry : <<e>> \in Seq(Entry)
  OBVIOUS
<1>3. <<>> \in Seq(Entry) /\ <<>> \in Seq(HookObject)
  OBVIOUS
<1>4. \A m : Gives(UnderOf(m), Entry, HookObject) /\ Gives(ForeignOf(m), Entry, HookObject)
  BY <1>1, <1>3 DEF Gives, UnderOf, ForeignOf
<1>5. Gives(DcgOf, Entry, HookObject) /\ \A own : Gives(PreviousOf(own), Entry, HookObject)
  BY <1>1, <1>3 DEF Gives, DcgOf, PreviousOf
<1>6. Gives(NoArrayOf, Entry, Entry) /\ Gives(CleanOf, Entry, Entry)
  BY <1>1, <1>2, <1>3 DEF Gives, NoArrayOf, CleanOf
<1> QED BY <1>4, <1>5, <1>6

\* The list is gone over entry by entry.
LEMMA ListIs ==
    ASSUME NEW list \in Seq(Entry)
    PROVE  /\ \A m : HooksUnder(list, m) = Each(UnderOf(m), list) /\ Foreign(list, m) = Each(ForeignOf(m), list)
           /\ Dcg(list) = Each(DcgOf, list) /\ Unreadable(list) = Each(NoArrayOf, list)
           /\ Cleaned(list, 0) = Each(CleanOf, list)
           /\ Previous(list) = Each(PreviousOf(TRUE), list) \o Each(PreviousOf(FALSE), list)
<1>1. /\ \A p \in DOMAIN list : list[p] \in Entry /\ p # 0
  OBVIOUS
<1>2. ASSUME NEW m PROVE HooksUnder(list, m) = Each(UnderOf(m), list)
  <2>1. [p \in DOMAIN list |-> IF list[p].matcher = m THEN list[p].hooks ELSE <<>>]
        = [p \in DOMAIN list |-> UnderOf(m)[list[p]]]
    BY <1>1 DEF UnderOf
  <2> QED BY <2>1 DEF HooksUnder, Each
<1>3. ASSUME NEW m PROVE Foreign(list, m) = Each(ForeignOf(m), list)
  <2> DEFINE f == [e \in Entry |-> Each(Keep(FALSE), UnderOf(m)[e])]
  <2>1. HooksUnder(list, m) \in Seq(HookObject)
    BY <1>2, PiecesGive, EachType
  <2>2. Foreign(list, m) = Each(Keep(FALSE), Each(UnderOf(m), list)) /\ Gives(Keep(FALSE), HookObject, HookObject)
    BY <1>2, <2>1, OnlyIs DEF Foreign
  <2>3. Each(Keep(FALSE), Each(UnderOf(m), list)) = Each(f, list)
    <3>1. ASSUME NEW q, NEW r, Gives(q, HookObject, HookObject), Gives(r, Entry, HookObject)
          PROVE  Each(q, Each(r, list)) = Each([e \in Entry |-> Each(q, r[e])], list)
      BY <3>1, EachEach
    <3>2. Gives(UnderOf(m), Entry, HookObject)
      BY PiecesGive
    <3> QED BY <2>2, <3>1, <3>2
  <2>4. ASSUME NEW e \in Entry PROVE f[e] = IF e.matcher = m THEN Only(e.hooks, FALSE) ELSE <<>>
    <3>1. f[e] = Each(Keep(FALSE), IF e.matcher = m THEN e.hooks ELSE <<>>)
      BY DEF UnderOf
    <3>2. Each(Keep(FALSE), e.hooks) = Only(e.hooks, FALSE)
      BY StrippedIs, OnlyIs
    <3>3. Each(Keep(FALSE), <<>>) = <<>>
      BY EachEmpty
    <3> HIDE DEF f
    <3> QED BY <3>1, <3>2, <3>3
  <2>5. f = ForeignOf(m)
    BY <2>4 DEF ForeignOf
  <2> QED BY <2>2, <2>3, <2>5
<1>4. Dcg(list) = Each(DcgOf, list)
  <2>1. [p \in DOMAIN list |-> DcgHooks(list[p])] = [p \in DOMAIN list |-> DcgOf[list[p]]]
    BY <1>1 DEF DcgOf
  <2> QED BY <2>1 DEF Dcg, Each
<1>5. Unreadable(list) = Each(NoArrayOf, list)
  <2>1. [p \in DOMAIN list |-> IF list[p].array THEN <<>> ELSE <<list[p]>>]
        = [p \in DOMAIN list |-> NoArrayOf[list[p]]]
    BY <1>1 DEF NoArrayOf
  <2> QED BY <2>1 DEF Unreadable, Each
<1>6. Cleaned(list, 0) = Each(CleanOf, list)
  <2>1. [p \in DOMAIN list |-> IF p = 0 \/ Emptied(list[p]) THEN <<>> ELSE <<Stripped(list[p])>>]
        = [p \in DOMAIN list |-> CleanOf[list[p]]]
    BY <1>1 DEF CleanOf
  <2> QED BY <2>1 DEF Cleaned, Each
<1>7. ASSUME NEW own PROVE FlattenSeq([p \in DOMAIN list |-> IF IsShell(list[p]) = own THEN DcgHooks(list[p]) ELSE <<>>])
                           = Each(PreviousOf(own), list)
  <2>1. [p \in DOMAIN list |-> IF IsShell(list[p]) = own THEN DcgHooks(list[p]) ELSE <<>>]
        = [p \in DOMAIN list |-> PreviousOf(own)[list[p]]]
    BY <1>1 DEF PreviousOf
  <2> QED BY <2>1 DEF Each
<1>8. Previous(list) = Each(PreviousOf(TRUE), list) \o Each(PreviousOf(FALSE), list)
  <2> DEFINE U(own) == FlattenSeq([p \in DOMAIN list |-> IF IsShell(list[p]) = own THEN DcgHooks(list[p]) ELSE <<>>])
  <2>1. Previous(list) = U(TRUE) \o U(FALSE)
    BY DEF Previous
  <2>2. U(TRUE) = Each(PreviousOf(TRUE), list) /\ U(FALSE) = Each(PreviousOf(FALSE), list)
    BY <1>7
  <2> HIDE DEF U
  <2> QED BY <2>1, <2>2
<1> QED BY <1>2, <1>3, <1>4, <1>5, <1>6, <1>8

\* What cleaning leaves of an entry: its hooks of others, and nothing of dcg's.
LEMMA CleanedEntry ==
    ASSUME NEW e \in Entry
    PROVE  /\ \A m : Each(ForeignOf(m), CleanOf[e]) = ForeignOf(m)[e]
           /\ Each(NoArrayOf, CleanOf[e]) = NoArrayOf[e]
           /\ Each(DcgOf, CleanOf[e]) = <<>>
           /\ Each(CleanOf, CleanOf[e]) = CleanOf[e]
<1> DEFINE s == Stripped(e)
<1>1. /\ s \in Entry /\ s.hooks = Only(e.hooks, FALSE) /\ e.hooks \in Seq(HookObject)
      /\ s.matcher = e.matcher /\ s.array = e.array
      /\ DcgHooks(s) = <<>> /\ Stripped(s) = s
  BY StrippedIs
<1>2. CleanOf[e] = IF Emptied(e) THEN <<>> ELSE <<s>>
  BY DEF CleanOf
<1>3. /\ \A m : ForeignOf(m)[e] = IF e.matcher = m THEN s.hooks ELSE <<>>
      /\ NoArrayOf[e] = IF e.array THEN <<>> ELSE <<e>>
  BY <1>1 DEF ForeignOf, NoArrayOf
<1>4. CASE Emptied(e)
  <2>1. \A q : Each(q, CleanOf[e]) = <<>>
    BY <1>2, <1>4, EachEmpty
  <2>2. s.hooks = <<>> /\ e.hooks # <<>>
    BY <1>4 DEF Emptied
  <2>3. e.array
    BY <2>2 DEF Entry
  <2> QED BY <1>2, <1>3, <1>4, <2>1, <2>2, <2>3
<1>5. CASE ~Emptied(e)
  <2>1. CleanOf[e] = <<s>>
    BY <1>2, <1>5
  <2>2. /\ \A m : Each(ForeignOf(m), <<s>>) = ForeignOf(m)[s]
        /\ Each(NoArrayOf, <<s>>) = NoArrayOf[s]
        /\ Each(DcgOf, <<s>>) = DcgOf[s]
        /\ Each(CleanOf, <<s>>) = CleanOf[s]
    BY <1>1, PiecesGive, EachOne
  <2>3. ASSUME NEW m PROVE ForeignOf(m)[s] = ForeignOf(m)[e]
    <3>1. Only(s.hooks, FALSE) = s.hooks
      BY <1>1, OnlyOnly
    <3>2. ForeignOf(m)[s] = IF s.matcher = m THEN Only(s.hooks, FALSE) ELSE <<>>
      BY <1>1 DEF ForeignOf
    <3> QED BY <1>1, <1>3, <3>1, <3>2
  <2>4. NoArrayOf[s] = NoArrayOf[e]
    <3>1. NoArrayOf[s] = IF s.array THEN <<>> ELSE <<s>>
      BY <1>1 DEF NoArrayOf
    <3>2. ~e.array => s = e
      <4> SUFFICES ASSUME ~e.array PROVE s = e
        OBVIOUS
      <4>1. e.hooks = <<>> /\ e \in [matcher : Matchers, array : BOOLEAN, hooks : Seq(HookObject)]
        BY DEF Entry
      <4>2. Only(<<>>, FALSE) = <<>>
        BY <1>1, <4>1, OnlyIs, EachEmpty
      <4> QED BY <4>1, <4>2 DEF Stripped
    <3> QED BY <1>1, <1>3, <3>1, <3>2
  <2>5. DcgOf[s] = <<>>
    BY <1>1 DEF DcgOf
  <2>6. CleanOf[s] = <<s>>
    <3>1. ~Emptied(s)
      BY <1>1 DEF Emptied
    <3> QED BY <1>1, <3>1 DEF CleanOf
  <2> QED BY <2>1, <2>2, <2>3, <2>4, <2>5, <2>6
<1> QED BY <1>4, <1>5

\* The same of a list.
LEMMA CleanedList ==
    ASSUME NEW list \in Seq(Entry)
    PROVE  /\ Each(CleanOf, list) \in Seq(Entry)
           /\ \A m : Each(ForeignOf(m), Each(CleanOf, list)) = Each(ForeignOf(m), list)
           /\ Each(NoArrayOf, Each(CleanOf, list)) = Each(NoArrayOf, list)
           /\ Each(DcgOf, Each(CleanOf, list)) = <<>>
           /\ Each(CleanOf, Each(CleanOf, list)) = Each(CleanOf, list)
<1>1. Gives(CleanOf, Entry, Entry) /\ Each(CleanOf, list) \in Seq(Entry)
  BY PiecesGive, EachType
<1>2. ASSUME NEW T, NEW q, Gives(q, Entry, T), \A e \in Entry : Each(q, CleanOf[e]) = q[e]
      PROVE  Each(q, Each(CleanOf, list)) = Each(q, list)
  <2> DEFINE c == [e \in Entry |-> Each(q, CleanOf[e])]
  <2>1. c = q
    BY <1>2 DEF Gives
  <2>2. Each(q, Each(CleanOf, list)) = Each(c, list)
    BY <1>1, <1>2, EachEach
  <2> QED BY <2>1, <2>2
<1>3. ASSUME NEW m PROVE Each(ForeignOf(m), Each(CleanOf, list)) = Each(ForeignOf(m), list)
  BY <1>2, CleanedEntry, PiecesGive
<1>4. Each(NoArrayOf, Each(CleanOf, list)) = Each(NoArrayOf, list)
  BY <1>2, CleanedEntry, PiecesGive
<1>5. Each(CleanOf, Each(CleanOf, list)) = Each(CleanOf, list)
  BY <1>2, CleanedEntry, PiecesGive
<1>6. Each(DcgOf, Each(CleanOf, list)) = <<>>
  <2> DEFINE c == [e \in Entry |-> Each(DcgOf, CleanOf[e])]
  <2>1. Each(DcgOf, Each(CleanOf, list)) = Each(c, list)
    BY <1>1, PiecesGive, EachEach
  <2>2. \A e \in Entry : c[e] = <<>>
    BY CleanedEntry
  <2>3. c = [e \in Entry |-> <<>>]
    BY <2>2
  <2> HIDE DEF c
  <2>4. Gives(c, Entry, HookObject)
    BY <2>3 DEF Gives
  <2>5. \A p \in DOMAIN list : c[list[p]] = <<>>
    BY <2>2
  <2>6. Each(c, list) = <<>>
    BY <2>4, <2>5, EachNone
  <2> QED BY <2>1, <2>6
<1> QED BY <1>1, <1>3, <1>4, <1>5, <1>6

\* The entry at one place is left out.
LEMMA CleanedWithout ==
    ASSUME NEW pre \in Seq(Entry), NEW o \in Entry, NEW post \in Seq(Entry)
    PROVE  Cleaned(pre \o (<<o>> \o post), Len(pre) + 1) = Each(CleanOf, pre) \o Each(CleanOf, post)
<1> DEFINE list == pre \o (<<o>> \o post)
           own == Len(pre) + 1
           ss == [p \in DOMAIN list |-> IF p = own \/ Emptied(list[p]) THEN <<>> ELSE <<Stripped(list[p])>>]
           A == [p \in DOMAIN pre |-> CleanOf[pre[p]]]
           B == [p \in DOMAIN post |-> CleanOf[post[p]]]
           none == <<<<>>>>
<1>1. /\ Len(pre) \in Nat /\ Len(post) \in Nat /\ DOMAIN pre = 1..Len(pre) /\ DOMAIN post = 1..Len(post)
      /\ Len(<<o>> \o post) = 1 + Len(post) /\ <<o>> \o post \in Seq(Entry)
      /\ list \in Seq(Entry) /\ DOMAIN list = 1..(Len(pre) + (1 + Len(post)))
  OBVIOUS
<1>2. \A p \in 1..Len(pre) : list[p] = pre[p] /\ p # own /\ p \in DOMAIN list
  BY <1>1
<1>3. \A p \in 1..Len(post) : list[own + p] = post[p] /\ own + p # own /\ own + p \in DOMAIN list
  BY <1>1
<1>4. own \in DOMAIN list
  BY <1>1
<1>5. \A p \in 1..Len(pre) : ss[p] = A[p]
  <2> TAKE p \in 1..Len(pre)
  <2>1. pre[p] \in Entry /\ A[p] = CleanOf[pre[p]]
    BY <1>1
  <2>2. ss[p] = IF Emptied(pre[p]) THEN <<>> ELSE <<Stripped(pre[p])>>
    BY <1>2
  <2> QED BY <2>1, <2>2 DEF CleanOf
<1>6. \A p \in 1..Len(post) : ss[own + p] = B[p]
  <2> TAKE p \in 1..Len(post)
  <2>1. post[p] \in Entry /\ B[p] = CleanOf[post[p]]
    BY <1>1
  <2>2. ss[own + p] = IF Emptied(post[p]) THEN <<>> ELSE <<Stripped(post[p])>>
    BY <1>3
  <2> QED BY <2>1, <2>2 DEF CleanOf
<1>7. ss[own] = <<>>
  BY <1>4
<1>8. /\ A \in Seq(Seq(Entry)) /\ Len(A) = Len(pre) /\ B \in Seq(Seq(Entry)) /\ Len(B) = Len(post)
  BY PiecesGive, EachPieces
<1>9. ss \in Seq(Seq(Entry)) /\ Len(ss) = Len(pre) + (1 + Len(post))
  <2>1. \A p \in DOMAIN list : (IF p = own \/ Emptied(list[p]) THEN <<>> ELSE <<Stripped(list[p])>>) \in Seq(Entry)
    <3> TAKE p \in DOMAIN list
    <3>1. list[p] \in Entry
      BY <1>1
    <3>2. <<Stripped(list[p])>> \in Seq(Entry) /\ <<>> \in Seq(Entry)
      <4>1. Stripped(list[p]) \in Entry
        BY <3>1, StrippedIs
      <4>2. \A e \in Entry : <<e>> \in Seq(Entry)
        OBVIOUS
      <4> QED BY <4>1, <4>2
    <3> QED BY <3>2
  <2> DEFINE n == Len(pre) + (1 + Len(post))
  <2>2. n \in Nat /\ DOMAIN list = 1..n
    BY <1>1
  <2>3. ss \in [1..n -> Seq(Entry)]
    BY <2>1, <2>2
  <2> HIDE DEF ss, n, list
  <2>4. ss \in Seq(Seq(Entry)) /\ Len(ss) = n
    BY <2>2, <2>3
  <2> QED BY <2>4 DEF n
<1> HIDE DEF ss, A, B, list
<1> DEFINE NB == none \o B
<1>10. /\ none \in Seq(Seq(Entry)) /\ NB \in Seq(Seq(Entry)) /\ Len(NB) = 1 + Len(B)
       /\ NB[1] = <<>> /\ \A p \in 1..Len(B) : NB[1 + p] = B[p]
  BY <1>8
<1>11. ss = A \o NB
  <2>1. \A p \in 1..Len(A) : ss[p] = A[p]
    BY <1>5, <1>8
  <2>2. \A p \in 1..Len(NB) : ss[Len(A) + p] = NB[p]
    <3> TAKE p \in 1..Len(NB)
    <3>1. CASE p = 1
      BY <1>7, <1>8, <1>10, <3>1
    <3>2. CASE p # 1
      <4>1. p - 1 \in 1..Len(post) /\ 1 + (p - 1) = p /\ own + (p - 1) = Len(A) + p
        <5> HIDE DEF NB
        <5> QED BY <1>1, <1>8, <1>10, <3>2
      <4>2. ss[own + (p - 1)] = B[p - 1]
        BY <1>6, <4>1
      <4>3. NB[1 + (p - 1)] = B[p - 1]
        BY <1>8, <1>10, <4>1
      <4> HIDE DEF NB
      <4> QED BY <4>1, <4>2, <4>3
    <3> QED BY <3>1, <3>2
  <2>3. Len(ss) = Len(A) + Len(NB)
    BY <1>8, <1>9, <1>10
  <2>4. \A s, t, u \in Seq(Seq(Entry)) : Len(u) = Len(s) + Len(t) /\ (\A p \in 1..Len(s) : u[p] = s[p])
                                         /\ (\A p \in 1..Len(t) : u[Len(s) + p] = t[p]) => u = s \o t
    BY Joined
  <2> HIDE DEF NB
  <2> QED BY <1>8, <1>9, <1>10, <2>1, <2>2, <2>3, <2>4
<1>12. FlattenSeq(A \o NB) = FlattenSeq(A) \o (FlattenSeq(none) \o FlattenSeq(B))
  <2>1. \A s, t \in Seq(Seq(Entry)) : FlattenSeq(s \o t) = FlattenSeq(s) \o FlattenSeq(t)
    BY FlatConcat
  <2> HIDE DEF none
  <2>2. FlattenSeq(NB) = FlattenSeq(none) \o FlattenSeq(B)
    BY <1>8, <1>10, <2>1
  <2> HIDE DEF NB
  <2> QED BY <1>8, <1>10, <2>1, <2>2
<1>13. FlattenSeq(none) = <<>>
  <2>1. <<>> \in Seq(Entry)
    OBVIOUS
  <2> QED BY <2>1, FlatOne
<1>14. FlattenSeq(B) \in Seq(Entry)
  BY <1>8, FlatType
<1>15. <<>> \o FlattenSeq(B) = FlattenSeq(B)
  BY <1>14
<1>16. FlattenSeq(ss) = FlattenSeq(A) \o FlattenSeq(B)
  BY <1>11, <1>12, <1>13, <1>15
<1>17. Cleaned(list, own) = FlattenSeq(ss)
  BY DEF Cleaned, ss
<1> QED BY <1>16, <1>17 DEF Each, A, B, list

\* The first entry under dcg's matcher, what is before it and what is after it.
LEMMA FirstShell ==
    ASSUME NEW list \in Seq(Entry)
    PROVE  \/ SelectInSeq(list, IsShell) = 0 /\ \A p \in DOMAIN list : ~IsShell(list[p])
           \/ \E pre, post \in Seq(Entry), o \in Entry :
                /\ list = pre \o (<<o>> \o post) /\ SelectInSeq(list, IsShell) = Len(pre) + 1
                /\ list[Len(pre) + 1] = o /\ Len(pre) + 1 \in DOMAIN list
                /\ IsShell(o) /\ \A p \in DOMAIN pre : ~IsShell(pre[p])
<1> DEFINE I == {i \in 1..Len(list) : IsShell(list[i])}
<1>1. Len(list) \in Nat /\ DOMAIN list = 1..Len(list)
  OBVIOUS
<1>2. SelectInSeq(list, IsShell) = IF I # {} THEN Min(I) ELSE 0
  BY DEF SelectInSeq
<1>3. CASE I = {}
  <2>1. \A p \in DOMAIN list : ~IsShell(list[p])
    BY <1>1, <1>3
  <2> QED BY <1>2, <1>3, <2>1
<1>4. CASE I # {}
  <2>1. I \in SUBSET Nat
    BY <1>1
  <2>2. \E m \in I : \A k \in I : m <= k
    <3> HIDE DEF I
    <3> QED BY <1>4, <2>1, LeastOne
  <2> DEFINE m == Min(I)
  <2>3. m \in I /\ \A k \in I : m <= k
    <3> HIDE DEF I
    <3> QED BY <2>2 DEF Min
  <2>4. SelectInSeq(list, IsShell) = m
    BY <1>2, <1>4
  <2> HIDE DEF m
  <2>5. m \in 1..Len(list) /\ IsShell(list[m]) /\ \A k \in 1..(m - 1) : ~IsShell(list[k])
    <3>1. m \in 1..Len(list) /\ IsShell(list[m])
      BY <2>3
    <3>2. \A k \in 1..(m - 1) : k \in 1..Len(list) /\ ~(m <= k)
      BY <1>1, <3>1
    <3>3. \A k \in 1..(m - 1) : k \notin I
      <4> HIDE DEF I
      <4> QED BY <2>3, <3>2
    <3> QED BY <3>1, <3>2, <3>3
  <2> HIDE DEF I
  <2> DEFINE pre == [p \in 1..(m - 1) |-> list[p]]
             post == [p \in 1..(Len(list) - m) |-> list[m + p]]
  <2>6. pre \in Seq(Entry) /\ Len(pre) = m - 1 /\ DOMAIN pre = 1..(m - 1)
    <3>1. m - 1 \in Nat /\ \A p \in 1..(m - 1) : list[p] \in Entry
      BY <1>1, <2>5
    <3> QED BY <3>1
  <2>7. post \in Seq(Entry) /\ Len(post) = Len(list) - m
    <3>1. Len(list) - m \in Nat /\ \A p \in 1..(Len(list) - m) : list[m + p] \in Entry
      BY <1>1, <2>5
    <3> QED BY <3>1
  <2>8. list[m] \in Entry
    BY <1>1, <2>5
  <2> DEFINE o == list[m]
             tail == <<o>> \o post
  <2>9. /\ tail \in Seq(Entry) /\ Len(tail) = 1 + (Len(list) - m) /\ tail[1] = o
        /\ \A p \in 1..(Len(list) - m) : tail[1 + p] = post[p]
    <3> HIDE DEF o, post
    <3>1. o \in Entry
      BY <2>8 DEF o
    <3> QED BY <2>7, <3>1
  <2>10. list = pre \o tail
    <3>1. \A p \in 1..Len(pre) : list[p] = pre[p]
      BY <2>6
    <3>2. \A p \in 1..(Len(list) - m) : post[p] = list[m + p]
      OBVIOUS
    <3> HIDE DEF pre, post, tail
    <3>3. \A p \in 1..Len(tail) : list[Len(pre) + p] = tail[p]
      <4> TAKE p \in 1..Len(tail)
      <4>1. CASE p = 1
        <5>1. Len(pre) + p = m
          BY <1>1, <2>5, <2>6, <4>1
        <5> QED BY <2>9, <4>1, <5>1
      <4>2. CASE p # 1
        <5>1. p - 1 \in 1..(Len(list) - m) /\ 1 + (p - 1) = p /\ Len(pre) + p = m + (p - 1)
          BY <1>1, <2>5, <2>6, <2>9, <4>2
        <5>2. tail[1 + (p - 1)] = list[m + (p - 1)]
          BY <2>9, <3>2, <5>1
        <5> QED BY <5>1, <5>2
      <4> QED BY <4>1, <4>2
    <3>4. Len(list) = Len(pre) + Len(tail)
      BY <1>1, <2>5, <2>6, <2>9
    <3>5. \A s, t, u \in Seq(Entry) : Len(u) = Len(s) + Len(t) /\ (\A p \in 1..Len(s) : u[p] = s[p])
                                      /\ (\A p \in 1..Len(t) : u[Len(s) + p] = t[p]) => u = s \o t
      BY Joined
    <3> QED BY <2>6, <2>9, <3>1, <3>3, <3>4, <3>5
  <2>11. \A p \in DOMAIN pre : ~IsShell(pre[p])
    BY <2>5, <2>6
  <2>12. Len(pre) + 1 = m /\ m \in DOMAIN list
    BY <1>1, <2>5, <2>6
  <2> HIDE DEF pre, post
  <2> QED BY <2>4, <2>5, <2>6, <2>7, <2>8, <2>10, <2>11, <2>12
<1> QED BY <1>3, <1>4

\* What is written is a hook.
LEMMA DesiredIs ==
    ASSUME NEW list \in Seq(Entry)
    PROVE  /\ Desired(list) \in HookObject /\ Desired(list).who = "ours"
           /\ Only(<<Desired(list)>>, FALSE) = <<>> /\ Only(<<Desired(list)>>, TRUE) = <<Desired(list)>>
<1>1. Previous(list) \in Seq(HookObject)
  <2>1. Each(PreviousOf(TRUE), list) \in Seq(HookObject) /\ Each(PreviousOf(FALSE), list) \in Seq(HookObject)
    BY PiecesGive, EachType
  <2>2. \A s, t \in Seq(HookObject) : s \o t \in Seq(HookObject)
    OBVIOUS
  <2>3. Each(PreviousOf(TRUE), list) \o Each(PreviousOf(FALSE), list) \in Seq(HookObject)
    BY <2>1, <2>2
  <2> QED BY <2>3, ListIs
<1>2. Previous(list) # <<>> => Previous(list)[1].extra \in Nat
  <2>1. Previous(list) # <<>> => Previous(list)[1] \in HookObject
    BY <1>1
  <2> QED BY <2>1 DEF HookObject
<1>3. Desired(list) \in HookObject /\ Desired(list).who = "ours"
  BY <1>2 DEF Desired, HookObject
<1>4. IsDcg(Desired(list)) = TRUE
  BY <1>3 DEF IsDcg
<1>5. ASSUME NEW b \in BOOLEAN PROVE Only(<<Desired(list)>>, b) = Keep(b)[Desired(list)]
  <2>1. <<Desired(list)>> \in Seq(HookObject)
    BY <1>3
  <2>2. Only(<<Desired(list)>>, b) = Each(Keep(b), <<Desired(list)>>) /\ Gives(Keep(b), HookObject, HookObject)
    BY <2>1, OnlyIs
  <2> QED BY <1>3, <2>2, EachOne
<1>6. Keep(FALSE)[Desired(list)] = <<>> /\ Keep(TRUE)[Desired(list)] = <<Desired(list)>>
  BY <1>3, <1>4 DEF Keep
<1> QED BY <1>3, <1>5, <1>6

\* The entry that an install writes first, with hooks of others taken over.
Ours(list, kept) == [matcher |-> "shell", array |-> TRUE, hooks |-> <<Desired(list)>> \o kept]
\* The entry first under dcg's matcher, if any, comes between pre and post.
Around(list, pre, mid, post) ==
    /\ pre \in Seq(Entry) /\ mid \in Seq(Entry) /\ post \in Seq(Entry) /\ list = pre \o (mid \o post)
    /\ \A p \in DOMAIN pre : ~IsShell(pre[p])
    /\ \/ mid = <<>>
       \/ \E o \in Entry : mid = <<o>> /\ IsShell(o) /\ o.array
KeptOf(mid) == IF mid = <<>> THEN <<>> ELSE Only(mid[1].hooks, FALSE)
Rest(pre, post) == Each(CleanOf, pre) \o Each(CleanOf, post)

\* A hook put first in an entry under dcg's matcher.
LEMMA PutFirst ==
    ASSUME NEW e \in [matcher : Matchers, array : BOOLEAN, hooks : Seq(HookObject)], e.matcher = "shell", e.array = TRUE, NEW list
    PROVE  [e EXCEPT !.hooks = <<Desired(list)>> \o @] = Ours(list, e.hooks)
<1> DEFINE new == [e EXCEPT !.hooks = <<Desired(list)>> \o @]
<1>1. DOMAIN new = {"matcher", "array", "hooks"} /\ new = [f \in DOMAIN new |-> new[f]]
  OBVIOUS
<1>2. new.matcher = "shell" /\ new.array = TRUE /\ new.hooks = <<Desired(list)>> \o e.hooks
  OBVIOUS
<1>3. Ours(list, e.hooks) = [f \in {"matcher", "array", "hooks"} |-> Ours(list, e.hooks)[f]]
  BY DEF Ours
<1>4. /\ Ours(list, e.hooks).matcher = "shell" /\ Ours(list, e.hooks).array = TRUE
      /\ Ours(list, e.hooks).hooks = <<Desired(list)>> \o e.hooks
  BY DEF Ours
<1> HIDE DEF new
<1> QED BY <1>1, <1>2, <1>3, <1>4

\* An install splits the list around the first entry under dcg's matcher.
LEMMA InstalledIs ==
    ASSUME NEW list \in Seq(Entry), ~Malformed(list)
    PROVE  \E pre, mid, post : Around(list, pre, mid, post)
                               /\ Installed(list) = <<Ours(list, KeptOf(mid))>> \o Rest(pre, post)
<1> DEFINE own == SelectInSeq(list, IsShell)
           entry == IF own = 0 THEN [matcher |-> "shell", array |-> TRUE, hooks |-> <<>>] ELSE Stripped(list[own])
<1>1. Installed(list) = <<[entry EXCEPT !.hooks = <<Desired(list)>> \o @]>> \o Cleaned(list, own)
  BY DEF Installed
<1>2. CASE own = 0 /\ \A p \in DOMAIN list : ~IsShell(list[p])
  <2>1. list = list \o (<<>> \o <<>>) /\ <<>> \in Seq(Entry)
    OBVIOUS
  <2>2. Around(list, list, <<>>, <<>>)
    BY <1>2, <2>1 DEF Around
  <2>3. [entry EXCEPT !.hooks = <<Desired(list)>> \o @] = Ours(list, KeptOf(<<>>))
    <3>1. entry = [matcher |-> "shell", array |-> TRUE, hooks |-> <<>>]
      BY <1>2
    <3> HIDE DEF entry
    <3>2. entry \in [matcher : Matchers, array : BOOLEAN, hooks : Seq(HookObject)] /\ entry.hooks = KeptOf(<<>>)
          /\ entry.matcher = "shell" /\ entry.array = TRUE
      BY <3>1 DEF Matchers, KeptOf
    <3> QED BY <3>2, PutFirst
  <2>4. Cleaned(list, own) = Rest(list, <<>>)
    <3>1. Each(CleanOf, list) \in Seq(Entry) /\ Cleaned(list, 0) = Each(CleanOf, list) /\ Each(CleanOf, <<>>) = <<>>
      BY CleanedList, ListIs, EachEmpty
    <3>2. \A s \in Seq(Entry) : s \o <<>> = s
      OBVIOUS
    <3> QED BY <1>2, <3>1, <3>2 DEF Rest
  <2> HIDE DEF own, entry
  <2>5. Installed(list) = <<Ours(list, KeptOf(<<>>))>> \o Rest(list, <<>>)
    BY <1>1, <2>3, <2>4
  <2> QED BY <2>2, <2>5
<1>t. \/ own = 0 /\ \A p \in DOMAIN list : ~IsShell(list[p])
      \/ \E pre, post \in Seq(Entry), o \in Entry :
           /\ list = pre \o (<<o>> \o post) /\ own = Len(pre) + 1
           /\ list[Len(pre) + 1] = o /\ Len(pre) + 1 \in DOMAIN list
           /\ IsShell(o) /\ \A p \in DOMAIN pre : ~IsShell(pre[p])
  BY FirstShell
<1>3. CASE ~(own = 0 /\ \A p \in DOMAIN list : ~IsShell(list[p]))
  <2>0. PICK pre, post \in Seq(Entry), o \in Entry :
          /\ list = pre \o (<<o>> \o post) /\ own = Len(pre) + 1
          /\ list[Len(pre) + 1] = o /\ Len(pre) + 1 \in DOMAIN list
          /\ IsShell(o) /\ \A p \in DOMAIN pre : ~IsShell(pre[p])
    BY <1>t, <1>3
  <2>1. o.array
    <3>1. o.matcher # "other"
      BY <2>0 DEF IsShell
    <3> QED BY <2>0, <3>1 DEF Malformed
  <2>2. <<o>> \in Seq(Entry) /\ <<o>> # <<>> /\ <<o>>[1] = o
    OBVIOUS
  <2>3. Around(list, pre, <<o>>, post)
    BY <2>0, <2>1, <2>2 DEF Around
  <2>4. own # 0 /\ list[own] = o
    BY <2>0
  <2>5. entry = Stripped(o)
    BY <2>4
  <2>6. KeptOf(<<o>>) = Only(o.hooks, FALSE)
    BY <2>2 DEF KeptOf
  <2>7. [entry EXCEPT !.hooks = <<Desired(list)>> \o @] = Ours(list, KeptOf(<<o>>))
    <3>1. /\ Stripped(o).hooks = Only(o.hooks, FALSE) /\ Stripped(o).matcher = "shell" /\ Stripped(o).array = TRUE
          /\ Stripped(o) \in [matcher : Matchers, array : BOOLEAN, hooks : Seq(HookObject)]
      BY <2>0, <2>1, StrippedIs DEF IsShell, Entry
    <3> HIDE DEF entry
    <3> QED BY <2>5, <2>6, <3>1, PutFirst
  <2>8. Cleaned(list, own) = Rest(pre, post)
    BY <2>0, CleanedWithout DEF Rest
  <2> HIDE DEF own, entry
  <2>9. Installed(list) = <<Ours(list, KeptOf(<<o>>))>> \o Rest(pre, post)
    BY <1>1, <2>7, <2>8
  <2> QED BY <2>3, <2>9
<1> QED BY <1>2, <1>3

\* The list as it was and as it is written, in what an operation takes from it.
ByPieces(list, pre, mid, post) ==
    \A q, T : Gives(q, Entry, T) =>
        /\ Each(q, list) = Each(q, pre) \o (Each(q, mid) \o Each(q, post))
        /\ Each(q, <<Ours(list, KeptOf(mid))>> \o Rest(pre, post))
           = q[Ours(list, KeptOf(mid))] \o (Each(q, Each(CleanOf, pre)) \o Each(q, Each(CleanOf, post)))

LEMMA InstalledPieces ==
    ASSUME NEW list \in Seq(Entry), NEW pre, NEW mid, NEW post, Around(list, pre, mid, post)
    PROVE  /\ Ours(list, KeptOf(mid)) \in Entry /\ Rest(pre, post) \in Seq(Entry)
           /\ ByPieces(list, pre, mid, post)
<1>1. pre \in Seq(Entry) /\ mid \in Seq(Entry) /\ post \in Seq(Entry) /\ list = pre \o (mid \o post)
  BY DEF Around
<1>2. \A s, t \in Seq(Entry) : s \o t \in Seq(Entry)
  OBVIOUS
<1>4. Each(CleanOf, pre) \in Seq(Entry) /\ Each(CleanOf, post) \in Seq(Entry)
  BY <1>1, CleanedList
<1>5. Rest(pre, post) \in Seq(Entry)
  BY <1>2, <1>4 DEF Rest
<1>6. KeptOf(mid) \in Seq(HookObject)
  <2>1. CASE mid = <<>>
    BY <2>1 DEF KeptOf
  <2>2. CASE mid # <<>>
    <3>1. PICK o \in Entry : mid = <<o>>
      BY <2>2 DEF Around
    <3>2. KeptOf(mid) = Only(o.hooks, FALSE)
      BY <3>1, <2>2 DEF KeptOf
    <3>3. Only(o.hooks, FALSE) \in Seq(HookObject)
      BY StrippedIs
    <3> QED BY <3>2, <3>3
  <2> QED BY <2>1, <2>2
<1>7. Ours(list, KeptOf(mid)) \in Entry
  <2>1. \A h \in HookObject, s \in Seq(HookObject) : <<h>> \o s \in Seq(HookObject)
    OBVIOUS
  <2>2. <<Desired(list)>> \o KeptOf(mid) \in Seq(HookObject)
    BY <1>6, <2>1, DesiredIs
  <2> QED BY <2>2 DEF Ours, Entry, Matchers
<1>8. <<Ours(list, KeptOf(mid))>> \in Seq(Entry)
  BY <1>7
<1>9. ASSUME NEW q, NEW T, Gives(q, Entry, T)
      PROVE  /\ Each(q, list) = Each(q, pre) \o (Each(q, mid) \o Each(q, post))
             /\ Each(q, <<Ours(list, KeptOf(mid))>> \o Rest(pre, post))
                = q[Ours(list, KeptOf(mid))] \o (Each(q, Each(CleanOf, pre)) \o Each(q, Each(CleanOf, post)))
  <2>1. \A s, t \in Seq(Entry) : Each(q, s \o t) = Each(q, s) \o Each(q, t)
    BY <1>9, EachConcat
  <2>2. Each(q, list) = Each(q, pre) \o (Each(q, mid) \o Each(q, post))
    <3>1. mid \o post \in Seq(Entry) /\ Each(q, mid \o post) = Each(q, mid) \o Each(q, post)
      BY <1>1, <1>2, <2>1
    <3>2. Each(q, pre \o (mid \o post)) = Each(q, pre) \o Each(q, mid \o post)
      BY <1>1, <2>1, <3>1
    <3> QED BY <1>1, <3>1, <3>2
  <2>3. Each(q, Rest(pre, post)) = Each(q, Each(CleanOf, pre)) \o Each(q, Each(CleanOf, post))
    BY <1>4, <2>1 DEF Rest
  <2>4. Each(q, <<Ours(list, KeptOf(mid))>>) = q[Ours(list, KeptOf(mid))]
    BY <1>7, <1>9, EachOne
  <2>5. Each(q, <<Ours(list, KeptOf(mid))>> \o Rest(pre, post))
        = Each(q, <<Ours(list, KeptOf(mid))>>) \o Each(q, Rest(pre, post))
    BY <1>5, <1>8, <2>1
  <2> QED BY <2>2, <2>3, <2>4, <2>5
<1> QED BY <1>5, <1>7, <1>9 DEF ByPieces

\* The hooks of dcg's that are looked at for what to take over are those in the list.
LEMMA PreviousHas ==
    ASSUME NEW list \in Seq(Entry), NEW x
    PROVE  Has(Previous(list), x) <=> Has(Dcg(list), x)
<1>1. Has(Dcg(list), x) <=> \E p \in DOMAIN list : Has(DcgOf[list[p]], x)
  BY ListIs, PiecesGive, EachHas
<1>2. ASSUME NEW own PROVE Has(Each(PreviousOf(own), list), x) <=> \E p \in DOMAIN list : Has(PreviousOf(own)[list[p]], x)
  BY PiecesGive, EachHas
<1>3. Has(Previous(list), x) <=> Has(Each(PreviousOf(TRUE), list), x) \/ Has(Each(PreviousOf(FALSE), list), x)
  <2>1. Each(PreviousOf(TRUE), list) \in Seq(HookObject) /\ Each(PreviousOf(FALSE), list) \in Seq(HookObject)
    BY PiecesGive, EachType
  <2>2. \A s, t \in Seq(HookObject) : Has(s \o t, x) <=> Has(s, x) \/ Has(t, x)
    BY HasConcat
  <2>3. Previous(list) = Each(PreviousOf(TRUE), list) \o Each(PreviousOf(FALSE), list)
    BY ListIs
  <2> QED BY <2>1, <2>2, <2>3
<1>4. ASSUME NEW p \in DOMAIN list
      PROVE  Has(DcgOf[list[p]], x) <=> Has(PreviousOf(TRUE)[list[p]], x) \/ Has(PreviousOf(FALSE)[list[p]], x)
  <2>1. list[p] \in Entry
    OBVIOUS
  <2>2. ~Has(<<>>, x)
    BY DEF Has
  <2>3. IsShell(list[p]) \in BOOLEAN
    BY DEF IsShell
  <2>4. /\ DcgOf[list[p]] = DcgHooks(list[p])
        /\ PreviousOf(TRUE)[list[p]] = IF IsShell(list[p]) = TRUE THEN DcgHooks(list[p]) ELSE <<>>
        /\ PreviousOf(FALSE)[list[p]] = IF IsShell(list[p]) = FALSE THEN DcgHooks(list[p]) ELSE <<>>
    BY <2>1 DEF DcgOf, PreviousOf
  <2>5. CASE IsShell(list[p]) = TRUE
    BY <2>2, <2>4, <2>5
  <2>6. CASE IsShell(list[p]) = FALSE
    BY <2>2, <2>4, <2>6
  <2> QED BY <2>3, <2>5, <2>6
<1> QED BY <1>1, <1>2, <1>3, <1>4

\* What is taken over is what a hook of dcg's in the list carries.
LEMMA DesiredFrom ==
    ASSUME NEW list \in Seq(Entry), Dcg(list) # <<>>
    PROVE  \E k \in DOMAIN Dcg(list) : Desired(list).extra = Dcg(list)[k].extra
<1>1. Dcg(list) \in Seq(HookObject) /\ Previous(list) \in Seq(HookObject)
  <2>1. Each(PreviousOf(TRUE), list) \in Seq(HookObject) /\ Each(PreviousOf(FALSE), list) \in Seq(HookObject) /\ Each(DcgOf, list) \in Seq(HookObject)
    BY PiecesGive, EachType
  <2>2. \A s, t \in Seq(HookObject) : s \o t \in Seq(HookObject)
    OBVIOUS
  <2>3. Each(PreviousOf(TRUE), list) \o Each(PreviousOf(FALSE), list) \in Seq(HookObject)
    BY <2>1, <2>2
  <2> QED BY <2>1, <2>3, ListIs
<1>2. PICK x \in HookObject : Has(Dcg(list), x)
  BY <1>1, HasNone
<1>3. Previous(list) # <<>>
  BY <1>1, <1>2, HasNone, PreviousHas
<1>4. 1 \in DOMAIN Previous(list)
  BY <1>1, <1>3
<1>5. Has(Previous(list), Previous(list)[1])
  BY <1>4 DEF Has
<1>6. Has(Dcg(list), Previous(list)[1])
  BY <1>5, PreviousHas
<1>7. PICK k \in DOMAIN Dcg(list) : Dcg(list)[k] = Previous(list)[1]
  BY <1>6 DEF Has
<1>8. Desired(list).extra = Previous(list)[1].extra
  BY <1>3 DEF Desired
<1> QED BY <1>7, <1>8

\* The entry that is written first holds one hook of dcg's, and the others it held.
LEMMA OursIs ==
    ASSUME NEW list \in Seq(Entry), NEW pre, NEW mid, NEW post, Around(list, pre, mid, post),
           NEW E, E = Ours(list, KeptOf(mid))
    PROVE  /\ E \in Entry /\ IsShell(E) /\ Exact(E)
           /\ DcgOf[E] = <<Desired(list)>> /\ NoArrayOf[E] = <<>>
           /\ \A m : ForeignOf(m)[E] = IF m = "shell" THEN KeptOf(mid) ELSE <<>>
           /\ \A m : Each(ForeignOf(m), mid) = IF m = "shell" THEN KeptOf(mid) ELSE <<>>
           /\ Each(NoArrayOf, mid) = <<>>
           /\ Stripped(E).hooks = KeptOf(mid)
<1> DEFINE kept == KeptOf(mid)
<1>1. E \in Entry
  BY InstalledPieces, PiecesGive
<1>2. /\ kept \in Seq(HookObject) /\ Only(kept, FALSE) = kept /\ Only(kept, TRUE) = <<>>
      /\ \A m : Each(ForeignOf(m), mid) = IF m = "shell" THEN kept ELSE <<>>
      /\ Each(NoArrayOf, mid) = <<>>
  <2>1. CASE mid = <<>>
    <3>1. kept = <<>> /\ <<>> \in Seq(HookObject)
      BY <2>1 DEF KeptOf
    <3>2. \A q : Each(q, mid) = <<>>
      BY <2>1, EachEmpty
    <3>3. Only(<<>>, FALSE) = <<>> /\ Only(<<>>, TRUE) = <<>>
      BY <3>1, OnlyIs, EachEmpty
    <3> QED BY <3>1, <3>2, <3>3
  <2>2. CASE mid # <<>>
    <3>1. PICK o \in Entry : mid = <<o>> /\ IsShell(o) /\ o.array
      BY <2>2 DEF Around
    <3>2. kept = Only(o.hooks, FALSE)
      BY <2>2, <3>1 DEF KeptOf
    <3>3. kept \in Seq(HookObject) /\ Only(kept, FALSE) = kept /\ Only(kept, TRUE) = <<>>
      BY <3>2, StrippedIs, OnlyIs, OnlyOnly
    <3>4. (\A m : Each(ForeignOf(m), mid) = ForeignOf(m)[o]) /\ Each(NoArrayOf, mid) = NoArrayOf[o]
      BY <3>1, PiecesGive, EachOne
    <3>5. (\A m : ForeignOf(m)[o] = IF m = "shell" THEN kept ELSE <<>>) /\ NoArrayOf[o] = <<>>
      BY <3>1, <3>2 DEF ForeignOf, NoArrayOf, IsShell
    <3> QED BY <3>3, <3>4, <3>5
  <2> QED BY <2>1, <2>2
<1>3. E.matcher = "shell" /\ E.array = TRUE /\ E.hooks = <<Desired(list)>> \o kept
  BY DEF Ours
<1> HIDE DEF kept
<1>4. ASSUME NEW b \in BOOLEAN PROVE Only(E.hooks, b) = Only(<<Desired(list)>>, b) \o Only(kept, b)
  <2>1. <<Desired(list)>> \in Seq(HookObject) /\ <<Desired(list)>> \o kept \in Seq(HookObject)
    <3>1. Desired(list) \in HookObject
      BY DesiredIs
    <3> QED BY <1>2, <3>1
  <2>2. \A s \in Seq(HookObject) : Only(s, b) = Each(Keep(b), s) /\ Gives(Keep(b), HookObject, HookObject)
    BY OnlyIs
  <2>3. Each(Keep(b), <<Desired(list)>> \o kept) = Each(Keep(b), <<Desired(list)>>) \o Each(Keep(b), kept)
    <3>1. Gives(Keep(b), HookObject, HookObject)
      BY OnlyIs, <1>2
    <3>2. \A s, t \in Seq(HookObject) : Each(Keep(b), s \o t) = Each(Keep(b), s) \o Each(Keep(b), t)
      BY <3>1, EachConcat
    <3> QED BY <1>2, <2>1, <3>2
  <2> QED BY <1>2, <1>3, <2>1, <2>2, <2>3
<1>5. Only(E.hooks, FALSE) = kept /\ Only(E.hooks, TRUE) = <<Desired(list)>>
  <2>1. \A s \in Seq(HookObject) : <<>> \o s = s /\ s \o <<>> = s
    OBVIOUS
  <2>2. Desired(list) \in HookObject /\ <<Desired(list)>> \in Seq(HookObject)
    <3>1. Desired(list) \in HookObject
      BY DesiredIs
    <3> QED BY <3>1
  <2> QED BY <1>2, <1>4, <2>1, <2>2, DesiredIs
<1>6. IsShell(E)
  BY <1>3 DEF IsShell
<1>7. Exact(E)
  <2>1. 1 \in DOMAIN E.hooks /\ E.hooks[1] = Desired(list)
    <3>1. Desired(list) \in HookObject
      BY DesiredIs
    <3>2. \A h \in HookObject, s \in Seq(HookObject) : 1 \in DOMAIN (<<h>> \o s) /\ (<<h>> \o s)[1] = h
      OBVIOUS
    <3> QED BY <1>2, <1>3, <3>1, <3>2
  <2> QED BY <1>6, <2>1, DesiredIs DEF Exact
<1>8. DcgOf[E] = <<Desired(list)>> /\ NoArrayOf[E] = <<>>
  BY <1>1, <1>3, <1>5 DEF DcgOf, NoArrayOf, DcgHooks
<1>9. \A m : ForeignOf(m)[E] = IF m = "shell" THEN kept ELSE <<>>
  BY <1>1, <1>3, <1>5 DEF ForeignOf
<1>10. Stripped(E).hooks = kept
  BY <1>1, <1>5, StrippedIs
<1> QED BY <1>1, <1>2, <1>6, <1>7, <1>8, <1>9, <1>10 DEF kept

\* What an install, or a repair, makes of a list.
LEMMA InstalledKeeps ==
    ASSUME NEW list \in Seq(Entry), ~Malformed(list), NEW L, L = Installed(list)
    PROVE  /\ L \in Seq(Entry) /\ Dcg(L) = <<Desired(list)>>
           /\ Exact(L[1]) /\ Registers(L) /\ Installed(L) = L
           /\ \A m \in Matchers : Foreign(L, m) = Foreign(list, m)
           /\ Unreadable(L) = Unreadable(list)
<1>1. PICK pre, mid, post : Around(list, pre, mid, post) /\ L = <<Ours(list, KeptOf(mid))>> \o Rest(pre, post)
  BY InstalledIs
<1> DEFINE E == Ours(list, KeptOf(mid))
           R == Rest(pre, post)
<1>2. /\ E \in Entry /\ IsShell(E) /\ Exact(E)
      /\ DcgOf[E] = <<Desired(list)>> /\ NoArrayOf[E] = <<>>
      /\ \A m : ForeignOf(m)[E] = IF m = "shell" THEN KeptOf(mid) ELSE <<>>
      /\ \A m : Each(ForeignOf(m), mid) = IF m = "shell" THEN KeptOf(mid) ELSE <<>>
      /\ Each(NoArrayOf, mid) = <<>>
      /\ Stripped(E).hooks = KeptOf(mid)
  BY <1>1, OursIs
<1>3. pre \in Seq(Entry) /\ mid \in Seq(Entry) /\ post \in Seq(Entry)
  BY <1>1 DEF Around
<1>4. R \in Seq(Entry)
  BY <1>1, InstalledPieces, PiecesGive
<1>5. \A q, T : Gives(q, Entry, T) =>
        /\ Each(q, list) = Each(q, pre) \o (Each(q, mid) \o Each(q, post))
        /\ Each(q, L) = q[E] \o (Each(q, Each(CleanOf, pre)) \o Each(q, Each(CleanOf, post)))
  <2>1. ByPieces(list, pre, mid, post)
    BY <1>1, InstalledPieces
  <2> QED BY <1>1, <2>1 DEF ByPieces
<1>6. L = <<E>> \o R
  BY <1>1
<1> HIDE DEF E, R
<1>7. L \in Seq(Entry) /\ L[1] = E /\ 1 \in DOMAIN L
  BY <1>2, <1>4, <1>6
<1>8. Exact(L[1]) /\ Registers(L)
  BY <1>2, <1>7 DEF Registers
<1>9. Dcg(L) = <<Desired(list)>>
  <2>1. Each(DcgOf, Each(CleanOf, pre)) = <<>> /\ Each(DcgOf, Each(CleanOf, post)) = <<>>
    BY <1>3, CleanedList
  <2>2. Each(DcgOf, L) = DcgOf[E] \o (Each(DcgOf, Each(CleanOf, pre)) \o Each(DcgOf, Each(CleanOf, post)))
    BY <1>5, PiecesGive
  <2>3. <<Desired(list)>> \o (<<>> \o <<>>) = <<Desired(list)>>
    OBVIOUS
  <2>4. Dcg(L) = Each(DcgOf, L)
    BY <1>7, ListIs
  <2> QED BY <1>2, <2>1, <2>2, <2>3, <2>4
<1>10. Unreadable(L) = Unreadable(list)
  <2>1. /\ Each(NoArrayOf, list) = Each(NoArrayOf, pre) \o (Each(NoArrayOf, mid) \o Each(NoArrayOf, post))
        /\ Each(NoArrayOf, L) = NoArrayOf[E] \o (Each(NoArrayOf, Each(CleanOf, pre)) \o Each(NoArrayOf, Each(CleanOf, post)))
    BY <1>5, PiecesGive
  <2>2. /\ Each(NoArrayOf, Each(CleanOf, pre)) = Each(NoArrayOf, pre)
        /\ Each(NoArrayOf, Each(CleanOf, post)) = Each(NoArrayOf, post)
    BY <1>3, CleanedList
  <2>3. Each(NoArrayOf, pre) \in Seq(Entry) /\ Each(NoArrayOf, post) \in Seq(Entry)
    BY <1>3, PiecesGive, EachType
  <2>4. \A s, t \in Seq(Entry) : <<>> \o (s \o t) = s \o (<<>> \o t)
    OBVIOUS
  <2>5. Unreadable(L) = Each(NoArrayOf, L) /\ Unreadable(list) = Each(NoArrayOf, list)
    BY <1>7, ListIs
  <2> QED BY <1>2, <2>1, <2>2, <2>3, <2>4, <2>5
<1>11. ASSUME NEW m \in Matchers PROVE Foreign(L, m) = Foreign(list, m)
  <2> DEFINE q == ForeignOf(m)
             kept == KeptOf(mid)
  <2>1. Gives(q, Entry, HookObject)
    BY PiecesGive
  <2>2. q[E] = (IF m = "shell" THEN kept ELSE <<>>) /\ Each(q, mid) = IF m = "shell" THEN kept ELSE <<>>
    BY <1>2
  <2>3. Each(q, Each(CleanOf, pre)) = Each(q, pre) /\ Each(q, Each(CleanOf, post)) = Each(q, post)
    BY <1>3, CleanedList
  <2>4. Foreign(L, m) = Each(q, L) /\ Foreign(list, m) = Each(q, list)
    BY <1>7, ListIs
  <2>5. m = "shell" => Each(q, pre) = <<>>
    <3> SUFFICES ASSUME m = "shell" PROVE Each(q, pre) = <<>>
      OBVIOUS
    <3>1. ASSUME NEW p \in DOMAIN pre PROVE q[pre[p]] = <<>>
      <4>1. pre[p] \in Entry /\ pre[p].matcher # "shell"
        BY <1>1, <1>3 DEF Around, IsShell
      <4> QED BY <4>1 DEF ForeignOf
    <3> HIDE DEF q
    <3> QED BY <1>3, <2>1, <3>1, EachNone
  <2> HIDE DEF q
  <2>6. /\ Each(q, list) = Each(q, pre) \o (Each(q, mid) \o Each(q, post))
        /\ Each(q, L) = q[E] \o (Each(q, Each(CleanOf, pre)) \o Each(q, Each(CleanOf, post)))
    BY <1>5, <2>1
  <2>7. Each(q, pre) \in Seq(HookObject) /\ Each(q, mid) \in Seq(HookObject) /\ Each(q, post) \in Seq(HookObject)
    BY <1>3, <2>1, EachType
  <2>8. \A s, t \in Seq(HookObject) : <<>> \o (s \o t) = s \o (<<>> \o t)
    OBVIOUS
  <2>9. CASE m = "shell"
    <3>1. q[E] = Each(q, mid) /\ Each(q, pre) = <<>>
      BY <2>2, <2>5, <2>9
    <3> QED BY <2>3, <2>4, <2>6, <2>7, <2>8, <3>1
  <2>10. CASE m # "shell"
    <3>1. q[E] = <<>> /\ Each(q, mid) = <<>>
      BY <2>2, <2>10
    <3> QED BY <2>3, <2>4, <2>6, <2>7, <2>8, <3>1
  <2> QED BY <2>9, <2>10
<1>12. Installed(L) = L
  <2>1. SelectInSeq(L, IsShell) = 1
    <3> DEFINE I == {i \in 1..Len(L) : IsShell(L[i])}
    <3>1. 1 \in I /\ \A i \in I : i \in Nat /\ 1 <= i
      BY <1>2, <1>7
    <3>2. SelectInSeq(L, IsShell) = IF I # {} THEN Min(I) ELSE 0
      BY DEF SelectInSeq
    <3> HIDE DEF I
    <3>3. Min(I) \in I /\ Min(I) <= 1
      BY <3>1 DEF Min
    <3> QED BY <3>1, <3>2, <3>3
  <2>2. Desired(L) = Desired(list)
    <3>1. Dcg(L) # <<>> /\ \A k \in DOMAIN Dcg(L) : Dcg(L)[k] = Desired(list)
      BY <1>9
    <3>2. Desired(L).extra = Desired(list).extra
      BY <1>7, <3>1, DesiredFrom
    <3> QED BY <3>2 DEF Desired
  <2>3. Cleaned(L, 1) = R
    <3>1. <<>> \in Seq(Entry) /\ <<>> \o (<<E>> \o R) = <<E>> \o R /\ Len(<<>>) + 1 = 1
      BY <1>2, <1>4
    <3>2. Cleaned(<<>> \o (<<E>> \o R), Len(<<>>) + 1) = Each(CleanOf, <<>>) \o Each(CleanOf, R)
      BY <1>2, <1>4, <3>1, CleanedWithout
    <3>3. Each(CleanOf, R) = R
      <4>1. Each(CleanOf, pre) \in Seq(Entry) /\ Each(CleanOf, post) \in Seq(Entry)
            /\ Each(CleanOf, Each(CleanOf, pre)) = Each(CleanOf, pre) /\ Each(CleanOf, Each(CleanOf, post)) = Each(CleanOf, post)
        BY <1>3, CleanedList
      <4>2. \A s, t \in Seq(Entry) : Each(CleanOf, s \o t) = Each(CleanOf, s) \o Each(CleanOf, t)
        <5>1. Gives(CleanOf, Entry, Entry)
          BY PiecesGive
        <5> QED BY <5>1, EachConcat
      <4>3. Each(CleanOf, Each(CleanOf, pre) \o Each(CleanOf, post)) = Each(CleanOf, pre) \o Each(CleanOf, post)
        BY <4>1, <4>2
      <4> QED BY <4>3 DEF R, Rest
    <3>4. Each(CleanOf, <<>>) = <<>> /\ <<>> \o R = R
      BY <1>4, EachEmpty
    <3> QED BY <1>6, <3>1, <3>2, <3>3, <3>4
  <2>4. /\ Stripped(E) \in [matcher : Matchers, array : BOOLEAN, hooks : Seq(HookObject)]
        /\ Stripped(E).matcher = "shell" /\ Stripped(E).array = TRUE /\ Stripped(E).hooks = KeptOf(mid)
    <3>1. E.matcher = "shell" /\ E.array = TRUE
      BY DEF E, Ours
    <3>2. Stripped(E) \in Entry /\ Stripped(E).matcher = E.matcher /\ Stripped(E).array = E.array
      BY <1>2, StrippedIs
    <3> QED BY <1>2, <3>1, <3>2 DEF Entry
  <2>5. [Stripped(E) EXCEPT !.hooks = <<Desired(L)>> \o @] = Ours(L, KeptOf(mid))
    <3>1. [Stripped(E) EXCEPT !.hooks = <<Desired(L)>> \o @] = Ours(L, Stripped(E).hooks)
      BY <2>4, PutFirst
    <3> QED BY <2>4, <3>1
  <2>6. Ours(L, KeptOf(mid)) = E
    BY <2>2 DEF E, Ours
  <2>7. Installed(L) = <<[(IF SelectInSeq(L, IsShell) = 0 THEN [matcher |-> "shell", array |-> TRUE, hooks |-> <<>>]
                           ELSE Stripped(L[SelectInSeq(L, IsShell)])) EXCEPT !.hooks = <<Desired(L)>> \o @]>>
                       \o Cleaned(L, SelectInSeq(L, IsShell))
    BY DEF Installed
  <2>8. Installed(L) = <<[Stripped(L[1]) EXCEPT !.hooks = <<Desired(L)>> \o @]>> \o Cleaned(L, 1)
    BY <2>1, <2>7
  <2> QED BY <1>6, <1>7, <2>3, <2>5, <2>6, <2>8
<1> QED BY <1>7, <1>8, <1>9, <1>10, <1>11, <1>12

EntriesInv ==
    /\ entries \in Seq(Entry) /\ was \in Seq(Entry)
    /\ OneHook /\ OthersKept

\* It holds at first, and every step keeps it.
LEMMA EntriesInvInit == EntriesInit => EntriesInv
  BY ListsAssumption DEF EntriesInit, EntriesInv, OneHook, OthersKept, Written

LEMMA EntriesInvStep == EntriesInv /\ [EntriesNext]_entryVars => EntriesInv'
<1> SUFFICES ASSUME EntriesInv, [EntriesNext]_entryVars PROVE EntriesInv'
  OBVIOUS
<1>t. entries \in Seq(Entry) /\ was \in Seq(Entry)
  BY DEF EntriesInv
<1>1. ASSUME did' = "failed", entries' = entries, was' = entries PROVE EntriesInv'
  BY <1>t, <1>1 DEF EntriesInv, OneHook, OthersKept, Written
<1>2. ASSUME did' \in {"install", "heal"}, ~Malformed(entries), entries' = Installed(entries), was' = entries
      PROVE  EntriesInv'
  <2> DEFINE L == Installed(entries)
  <2>1. /\ L \in Seq(Entry) /\ Dcg(L) = <<Desired(entries)>>
        /\ Exact(L[1]) /\ Registers(L) /\ Installed(L) = L
        /\ \A m \in Matchers : Foreign(L, m) = Foreign(entries, m)
        /\ Unreadable(L) = Unreadable(entries)
    BY <1>t, <1>2, InstalledKeeps
  <2>2. entries' = L
    BY <1>2
  <2> HIDE DEF L
  <2>3. OneHook'
    <3>1. Len(<<Desired(entries)>>) = 1
      OBVIOUS
    <3> QED BY <1>2, <2>1, <2>2, <3>1 DEF OneHook, Written
  <2>4. OthersKept'
    <3>1. ASSUME Dcg(entries) # <<>>,
                 \A j, k \in DOMAIN Dcg(entries) : Dcg(entries)[j].extra = Dcg(entries)[k].extra
          PROVE  Dcg(L)[1].extra = Dcg(entries)[1].extra
      <4>1. PICK k \in DOMAIN Dcg(entries) : Desired(entries).extra = Dcg(entries)[k].extra
        BY <1>t, <3>1, DesiredFrom
      <4>2. Dcg(L)[1] = Desired(entries)
        BY <2>1
      <4>3. Dcg(entries) \in Seq(HookObject)
        <5>1. Each(DcgOf, entries) \in Seq(HookObject)
          BY <1>t, PiecesGive, EachType
        <5> QED BY <1>t, <5>1, ListIs
      <4>4. 1 \in DOMAIN Dcg(entries)
        BY <3>1, <4>3
      <4> QED BY <3>1, <4>1, <4>2, <4>4
    <3> QED BY <1>2, <2>1, <2>2, <3>1 DEF OthersKept
  <2> QED BY <1>t, <1>2, <2>1, <2>2, <2>3, <2>4 DEF EntriesInv
<1>3. CASE InstallHook \/ HealHook
  <2>1. \/ did' = "failed" /\ entries' = entries /\ was' = entries
        \/ did' \in {"install", "heal"} /\ ~Malformed(entries) /\ entries' = Installed(entries) /\ was' = entries
    BY <1>3 DEF InstallHook, HealHook, Writes
  <2> QED BY <1>1, <1>2, <2>1
<1>4. CASE UninstallHook
  <2>1. did' = "uninstall" /\ entries' = Cleaned(entries, 0) /\ was' = entries
    BY <1>4 DEF UninstallHook, Writes
  <2> DEFINE C == Each(CleanOf, entries)
  <2>2. entries' = C
    BY <1>t, <2>1, ListIs
  <2>3. /\ C \in Seq(Entry)
        /\ \A m : Each(ForeignOf(m), C) = Each(ForeignOf(m), entries)
        /\ Each(NoArrayOf, C) = Each(NoArrayOf, entries)
        /\ Each(DcgOf, C) = <<>>
    BY <1>t, CleanedList
  <2> HIDE DEF C
  <2>4. /\ \A m \in Matchers : Foreign(C, m) = Foreign(entries, m)
        /\ Unreadable(C) = Unreadable(entries) /\ Dcg(C) = <<>>
    BY <1>t, <2>3, ListIs
  <2> QED BY <1>t, <2>1, <2>2, <2>3, <2>4 DEF EntriesInv, OneHook, OthersKept, Written
<1>5. CASE UNCHANGED entryVars
  <2>1. UNCHANGED <<entries, was, did>>
    BY <1>5 DEF entryVars
  <2> QED BY <2>1 DEF EntriesInv, OneHook, OthersKept, Written
<1> QED BY <1>3, <1>4, <1>5 DEF EntriesNext

\* However many entries and hooks there are, and whatever install, self-heal and
\* uninstall are run in a row: after an install or a repair the list holds one hook of
\* dcg's, under its matcher, and would be written the same again; after an uninstall it
\* holds none (cli.rs:13471-13499, 13501-13630).
THEOREM InstallsOneHook == EntriesSpec => []OneHook
<1>1. EntriesInv => OneHook
  BY DEF EntriesInv
<1> QED BY EntriesInvInit, EntriesInvStep, <1>1, PTL DEF EntriesSpec

\* None of the commands takes or moves a hook of others, or an entry dcg cannot read,
\* and what dcg's hooks carried the one that replaces them carries
\* (cli.rs:13404-13450, 13471-13499, 13536-13615).
THEOREM InstallKeepsOthers == EntriesSpec => []OthersKept
<1>1. EntriesInv => OthersKept
  BY DEF EntriesInv
<1> QED BY EntriesInvInit, EntriesInvStep, <1>1, PTL DEF EntriesSpec
================================================================================
