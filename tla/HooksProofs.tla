---------------------------- MODULE HooksProofs ----------------------------
(***************************************************************************)
(* Theorems about installing and uninstalling the hooks, for any status    *)
(* lines and versions and any number of kills, failures and edits.         *)
(*                                                                         *)
(* HooksHaveSecret needs nothing more than that one command runs at a      *)
(* time: whoever edits a configuration meanwhile keeps our entries as they *)
(* are.  The other properties are about contents that somebody may change  *)
(* between the moment a command reads them and the moment it writes, so    *)
(* they are stated for edits between commands.                             *)
(***************************************************************************)
EXTENDS HooksInstall, TLAPS

Installing == {"read_backups", "snapshot", "write"}

IsMap(f) == f = [p \in Paths |-> f[p]]

\* The contents the files of f may have.
FilesOK(f) ==
    /\ IsMap(f)
    /\ f["state"] \in State \cup {NoFile} /\ f["secret"] \in {"secret", NoFile}
    /\ f["codex"] \in Content \cup {NoFile} /\ f["claude"] \in Content \cup {NoFile}
    /\ f["codexBackup"] \subseteq Content /\ f["claudeBackup"] \subseteq Content

\* What a command has in mind to write, at each of its steps.
NewOK ==
    /\ IsMap(new)
    /\ pc \in Installing =>
          /\ new["state"] \in State /\ new["secret"] = "secret"
          /\ new["codex"] \in Content /\ new["claude"] \in Content
    /\ pc \in {"snapshot", "write"} =>
          new["codexBackup"] \subseteq Content /\ new["claudeBackup"] \subseteq Content
    /\ pc \in {"un_codex_backup", "un_codex"} => new["codex"] \in Content
    /\ pc \in {"un_codex_backup", "un_codex", "un_claude"} =>
          new["state"] \in State \cup {NoFile}
    /\ pc \in {"un_claude_backup", "un_claude_write"} => new["claude"] \in Content

TypeInv ==
    /\ FilesOK(disk) /\ NewOK
    /\ pc \in {"write", "rollback"} => FilesOK(before)
    /\ IsMap(before)
    /\ pc \in Phases /\ next \in 1..6
    /\ line \in Lines \cup {NoLine}
    /\ edits \in Nat /\ failures \in Nat /\ rollbackFailed \in BOOLEAN
    /\ pc = "un_codex_backup" => disk["codex"] # NoFile
    /\ pc = "un_claude_backup" => disk["claude"] # NoFile

Managed(f, c) == f[c] # NoFile /\ f[c].managed

\* A command writes the secret before it makes a hook visible, and removes
\* it when no hook is left.  A rollback goes the other way.
SecretInv ==
    /\ ~rollbackFailed /\ (\E c \in Configs : Managed(disk, c)) => disk["secret"] # NoFile
    /\ pc \in {"write", "rollback"} /\ next > 2 => disk["secret"] # NoFile
    /\ pc \in {"write", "rollback"} /\ ~rollbackFailed =>
          /\ (\E c \in Configs : Managed(before, c)) => before["secret"] # NoFile
          /\ Managed(disk, "claude") <=> Managed(before, "claude")
          /\ next < 4 \/ (next = 4 /\ pc = "write") =>
                (Managed(disk, "codex") <=> Managed(before, "codex"))

\* Uninstall takes our entries out of one configuration after the other.
UninstallInv ==
    /\ pc \in {"un_codex_backup", "un_codex"} => ~new["codex"].managed
    /\ pc \in {"un_claude", "un_claude_backup", "un_claude_write", "un_secret",
               "un_state", "uninstalled"} => ~Managed(disk, "codex")
    /\ pc \in {"un_claude_backup", "un_claude_write"} => ~new["claude"].managed
    /\ pc \in {"un_secret", "un_state", "uninstalled"} => ~Managed(disk, "claude")

\* The status line of a Claude configuration.
StatusOf(f) == IF f["claude"] = NoFile THEN NoLine ELSE f["claude"].status

Restorable(f) == StatusOf(f) = Wrapper => f["state"] # NoFile /\ f["state"].prev = line

\* Claude shows the user's line, or the wrapper with a state file that has it.
LineInv ==
    /\ StatusOf(disk) # Wrapper => StatusOf(disk) = line
    /\ Restorable(disk)
    /\ pc \in Installing => new["state"].prev = line /\ new["claude"].status = Wrapper
    /\ pc = "write" /\ next > 1 => disk["state"] = new["state"]
    /\ pc \in {"write", "rollback"} =>
          Restorable(before) /\ disk["claude"] = before["claude"]
    /\ pc \in {"un_codex_backup", "un_codex", "un_claude"} => new["state"] = disk["state"]
    /\ pc \in {"un_claude_backup", "un_claude_write"} => new["claude"].status = line
    /\ pc \in {"un_secret", "un_state", "uninstalled"} => StatusOf(disk) # Wrapper

\* Files that are not written yet, and those that are rolled back, are as the
\* transaction found them.
UndoInv ==
    /\ pc = "write" =>
          \A i \in 1..6 : i >= next => disk[Order[i]] = before[Order[i]]
    /\ pc = "rollback" /\ ~rollbackFailed =>
          \A i \in 1..6 : i > next => disk[Order[i]] = before[Order[i]]
    /\ FailedInstallUndone

\* The copy that is about to become a backup, or that became one, is the file
\* that is about to be replaced.
BackupInv ==
    /\ pc = "snapshot" \/ (pc = "write" /\ next <= 4) =>
          (disk["codex"] # NoFile => disk["codex"] \in new["codexBackup"])
    /\ pc \in {"snapshot", "write"} =>
          (disk["claude"] # NoFile => disk["claude"] \in new["claudeBackup"])
    /\ pc = "write" /\ next > 3 => new["codexBackup"] \subseteq disk["codexBackup"]
    /\ pc = "write" /\ next > 5 => new["claudeBackup"] \subseteq disk["claudeBackup"]
    /\ pc = "un_codex" => disk["codex"] \in disk["codexBackup"]
    /\ pc = "un_claude_write" => disk["claude"] \in disk["claudeBackup"]

IInv ==
    /\ TypeInv /\ SecretInv /\ UninstallInv
    /\ ~ConcurrentEdits => LineInv /\ UndoInv /\ BackupInv

-----------------------------------------------------------------------------
(* Facts about the operators of the model.                                 *)

\* The order in which Install writes its files, unfolded.
LEMMA OrderFacts ==
    /\ Len(Order) = 6
    /\ Order[1] = "state" /\ Order[2] = "secret" /\ Order[3] = "codexBackup"
    /\ Order[4] = "codex" /\ Order[5] = "claudeBackup" /\ Order[6] = "claude"
BY DEF Order

\* The six files that Install and Uninstall touch.
LEMMA PathFacts ==
    Paths = {"state", "secret", "codex", "claude", "codexBackup", "claudeBackup"}
BY DEF Paths, Configs, Backups

\* What Root sees of a configuration.
LEMMA RootFacts ==
    ASSUME FilesOK(disk), NEW c \in Configs
    PROVE  /\ Root(c) \in Content
           /\ Root(c).managed <=> Managed(disk, c)
           /\ Root("claude").status = StatusOf(disk)
           /\ disk[c] # NoFile => Root(c) = disk[c]
BY DEF FilesOK, Root, EmptyConfig, Content, Managed, StatusOf, Configs

\* Replacing one file leaves the others.
LEMMA PutFile ==
    ASSUME NEW f, IsMap(f), NEW p \in Paths, NEW v
    PROVE  /\ IsMap([f EXCEPT ![p] = v])
           /\ [f EXCEPT ![p] = v][p] = v
           /\ \A q \in Paths \ {p} : [f EXCEPT ![p] = v][q] = f[q]
BY DEF IsMap

\* A run that has not read anything yet plans no write.
LEMMA NoWritesMap == IsMap(NoWrites)
BY DEF IsMap, NoWrites
-----------------------------------------------------------------------------
(* Types.                                                                  *)

\* A file that is replaced by a proper one.
LEMMA PutFileOK ==
    ASSUME NEW f, FilesOK(f), NEW p \in Paths, NEW v,
           p = "state" => v \in State \cup {NoFile},
           p = "secret" => v \in {"secret", NoFile},
           p \in Configs => v \in Content \cup {NoFile},
           p \in Backups => v \subseteq Content
    PROVE  FilesOK([f EXCEPT ![p] = v])
<1>1. /\ IsMap([f EXCEPT ![p] = v])
      /\ [f EXCEPT ![p] = v][p] = v
      /\ \A q \in Paths \ {p} : [f EXCEPT ![p] = v][q] = f[q]
  BY PutFile DEF FilesOK
<1> DEFINE g == [f EXCEPT ![p] = v]
<1>2. IsMap(g) /\ g[p] = v /\ \A q \in Paths \ {p} : g[q] = f[q]
  BY <1>1
<1> HIDE DEF g
<1>3. FilesOK(g)
  BY <1>2, PathFacts DEF FilesOK, Configs, Backups
<1> QED
  BY <1>3 DEF g

\* The contents of a configuration with our entries in it, or out of it.
LEMMA MergedContent ==
    ASSUME NEW r \in Content, NEW m \in BOOLEAN, NEW l \in Lines \cup {NoLine, Wrapper}
    PROVE  /\ [r EXCEPT !.managed = m] \in Content
           /\ [r EXCEPT !.managed = m, !.status = l] \in Content
           /\ [r EXCEPT !.managed = m].managed = m
           /\ [r EXCEPT !.managed = m, !.status = l].managed = m
           /\ [r EXCEPT !.managed = m, !.status = l].status = l
BY DEF Content

\* The next file of the transaction.
LEMMA NextFile ==
    ASSUME next \in 1..6
    PROVE  /\ Order[next] \in Paths
           /\ Order[next] = "state" <=> next = 1
           /\ Order[next] = "secret" <=> next = 2
           /\ Order[next] = "codexBackup" <=> next = 3
           /\ Order[next] = "codex" <=> next = 4
           /\ Order[next] = "claudeBackup" <=> next = 5
           /\ Order[next] = "claude" <=> next = 6
<1>1. next = 1 \/ next = 2 \/ next = 3 \/ next = 4 \/ next = 5 \/ next = 6
  OBVIOUS
<1> QED
  BY <1>1, OrderFacts, PathFacts

\* The status line that Install remembers is a user's line or none.
LEMMA PreviousLineType ==
    ASSUME FilesOK(disk)
    PROVE  PreviousLine \in Lines \cup {NoLine}
<1>1. Root("claude") \in Content
  BY RootFacts DEF Configs
<1> QED
  BY <1>1 DEF PreviousLine, FilesOK, Content, State

\* Every step of Install, Uninstall, their failures and the editor keeps the types.
LEMMA TypeNext ==
    ASSUME TypeInv, [Next]_vars
    PROVE  TypeInv'
<1> USE HooksAssumption, NoFileAssumption
<1>1. /\ FilesOK(disk) /\ NewOK /\ IsMap(new) /\ IsMap(before)
      /\ next \in 1..6 /\ failures \in Nat /\ edits \in Nat
  BY DEF TypeInv, NewOK
<1>2. Root("codex") \in Content /\ Root("claude") \in Content
  BY <1>1, RootFacts DEF Configs
<1>3. CASE ReadRoots
  <2>1. PreviousLine \in Lines \cup {NoLine}
    BY <1>1, PreviousLineType
  <2>2. [Root("codex") EXCEPT !.managed = TRUE] \in Content
    BY <1>2, MergedContent
  <2>3. [Root("claude") EXCEPT !.managed = TRUE, !.status = Wrapper] \in Content
    BY <1>2, MergedContent
  <2>4. /\ IsMap(new')
        /\ new'["state"] = [prev |-> PreviousLine] /\ new'["secret"] = "secret"
        /\ new'["codex"] = [Root("codex") EXCEPT !.managed = TRUE]
        /\ new'["claude"] = [Root("claude") EXCEPT !.managed = TRUE, !.status = Wrapper]
    BY <1>3, PathFacts DEF ReadRoots, NoWrites, IsMap
  <2>5. NewOK'
    BY <1>3, <2>1, <2>2, <2>3, <2>4 DEF ReadRoots, NewOK, State, Installing
  <2> QED
    BY <1>3, <2>5, NoWritesMap DEF ReadRoots, TypeInv, Phases
<1>4. CASE ReadBackups
  <2>1. /\ IsMap(new')
        /\ new'["state"] = new["state"] /\ new'["secret"] = new["secret"]
        /\ new'["codex"] = new["codex"] /\ new'["claude"] = new["claude"]
    BY <1>4, PathFacts DEF ReadBackups, IsMap, Backups
  <2>2. \A p \in Backups : new'[p] \subseteq Content
    BY <1>1, <1>4, PathFacts DEF ReadBackups, FilesOK, Backups, Configs
  <2>3. NewOK'
    BY <1>1, <1>4, <2>1, <2>2 DEF ReadBackups, NewOK, Installing, Backups
  <2> QED
    BY <1>4, <2>3 DEF ReadBackups, TypeInv, Phases
<1>5. CASE TakeSnapshots
  BY <1>5 DEF TakeSnapshots, TypeInv, NewOK, Installing, Phases, FilesOK
<1>6. CASE WriteFile
  <2>1. FilesOK(disk')
    <3> DEFINE v == Written(Order[next])
    <3>1. /\ Order[next] = "state" => v \in State \cup {NoFile}
          /\ Order[next] = "secret" => v \in {"secret", NoFile}
          /\ Order[next] \in Configs => v \in Content \cup {NoFile}
          /\ Order[next] \in Backups => v \subseteq Content
      BY <1>1, <1>6 DEF WriteFile, Written, NewOK, FilesOK, Installing, Configs, Backups
    <3>2. disk' = [disk EXCEPT ![Order[next]] = v]
      BY <1>6 DEF WriteFile
    <3> HIDE DEF v
    <3> QED
      BY <1>1, <3>1, <3>2, PutFileOK, NextFile
  <2>2. next' \in 1..6
    BY <1>1, <1>6, OrderFacts DEF WriteFile
  <2>3. NewOK' /\ IsMap(before')
    BY <1>1, <1>6, NoWritesMap DEF WriteFile, NewOK, Installing
  <2> QED
    BY <1>6, <2>1, <2>2, <2>3 DEF WriteFile, TypeInv, Phases
<1>7. CASE WriteFails
  BY <1>7 DEF WriteFails, TypeInv, NewOK, Installing, Phases
<1>8. ASSUME NextRollback, pc = "rollback"
      PROVE  /\ next' \in 1..6 /\ NewOK' /\ pc' \in {"rollback", "failed"}
  <2>1. next' \in 1..6
    BY <1>1, <1>8 DEF NextRollback, RolledBack
  <2> QED
    BY <1>1, <1>8, <2>1, NoWritesMap DEF NextRollback, NewOK, Installing
<1>9. CASE RestoreFile
  <2>1. FilesOK(before)
    BY <1>9 DEF RestoreFile, TypeInv
  <2>2. /\ Order[next] = "state" => before[Order[next]] \in State \cup {NoFile}
        /\ Order[next] = "secret" => before[Order[next]] \in {"secret", NoFile}
        /\ Order[next] \in Configs => before[Order[next]] \in Content \cup {NoFile}
        /\ Order[next] \in Backups => before[Order[next]] \subseteq Content
    BY <2>1 DEF FilesOK, Configs, Backups
  <2>3. FilesOK(disk')
    BY <1>1, <1>9, <2>2, PutFileOK, NextFile DEF RestoreFile
  <2> QED
    BY <1>8, <1>9, <2>3 DEF RestoreFile, TypeInv, Phases
<1>10. CASE RestoreFails
  BY <1>8, <1>10 DEF RestoreFails, TypeInv, Phases
<1>11. CASE BeginUninstall
  <2>1. [Root("codex") EXCEPT !.managed = FALSE] \in Content
    BY <1>2, MergedContent
  <2>2. /\ IsMap(new') /\ new'["state"] = disk["state"]
        /\ new'["codex"] = [Root("codex") EXCEPT !.managed = FALSE]
    BY <1>11, PathFacts DEF BeginUninstall, NoWrites, IsMap
  <2>3. pc' \in {"un_codex_backup", "un_claude"}
    BY <1>11 DEF BeginUninstall
  <2>4. NewOK'
    BY <1>1, <2>1, <2>2, <2>3 DEF NewOK, Installing, FilesOK
  <2>5. pc' = "un_codex_backup" => disk["codex"] # NoFile
    BY <1>1, <1>11, RootFacts DEF BeginUninstall, Managed, Configs
  <2> QED
    BY <1>11, <2>3, <2>4, <2>5, NoWritesMap DEF BeginUninstall, TypeInv, Phases
<1>12. ASSUME NEW c \in Configs, disk[c] # NoFile, NEW here, NEW then, BackUp(c, here, then)
       PROVE  FilesOK(disk')
  <2>1. BackupOf(c) \in Backups /\ BackupOf(c) \in Paths /\ disk[c] \in Content
        /\ disk[BackupOf(c)] \subseteq Content
    BY <1>1, <1>12, PathFacts DEF BackupOf, Backups, Configs, FilesOK
  <2>2. disk' = [disk EXCEPT ![BackupOf(c)] = disk[BackupOf(c)] \cup {disk[c]}]
    BY <1>12 DEF BackUp
  <2> QED
    BY <1>1, <2>1, <2>2, PutFileOK DEF Backups, Configs
<1>13. CASE BackUpCodex
  BY <1>12, <1>13 DEF BackUpCodex, BackUp, TypeInv, NewOK, Installing, Phases, Configs
<1>14. CASE BackUpClaude
  BY <1>12, <1>14 DEF BackUpClaude, BackUp, TypeInv, NewOK, Installing, Phases, Configs
<1>15. ASSUME NEW c \in Configs, new[c] \in Content, NEW here, NEW then, Replace(c, here, then)
       PROVE  FilesOK(disk')
  BY <1>1, <1>15, PutFileOK, PathFacts DEF Replace, Configs, Backups
<1>16. CASE ReplaceCodex
  BY <1>1, <1>15, <1>16
     DEF ReplaceCodex, Replace, TypeInv, NewOK, Installing, Phases, Configs
<1>17. CASE ReadClaude
  <2> DEFINE l == RestoredLine(new["state"], Root("claude").status)
  <2>1. l \in Lines \cup {NoLine, Wrapper}
    BY <1>1, <1>2, <1>17 DEF ReadClaude, RestoredLine, NewOK, State, Content
  <2>2. /\ new' = [new EXCEPT !["claude"] =
                      [Root("claude") EXCEPT !.managed = FALSE, !.status = l]]
    BY <1>17 DEF ReadClaude
  <2> HIDE DEF l
  <2>3. [Root("claude") EXCEPT !.managed = FALSE, !.status = l] \in Content
    BY <1>2, <2>1, MergedContent
  <2>4. IsMap(new') /\ new'["claude"] \in Content
    BY <1>1, <2>2, <2>3, PathFacts DEF IsMap
  <2>5. pc' \in {"un_claude_backup", "un_secret"}
    BY <1>17 DEF ReadClaude
  <2>6. pc' = "un_claude_backup" => disk["claude"] # NoFile
    BY <1>1, <1>17, RootFacts DEF ReadClaude, Managed, StatusOf, Configs
  <2> QED
    BY <1>17, <2>4, <2>5, <2>6 DEF ReadClaude, TypeInv, NewOK, Installing, Phases
<1>18. CASE ReplaceClaude
  BY <1>1, <1>15, <1>18
     DEF ReplaceClaude, Replace, TypeInv, NewOK, Installing, Phases, Configs
<1>19. CASE UninstallFails
  BY <1>1, <1>19, NoWritesMap DEF UninstallFails, TypeInv, NewOK, Installing, Phases
<1>20. ASSUME NEW p \in {"state", "secret"}, NEW here, NEW then \in {"un_state", "uninstalled"},
              Remove(p, here, then)
       PROVE  TypeInv'
  <2>1. FilesOK(disk')
    BY <1>1, <1>20, PutFileOK, PathFacts DEF Remove, Configs, Backups
  <2> QED
    BY <1>1, <1>20, <2>1, NoWritesMap DEF Remove, TypeInv, NewOK, Installing, Phases
<1>21. CASE RemoveSecret \/ RemoveState
  BY <1>20, <1>21 DEF RemoveSecret, RemoveState
<1>22. CASE Kill
  BY <1>1, <1>22, NoWritesMap DEF Kill, TypeInv, NewOK, Installing, Phases
<1>23. CASE Edit
  <2>1. PICK c \in Configs, v \in Versions :
           \E l \in IF c = "codex" THEN {NoLine}
                    ELSE Lines \cup {NoLine, Root("claude").status} :
              /\ disk' = [disk EXCEPT ![c] = [Root(c) EXCEPT !.own = v, !.status = l]]
              /\ line' = IF c = "codex" \/ l = Wrapper THEN line ELSE l
    BY <1>23 DEF Edit
  <2>2. PICK l \in Lines \cup {NoLine, Wrapper} :
              /\ disk' = [disk EXCEPT ![c] = [Root(c) EXCEPT !.own = v, !.status = l]]
              /\ line' = IF c = "codex" \/ l = Wrapper THEN line ELSE l
    BY <1>2, <2>1 DEF Content
  <2>3. [Root(c) EXCEPT !.own = v, !.status = l] \in Content
    BY <1>2 DEF Content, Configs
  <2>4. FilesOK(disk')
    BY <1>1, <2>2, <2>3, PutFileOK, PathFacts DEF Configs, Backups
  <2>5. \A d \in Configs : disk[d] # NoFile => disk'[d] # NoFile
    BY <1>1, <2>2, <2>3, PathFacts DEF FilesOK, IsMap, Configs
  <2>6. line' \in Lines \cup {NoLine}
    BY <2>2 DEF TypeInv
  <2> QED
    BY <1>1, <1>23, <2>4, <2>5, <2>6, NoWritesMap
       DEF Edit, Idle, TypeInv, NewOK, Installing, Phases, Configs
<1>24. CASE UNCHANGED vars
  BY <1>24 DEF vars, TypeInv, NewOK
<1> QED
  BY <1>3, <1>4, <1>5, <1>6, <1>7, <1>9, <1>10, <1>11, <1>13, <1>14, <1>16, <1>17,
     <1>18, <1>19, <1>21, <1>22, <1>23, <1>24 DEF Next, InstallNext, UninstallNext

-----------------------------------------------------------------------------
(* What the steps do to the files, one file at a time.                     *)


\* The transaction writes the file it has reached and no other.
LEMMA WriteFacts ==
    ASSUME TypeInv, WriteFile
    PROVE  /\ disk'["state"] = IF next = 1 THEN new["state"] ELSE disk["state"]
           /\ disk'["secret"] = IF next = 2 THEN new["secret"] ELSE disk["secret"]
           /\ disk'["codexBackup"] =
                 IF next = 3 THEN disk["codexBackup"] \cup new["codexBackup"]
                 ELSE disk["codexBackup"]
           /\ disk'["codex"] = IF next = 4 THEN new["codex"] ELSE disk["codex"]
           /\ disk'["claudeBackup"] =
                 IF next = 5 THEN disk["claudeBackup"] \cup new["claudeBackup"]
                 ELSE disk["claudeBackup"]
           /\ disk'["claude"] = IF next = 6 THEN new["claude"] ELSE disk["claude"]
           /\ IF next = 6 THEN pc' = "installed" /\ next' = 1
              ELSE pc' = "write" /\ next' = next + 1 /\ new' = new /\ before' = before
<1>1. IsMap(disk) /\ next \in 1..6
  BY DEF TypeInv, FilesOK
<1>2. /\ disk'[Order[next]] = Written(Order[next])
      /\ \A q \in Paths \ {Order[next]} : disk'[q] = disk[q]
  BY <1>1, NextFile DEF WriteFile, IsMap
<1>3. IF next = 6 THEN pc' = "installed" /\ next' = 1
      ELSE pc' = "write" /\ next' = next + 1 /\ new' = new /\ before' = before
  BY OrderFacts DEF WriteFile
<1> QED
  BY <1>1, <1>2, <1>3, NextFile, PathFacts DEF Written, Backups

\* So does the rollback.
LEMMA RestoreFacts ==
    ASSUME TypeInv, RestoreFile
    PROVE  /\ disk'[Order[next]] = before[Order[next]]
           /\ \A q \in Paths \ {Order[next]} : disk'[q] = disk[q]
           /\ before' = before /\ rollbackFailed' = rollbackFailed /\ line' = line
           /\ IF next = 1 THEN pc' = "failed" /\ next' = 1
              ELSE pc' = "rollback" /\ next' = next - 1
<1>1. IsMap(disk) /\ next \in 1..6
  BY DEF TypeInv, FilesOK
<1> QED
  BY <1>1, NextFile DEF RestoreFile, NextRollback, RolledBack, IsMap

\* An edit changes one configuration, keeps our entries in it, and either
\* keeps the wrapper or sets the line the user wants from now on.
LEMMA EditFacts ==
    ASSUME TypeInv, Edit
    PROVE  /\ \A q \in Paths \ Configs : disk'[q] = disk[q]
           /\ \A c \in Configs : Managed(disk', c) <=> Managed(disk, c)
           /\ StatusOf(disk') = Wrapper => StatusOf(disk) = Wrapper /\ line' = line
           /\ StatusOf(disk') # Wrapper =>
                 \/ line' = StatusOf(disk')
                 \/ line' = line /\ StatusOf(disk') = StatusOf(disk)
           /\ new' = new /\ next' = next
           /\ IF Idle THEN pc' = "idle" ELSE pc' = pc /\ before' = before
           /\ ~ConcurrentEdits => Idle
<1> USE HooksAssumption, NoFileAssumption
<1>1. FilesOK(disk) /\ IsMap(disk)
  BY DEF TypeInv, FilesOK
<1>2. PICK c \in Configs, v \in Versions :
         \E l \in IF c = "codex" THEN {NoLine}
                  ELSE Lines \cup {NoLine, Root("claude").status} :
            /\ disk' = [disk EXCEPT ![c] = [Root(c) EXCEPT !.own = v, !.status = l]]
            /\ line' = IF c = "codex" \/ l = Wrapper THEN line ELSE l
  BY DEF Edit
<1>3. PICK l : /\ l \in IF c = "codex" THEN {NoLine}
                        ELSE Lines \cup {NoLine, Root("claude").status}
               /\ disk' = [disk EXCEPT ![c] = [Root(c) EXCEPT !.own = v, !.status = l]]
               /\ line' = IF c = "codex" \/ l = Wrapper THEN line ELSE l
  BY <1>2
<1> DEFINE r == [Root(c) EXCEPT !.own = v, !.status = l]
<1>4. Root(c) \in Content /\ (Root(c).managed <=> Managed(disk, c))
      /\ Root("claude").status = StatusOf(disk) /\ Root("claude") \in Content
  BY <1>1, RootFacts DEF Configs
<1>5. l \in Lines \cup {NoLine, Wrapper} /\ (l = Wrapper => StatusOf(disk) = Wrapper)
  BY <1>3, <1>4 DEF Content
<1>6. r \in Content /\ r.managed = Root(c).managed /\ r.status = l
  BY <1>4, <1>5 DEF Content
<1>7. disk' = [disk EXCEPT ![c] = r]
  BY <1>3
<1> HIDE DEF r
<1>8. c \in Paths /\ disk'[c] = r /\ \A q \in Paths \ {c} : disk'[q] = disk[q]
  BY <1>1, <1>7, PathFacts DEF IsMap, Configs
<1>9. r # NoFile
  BY <1>6
<1>10. \A q \in Paths \ Configs : disk'[q] = disk[q]
  BY <1>8
<1>11. \A d \in Configs : Managed(disk', d) <=> Managed(disk, d)
  BY <1>4, <1>6, <1>8, <1>9, PathFacts DEF Managed, Configs
<1>12. CASE c = "codex"
  <2>1. StatusOf(disk') = StatusOf(disk) /\ line' = line
    BY <1>3, <1>8, <1>12, PathFacts DEF StatusOf
  <2> QED
    BY <1>10, <1>11, <2>1 DEF Edit, Idle
<1>13. CASE c = "claude"
  <2>1. StatusOf(disk') = l
    BY <1>6, <1>8, <1>9, <1>13 DEF StatusOf
  <2> QED
    BY <1>3, <1>5, <1>10, <1>11, <1>13, <2>1 DEF Edit, Idle
<1> QED
  BY <1>12, <1>13 DEF Configs

\* Uninstall's steps.
LEMMA BackUpFacts ==
    ASSUME TypeInv, NEW c \in Configs, NEW here, NEW then, BackUp(c, here, then)
    PROVE  /\ disk'[BackupOf(c)] = disk[BackupOf(c)] \cup {disk[c]}
           /\ \A q \in Paths \ {BackupOf(c)} : disk'[q] = disk[q]
BY PathFacts DEF TypeInv, FilesOK, IsMap, BackUp, BackupOf, Configs

\* What one rename of Uninstall leaves of the files.
LEMMA ReplaceFacts ==
    ASSUME TypeInv, NEW c \in Configs, NEW here, NEW then, Replace(c, here, then)
    PROVE  /\ disk'[c] = new[c]
           /\ \A q \in Paths \ {c} : disk'[q] = disk[q]
BY PathFacts DEF TypeInv, FilesOK, IsMap, Replace, Configs

\* What one removal of Uninstall leaves of the files; it may fail.
LEMMA RemoveFacts ==
    ASSUME TypeInv, NEW p \in {"state", "secret"}, NEW here, NEW then, Remove(p, here, then)
    PROVE  /\ disk'[p] \in {disk[p], NoFile}
           /\ \A q \in Paths \ {p} : disk'[q] = disk[q]
BY PathFacts DEF TypeInv, FilesOK, IsMap, Remove

-----------------------------------------------------------------------------
(* Every step preserves the parts of the invariant.                        *)

\* The secret is there before the first hook and until after the last one.
LEMMA SecretStep ==
    ASSUME TypeInv, SecretInv, UninstallInv, [Next]_vars
    PROVE  SecretInv'
<1> USE HooksAssumption, NoFileAssumption
<1>0. /\ next \in 1..6 /\ FilesOK(disk) /\ NewOK /\ NoFile # "secret"
  BY DEF TypeInv
<1>1. ASSUME disk' = disk, rollbackFailed' = rollbackFailed,
             pc' \notin {"write", "rollback"}
      PROVE  SecretInv'
  BY <1>1 DEF SecretInv, Managed
<1>2. CASE ReadRoots \/ ReadBackups
  BY <1>1, <1>2 DEF ReadRoots, ReadBackups
<1>3. CASE TakeSnapshots
  BY <1>3 DEF TakeSnapshots, SecretInv, Managed
<1>4. CASE WriteFile
  <2>1. pc = "write" /\ new["secret"] = "secret" /\ rollbackFailed' = rollbackFailed
    BY <1>0, <1>4 DEF WriteFile, NewOK, Installing
  <2>2. next > 1 => disk'["secret"] # NoFile
    BY <1>0, <1>4, <2>1, WriteFacts DEF SecretInv
  <2>3. next <= 3 => disk'["codex"] = disk["codex"]
    BY <1>0, <1>4, WriteFacts
  <2>4. next <= 5 => disk'["claude"] = disk["claude"] /\ before' = before
                     /\ pc' = "write" /\ next' = next + 1
    BY <1>0, <1>4, WriteFacts
  <2>5. next = 6 => pc' = "installed"
    BY <1>4, WriteFacts
  <2>6. next = 1 => disk'["secret"] = disk["secret"]
    BY <1>4, WriteFacts
  <2>7. CASE next = 6
    BY <2>2, <2>5, <2>7 DEF SecretInv
  <2>8. CASE next \in 1..5
    <3>1. next <= 5 /\ pc' = "write" /\ next' = next + 1 /\ before' = before
          /\ disk'["claude"] = disk["claude"]
      BY <2>4, <2>8
    <3>2. ~rollbackFailed' /\ (\E c \in Configs : Managed(disk', c)) => disk'["secret"] # NoFile
      BY <2>1, <2>2, <2>3, <2>6, <2>8, <3>1 DEF SecretInv, Managed, Configs
    <3>3. next' < 4 \/ next' = 4 => next <= 3
      BY <2>8, <3>1
    <3>4. next' > 2 => next > 1
      BY <2>8, <3>1
    <3>5. next <= 3 => next < 4
      BY <2>8
    <3> QED
      BY <2>1, <2>2, <2>3, <3>1, <3>2, <3>3, <3>4, <3>5 DEF SecretInv, Managed, Configs
  <2> QED
    BY <1>0, <2>7, <2>8
<1>5. CASE WriteFails
  BY <1>0, <1>5 DEF WriteFails, SecretInv, Managed
<1>6. CASE RestoreFile
  <2>1. pc = "rollback" /\ before' = before /\ rollbackFailed' = rollbackFailed
    BY <1>6 DEF RestoreFile
  <2>2. /\ disk'[Order[next]] = before[Order[next]]
        /\ \A q \in Paths \ {Order[next]} : disk'[q] = disk[q]
        /\ IF next = 1 THEN pc' = "failed" /\ next' = 1
           ELSE pc' = "rollback" /\ next' = next - 1
    BY <1>6, RestoreFacts
  <2>3. /\ disk'["secret"] = IF next = 2 THEN before["secret"] ELSE disk["secret"]
        /\ disk'["codex"] = IF next = 4 THEN before["codex"] ELSE disk["codex"]
        /\ disk'["claude"] = IF next = 6 THEN before["claude"] ELSE disk["claude"]
    BY <1>0, <2>2, NextFile, PathFacts
  <2>4. pc' \in {"write", "rollback"} /\ next' > 2 => disk'["secret"] # NoFile
    BY <1>0, <2>1, <2>2, <2>3 DEF SecretInv
  <2>5. ASSUME ~rollbackFailed
        PROVE  /\ Managed(disk', "claude") <=> Managed(before, "claude")
               /\ next <= 4 => (Managed(disk', "codex") <=> Managed(before, "codex"))
               /\ (\E c \in Configs : Managed(disk', c)) => disk'["secret"] # NoFile
    <3>1. Managed(disk', "claude") <=> Managed(before, "claude")
      BY <2>1, <2>3, <2>5 DEF SecretInv, Managed
    <3>2. next <= 4 => (Managed(disk', "codex") <=> Managed(before, "codex"))
      BY <1>0, <2>1, <2>3, <2>5 DEF SecretInv, Managed
    <3>3. next > 2 => disk'["secret"] # NoFile
      BY <1>0, <2>1, <2>3 DEF SecretInv
    <3>4. next = 2 => disk'["secret"] = before["secret"] /\ next <= 4
      BY <2>3
    <3>5. next = 1 => disk'["secret"] = disk["secret"] /\ disk'["codex"] = disk["codex"]
                      /\ disk'["claude"] = disk["claude"]
      BY <2>3
    <3>6. next > 2 \/ next = 2 \/ next = 1
      BY <1>0
    <3>7. next = 2 => ((\E c \in Configs : Managed(disk', c)) => disk'["secret"] # NoFile)
      BY <2>1, <2>5, <3>1, <3>2, <3>4 DEF SecretInv, Configs
    <3>8. next = 1 => ((\E c \in Configs : Managed(disk', c)) => disk'["secret"] # NoFile)
      BY <2>5, <3>5 DEF SecretInv, Configs, Managed
    <3> QED
      BY <3>1, <3>2, <3>3, <3>6, <3>7, <3>8
  <2>6. pc' = "rollback" /\ (next' < 4 \/ (next' = 4 /\ pc' = "write")) => next <= 4
    BY <1>0, <2>2
  <2>7. pc' # "write"
    BY <2>2
  <2> QED
    BY <2>1, <2>4, <2>5, <2>6, <2>7 DEF SecretInv
<1>7. CASE RestoreFails
  <2>1. rollbackFailed' /\ disk' = disk /\ pc = "rollback"
    BY <1>7 DEF RestoreFails
  <2>2. pc' \in {"write", "rollback"} /\ next' > 2 => next > 2
    BY <1>0, <1>7 DEF RestoreFails, NextRollback, RolledBack
  <2> QED
    BY <2>1, <2>2 DEF SecretInv
<1>8. CASE BeginUninstall \/ ReadClaude \/ UninstallFails
  <2>1. pc' \notin {"write", "rollback"}
    BY <1>8 DEF BeginUninstall, ReadClaude, UninstallFails
  <2> QED
    BY <1>1, <1>8, <2>1 DEF BeginUninstall, ReadClaude, UninstallFails
<1>9. ASSUME disk'["secret"] = disk["secret"], rollbackFailed' = rollbackFailed,
             \A c \in Configs : Managed(disk', c) => Managed(disk, c),
             pc' \notin {"write", "rollback"}
      PROVE  SecretInv'
  BY <1>9 DEF SecretInv
<1>10. CASE BackUpCodex \/ BackUpClaude
  <2>1. ASSUME NEW c \in Configs, NEW here, NEW then \in {"un_codex", "un_claude_write"},
               BackUp(c, here, then)
        PROVE  SecretInv'
    <3>1. \A q \in Paths \ Backups : disk'[q] = disk[q]
      BY <2>1, BackUpFacts DEF BackupOf, Backups
    <3>2. /\ disk'["secret"] = disk["secret"] /\ disk'["codex"] = disk["codex"]
          /\ disk'["claude"] = disk["claude"]
      BY <3>1, PathFacts DEF Backups
    <3> QED
      BY <1>9, <2>1, <3>2 DEF BackUp, Managed, Configs
  <2> QED
    BY <1>10, <2>1 DEF BackUpCodex, BackUpClaude, Configs
<1>11. CASE ReplaceCodex
  <2>1. /\ disk'["secret"] = disk["secret"] /\ disk'["claude"] = disk["claude"]
        /\ disk'["codex"] = new["codex"] /\ ~new["codex"].managed
    BY <1>11, ReplaceFacts, PathFacts DEF ReplaceCodex, Replace, Configs, UninstallInv
  <2> QED
    BY <1>9, <1>11, <2>1 DEF ReplaceCodex, Replace, Managed, Configs
<1>12. CASE ReplaceClaude
  <2>1. /\ disk'["secret"] = disk["secret"] /\ disk'["codex"] = disk["codex"]
        /\ disk'["claude"] = new["claude"] /\ ~new["claude"].managed
    BY <1>12, ReplaceFacts, PathFacts DEF ReplaceClaude, Replace, Configs, UninstallInv
  <2> QED
    BY <1>9, <1>12, <2>1 DEF ReplaceClaude, Replace, Managed, Configs
<1>13. CASE RemoveSecret
  <2>1. ~Managed(disk, "codex") /\ ~Managed(disk, "claude")
    BY <1>13 DEF RemoveSecret, Remove, UninstallInv
  <2>2. disk'["codex"] = disk["codex"] /\ disk'["claude"] = disk["claude"]
    BY <1>13, RemoveFacts, PathFacts DEF RemoveSecret
  <2>3. \A c \in Configs : ~Managed(disk', c)
    BY <2>1, <2>2 DEF Managed, Configs
  <2> QED
    BY <1>13, <2>3 DEF RemoveSecret, Remove, SecretInv
<1>14. CASE RemoveState
  <2>1. disk'["codex"] = disk["codex"] /\ disk'["claude"] = disk["claude"]
        /\ disk'["secret"] = disk["secret"]
    BY <1>14, RemoveFacts, PathFacts DEF RemoveState
  <2> QED
    BY <1>9, <1>14, <2>1 DEF RemoveState, Remove, Managed, Configs
<1>15. CASE Kill
  BY <1>1, <1>15 DEF Kill
<1>16. CASE Edit
  <2>1. disk'["secret"] = disk["secret"] /\ rollbackFailed' = rollbackFailed
    BY <1>16, EditFacts, PathFacts DEF Edit, Configs
  <2>2. /\ \A c \in Configs : Managed(disk', c) <=> Managed(disk, c)
        /\ IF Idle THEN pc' = "idle" ELSE pc' = pc /\ before' = before
        /\ next' = next
    BY <1>16, EditFacts
  <2>3. CASE Idle
    BY <1>9, <2>1, <2>2, <2>3
  <2>4. CASE ~Idle
    BY <2>1, <2>2, <2>4 DEF SecretInv, Configs
  <2> QED
    BY <2>3, <2>4
<1>17. CASE UNCHANGED vars
  BY <1>17 DEF vars, SecretInv, Managed
<1> QED
  BY <1>2, <1>3, <1>4, <1>5, <1>6, <1>7, <1>8, <1>10, <1>11, <1>12, <1>13, <1>14,
     <1>15, <1>16, <1>17 DEF Next, InstallNext, UninstallNext

\* What Uninstall has taken out stays out until it is done.
LEMMA UninstallStep ==
    ASSUME TypeInv, UninstallInv, [Next]_vars
    PROVE  UninstallInv'
<1> USE HooksAssumption, NoFileAssumption
<1> DEFINE After == {"un_claude", "un_claude_backup", "un_claude_write", "un_secret",
                     "un_state", "uninstalled"}
<1>0. FilesOK(disk) /\ IsMap(new)
  BY DEF TypeInv, NewOK
<1>1. CASE InstallNext \/ UninstallFails \/ Kill
  <2>1. pc' \notin After \cup {"un_codex_backup", "un_codex"}
    BY <1>1 DEF InstallNext, ReadRoots, ReadBackups, TakeSnapshots, WriteFile, WriteFails,
                RestoreFile, RestoreFails, NextRollback, UninstallFails, Kill
  <2> QED
    BY <2>1 DEF UninstallInv
<1>2. CASE BeginUninstall
  <2>1. Root("codex") \in Content /\ (Root("codex").managed <=> Managed(disk, "codex"))
    BY <1>0, RootFacts DEF Configs
  <2>2. new'["codex"] = [Root("codex") EXCEPT !.managed = FALSE]
    BY <1>2, PathFacts DEF BeginUninstall, NoWrites
  <2>3. ~new'["codex"].managed
    BY <2>1, <2>2, MergedContent
  <2>4. pc' = IF Managed(disk, "codex") THEN "un_codex_backup" ELSE "un_claude"
    BY <1>2, <2>1 DEF BeginUninstall
  <2> QED
    BY <1>2, <2>3, <2>4 DEF BeginUninstall, UninstallInv, Managed
<1>3. CASE BackUpCodex
  <2>1. disk'["codex"] = disk["codex"] /\ disk'["claude"] = disk["claude"]
    BY <1>3, BackUpFacts, PathFacts DEF BackUpCodex, BackupOf, Configs
  <2> QED
    BY <1>3 DEF BackUpCodex, BackUp, UninstallInv
<1>4. CASE ReplaceCodex
  <2>1. disk'["codex"] = new["codex"]
    BY <1>4, ReplaceFacts DEF ReplaceCodex, Configs
  <2> QED
    BY <1>4, <2>1 DEF ReplaceCodex, Replace, UninstallInv, Managed
<1>5. CASE ReadClaude
  <2>1. Root("claude") \in Content /\ (Root("claude").managed <=> Managed(disk, "claude"))
    BY <1>0, RootFacts DEF Configs
  <2>2. new'["claude"] = [Root("claude") EXCEPT !.managed = FALSE,
                             !.status = RestoredLine(new["state"], Root("claude").status)]
    BY <1>0, <1>5, PathFacts DEF ReadClaude, IsMap
  <2>3. ~new'["claude"].managed
    BY <2>1, <2>2 DEF Content
  <2>4. /\ pc' \in {"un_claude_backup", "un_secret"}
        /\ pc' = "un_secret" => ~Managed(disk, "claude")
    BY <1>5, <2>1 DEF ReadClaude
  <2> QED
    BY <1>5, <2>3, <2>4 DEF ReadClaude, UninstallInv, Managed
<1>6. CASE BackUpClaude
  <2>1. disk'["codex"] = disk["codex"] /\ disk'["claude"] = disk["claude"]
    BY <1>6, BackUpFacts, PathFacts DEF BackUpClaude, BackupOf, Configs
  <2> QED
    BY <1>6, <2>1 DEF BackUpClaude, BackUp, UninstallInv, Managed
<1>7. CASE ReplaceClaude
  <2>1. disk'["claude"] = new["claude"] /\ disk'["codex"] = disk["codex"]
    BY <1>7, ReplaceFacts, PathFacts DEF ReplaceClaude, Configs
  <2> QED
    BY <1>7, <2>1 DEF ReplaceClaude, Replace, UninstallInv, Managed
<1>8. CASE RemoveSecret \/ RemoveState
  <2>1. disk'["codex"] = disk["codex"] /\ disk'["claude"] = disk["claude"]
    BY <1>8, RemoveFacts, PathFacts DEF RemoveSecret, RemoveState
  <2> QED
    BY <1>8, <2>1 DEF RemoveSecret, RemoveState, Remove, UninstallInv, Managed
<1>9. CASE Edit
  BY <1>9, EditFacts DEF UninstallInv, Idle, Configs
<1>10. CASE UNCHANGED vars
  BY <1>10 DEF vars, UninstallInv, Managed
<1> QED
  BY <1>1, <1>2, <1>3, <1>4, <1>5, <1>6, <1>7, <1>8, <1>9, <1>10 DEF Next, UninstallNext

\* Claude shows the user's line or the wrapper with the line kept beside it,
\* and what is being written agrees with it.
LEMMA LineStep ==
    ASSUME TypeInv, LineInv, ~ConcurrentEdits, [Next]_vars
    PROVE  LineInv'
<1> USE HooksAssumption, NoFileAssumption
<1>0. FilesOK(disk) /\ IsMap(new) /\ next \in 1..6 /\ NewOK
  BY DEF TypeInv, NewOK
<1>1. Root("claude") \in Content /\ Root("claude").status = StatusOf(disk)
  BY <1>0, RootFacts DEF Configs
<1>2. PreviousLine = line
  BY <1>1 DEF LineInv, PreviousLine, Restorable
<1>3. CASE ReadRoots
  <2>1. new'["state"] = [prev |-> line]
    BY <1>2, <1>3, PathFacts DEF ReadRoots, NoWrites
  <2>2. new'["claude"] = [Root("claude") EXCEPT !.managed = TRUE, !.status = Wrapper]
    BY <1>3, PathFacts DEF ReadRoots, NoWrites
  <2>3. new'["claude"].status = Wrapper
    BY <1>1, <2>2 DEF Content
  <2> QED
    BY <1>3, <2>1, <2>3 DEF ReadRoots, LineInv, StatusOf, Restorable, Installing
<1>4. CASE ReadBackups
  <2>1. new'["state"] = new["state"] /\ new'["claude"] = new["claude"]
    BY <1>4, PathFacts DEF ReadBackups, Backups
  <2> QED
    BY <1>4, <2>1 DEF ReadBackups, LineInv, StatusOf, Restorable, Installing
<1>5. CASE TakeSnapshots
  BY <1>5 DEF TakeSnapshots, LineInv, StatusOf, Restorable, Installing
<1>6. CASE WriteFile
  <2>1. /\ pc = "write" /\ line' = line
        /\ new["state"] \in State /\ new["state"].prev = line /\ new["state"] # NoFile
        /\ new["claude"] \in Content /\ new["claude"].status = Wrapper
    BY <1>0, <1>6 DEF WriteFile, NewOK, Installing, LineInv
  <2>2. disk'["state"] = new["state"]
    BY <1>0, <1>6, <2>1, WriteFacts DEF LineInv
  <2>3. disk'["state"] # NoFile /\ disk'["state"].prev = line
    BY <2>1, <2>2
  <2>4. CASE next = 6
    <3>1. pc' = "installed" /\ disk'["claude"] = new["claude"]
      BY <1>6, <2>4, WriteFacts
    <3> QED
      BY <2>1, <2>3, <3>1 DEF LineInv, Restorable, StatusOf, Installing
  <2>5. CASE next # 6
    <3>1. pc' = "write" /\ disk'["claude"] = disk["claude"] /\ new' = new /\ before' = before
      BY <1>6, <2>5, WriteFacts
    <3> QED
      BY <2>1, <2>2, <2>3, <3>1 DEF LineInv, Restorable, StatusOf, Installing
  <2> QED
    BY <2>4, <2>5
<1>7. CASE WriteFails
  BY <1>7 DEF WriteFails, LineInv, StatusOf, Restorable, Installing
<1>8. CASE RestoreFile
  <2>1. /\ pc = "rollback" /\ pc' \in {"rollback", "failed"} /\ before' = before
        /\ line' = line /\ Restorable(before) /\ disk["claude"] = before["claude"]
    BY <1>8, RestoreFacts DEF RestoreFile, LineInv
  <2>2. disk'["claude"] = disk["claude"] /\ disk'["state"] \in {disk["state"], before["state"]}
    BY <1>0, <1>8, <2>1, RestoreFacts, NextFile, PathFacts
  <2>3. StatusOf(disk') = StatusOf(disk) /\ StatusOf(before) = StatusOf(disk)
    BY <2>1, <2>2 DEF StatusOf
  <2> QED
    BY <2>1, <2>2, <2>3 DEF LineInv, Restorable, Installing
<1>9. CASE RestoreFails
  <2>1. pc = "rollback" /\ pc' \in {"rollback", "failed"}
    BY <1>9 DEF RestoreFails, NextRollback
  <2> QED
    BY <1>9, <2>1 DEF RestoreFails, LineInv, StatusOf, Restorable, Installing
<1>10. CASE BeginUninstall
  <2>1. new'["state"] = disk["state"] /\ pc' \in {"un_codex_backup", "un_claude"}
    BY <1>10, PathFacts DEF BeginUninstall, NoWrites
  <2> QED
    BY <1>10, <2>1 DEF BeginUninstall, LineInv, StatusOf, Restorable, Installing
<1>11. ASSUME disk'["claude"] = disk["claude"], disk'["state"] = disk["state"], line' = line
       PROVE  StatusOf(disk') = StatusOf(disk) /\ (Restorable(disk) => Restorable(disk)')
  BY <1>11 DEF StatusOf, Restorable
<1>12. CASE BackUpCodex
  <2>1. disk'["claude"] = disk["claude"] /\ disk'["state"] = disk["state"]
    BY <1>12, BackUpFacts, PathFacts DEF BackUpCodex, BackupOf, Configs
  <2> QED
    BY <1>11, <1>12, <2>1 DEF BackUpCodex, BackUp, LineInv, Installing
<1>13. CASE ReplaceCodex
  <2>1. disk'["claude"] = disk["claude"] /\ disk'["state"] = disk["state"]
    BY <1>13, ReplaceFacts, PathFacts DEF ReplaceCodex, Configs
  <2> QED
    BY <1>11, <1>13, <2>1 DEF ReplaceCodex, Replace, LineInv, Installing
<1>14. CASE ReadClaude
  <2>1. new["state"] = disk["state"]
    BY <1>14 DEF ReadClaude, LineInv
  <2>2. RestoredLine(new["state"], Root("claude").status) = line
    BY <1>1, <2>1 DEF RestoredLine, LineInv, Restorable
  <2>3. new'["claude"].status = line
    BY <1>0, <1>1, <1>14, <2>2, PathFacts DEF ReadClaude, IsMap, Content
  <2>4. /\ pc' \in {"un_claude_backup", "un_secret"}
        /\ pc' = "un_secret" => StatusOf(disk) # Wrapper
    BY <1>1, <1>14 DEF ReadClaude
  <2> QED
    BY <1>14, <2>3, <2>4 DEF ReadClaude, LineInv, StatusOf, Restorable, Installing
<1>15. CASE BackUpClaude
  <2>1. disk'["claude"] = disk["claude"] /\ disk'["state"] = disk["state"]
    BY <1>15, BackUpFacts, PathFacts DEF BackUpClaude, BackupOf, Configs
  <2> QED
    BY <1>11, <1>15, <2>1 DEF BackUpClaude, BackUp, LineInv, Installing
<1>16. CASE ReplaceClaude
  <2>1. disk'["claude"] = new["claude"] /\ new["claude"].status = line /\ new["claude"] \in Content
    BY <1>0, <1>16, ReplaceFacts DEF ReplaceClaude, Replace, Configs, LineInv, NewOK
  <2>2. StatusOf(disk') = line /\ line # Wrapper
    BY <2>1 DEF StatusOf, TypeInv
  <2> QED
    BY <1>16, <2>2 DEF ReplaceClaude, Replace, LineInv, Installing, Restorable
<1>17. CASE UninstallFails
  BY <1>17 DEF UninstallFails, LineInv, StatusOf, Restorable, Installing
<1>18. CASE RemoveSecret
  <2>1. disk'["claude"] = disk["claude"] /\ disk'["state"] = disk["state"]
    BY <1>18, RemoveFacts, PathFacts DEF RemoveSecret
  <2> QED
    BY <1>11, <1>18, <2>1 DEF RemoveSecret, Remove, LineInv, Installing
<1>19. CASE RemoveState
  <2>1. disk'["claude"] = disk["claude"]
    BY <1>19, RemoveFacts, PathFacts DEF RemoveState
  <2>2. StatusOf(disk') = StatusOf(disk)
    BY <2>1 DEF StatusOf
  <2> QED
    BY <1>19, <2>2 DEF RemoveState, Remove, LineInv, Installing, Restorable
<1>20. CASE Kill
  BY <1>20 DEF Kill, LineInv, StatusOf, Restorable, Installing
<1>21. CASE Edit
  <2>1. disk'["state"] = disk["state"] /\ pc' = "idle"
    BY <1>21, EditFacts, PathFacts DEF Configs
  <2>2. /\ StatusOf(disk') = Wrapper => StatusOf(disk) = Wrapper /\ line' = line
        /\ StatusOf(disk') # Wrapper =>
              \/ line' = StatusOf(disk')
              \/ line' = line /\ StatusOf(disk') = StatusOf(disk)
    BY <1>21, EditFacts
  <2> QED
    BY <2>1, <2>2 DEF LineInv, Restorable, Installing
<1>22. CASE UNCHANGED vars
  BY <1>22 DEF vars, LineInv, StatusOf, Restorable
<1> QED
  BY <1>3, <1>4, <1>5, <1>6, <1>7, <1>8, <1>9, <1>10, <1>12, <1>13, <1>14, <1>15,
     <1>16, <1>17, <1>18, <1>19, <1>20, <1>21, <1>22 DEF Next, InstallNext, UninstallNext

\* What is not written yet, or already rolled back, is as it was found.
LEMMA UndoStep ==
    ASSUME TypeInv, UndoInv, ~ConcurrentEdits, [Next]_vars
    PROVE  UndoInv'
<1>0. IsMap(disk) /\ IsMap(before) /\ next \in 1..6
  BY DEF TypeInv, FilesOK
<1>1. ASSUME pc' \notin {"write", "rollback", "failed"}
      PROVE  UndoInv'
  BY <1>1 DEF UndoInv, FailedInstallUndone
<1>2. \A i \in 1..6 : Order[i] \in Paths
  BY OrderFacts, PathFacts
<1>3. \A i \in 1..6 : i # next => Order[i] # Order[next]
  <2> SUFFICES ASSUME NEW i \in 1..6, i # next PROVE Order[i] # Order[next]
    OBVIOUS
  <2>1. i = 1 \/ i = 2 \/ i = 3 \/ i = 4 \/ i = 5 \/ i = 6
    OBVIOUS
  <2> QED
    BY <1>0, <2>1, NextFile, OrderFacts
<1>4. CASE TakeSnapshots
  BY <1>4 DEF TakeSnapshots, UndoInv, FailedInstallUndone
<1>5. CASE WriteFile
  <2>1. \A q \in Paths \ {Order[next]} : disk'[q] = disk[q]
    BY <1>0, <1>5, NextFile DEF WriteFile, IsMap
  <2>2. CASE next = 6
    BY <1>1, <1>5, <2>2, WriteFacts
  <2>3. CASE next # 6
    <3>1. pc = "write" /\ pc' = "write" /\ next' = next + 1 /\ before' = before
      BY <1>5, <2>3, WriteFacts DEF WriteFile
    <3>2. ASSUME NEW i \in 1..6, i >= next'
          PROVE  disk'[Order[i]] = before[Order[i]]
      <4>1. i # next /\ i >= next
        BY <1>0, <3>1, <3>2
      <4>2. disk'[Order[i]] = disk[Order[i]]
        BY <1>2, <1>3, <2>1, <4>1
      <4> QED
        BY <3>1, <4>1, <4>2 DEF UndoInv
    <3> QED
      BY <3>1, <3>2 DEF UndoInv, FailedInstallUndone
  <2> QED
    BY <2>2, <2>3
<1>6. CASE WriteFails
  <2>1. \A i \in 1..6 : i > next => i >= next
    BY <1>0
  <2> QED
    BY <1>6, <2>1 DEF WriteFails, UndoInv, FailedInstallUndone
<1>7. CASE RestoreFile
  <2>1. /\ pc = "rollback" /\ before' = before /\ rollbackFailed' = rollbackFailed
        /\ disk'[Order[next]] = before[Order[next]]
        /\ \A q \in Paths \ {Order[next]} : disk'[q] = disk[q]
        /\ IF next = 1 THEN pc' = "failed" /\ next' = 1
           ELSE pc' = "rollback" /\ next' = next - 1
    BY <1>7, RestoreFacts DEF RestoreFile
  <2>2. ASSUME ~rollbackFailed, NEW i \in 1..6, i >= next
        PROVE  disk'[Order[i]] = before[Order[i]]
    <3>1. CASE i = next
      BY <2>1, <3>1
    <3>2. CASE i # next
      <4>1. i > next
        BY <1>0, <2>2, <3>2
      <4>2. disk'[Order[i]] = disk[Order[i]]
        BY <1>2, <1>3, <2>1, <3>2
      <4> QED
        BY <2>1, <2>2, <4>1, <4>2 DEF UndoInv
    <3> QED
      BY <3>1, <3>2
  <2>3. CASE next = 1
    <3>1. ASSUME ~rollbackFailed PROVE disk' = before
      <4>1. \A i \in 1..6 : disk'[Order[i]] = before[Order[i]]
        BY <2>2, <2>3, <3>1
      <4>2. \A p \in Paths : disk'[p] = before[p]
        BY <4>1, OrderFacts, PathFacts
      <4>3. IsMap(disk')
        BY <1>0, <1>7, NextFile, PutFile DEF RestoreFile
      <4> QED
        BY <1>0, <4>2, <4>3 DEF IsMap
    <3> QED
      BY <2>1, <2>3, <3>1 DEF UndoInv, FailedInstallUndone
  <2>4. CASE next # 1
    <3>1. pc' = "rollback" /\ next' = next - 1
      BY <2>1, <2>4
    <3>2. \A i \in 1..6 : i > next' => i >= next
      BY <1>0, <3>1
    <3> QED
      BY <2>1, <2>2, <3>1, <3>2 DEF UndoInv, FailedInstallUndone
  <2> QED
    BY <2>3, <2>4
<1>8. CASE RestoreFails
  <2>1. rollbackFailed' /\ pc' \in {"rollback", "failed"}
    BY <1>8 DEF RestoreFails, NextRollback
  <2> QED
    BY <2>1 DEF UndoInv, FailedInstallUndone
<1>9. CASE ReadRoots \/ ReadBackups \/ UninstallNext \/ Kill
  BY <1>1, <1>9 DEF ReadRoots, ReadBackups, UninstallNext, BeginUninstall, BackUpCodex,
     ReplaceCodex, ReadClaude, BackUpClaude, ReplaceClaude, UninstallFails, RemoveSecret,
     RemoveState, BackUp, Replace, Remove, Kill
<1>10. CASE Edit
  BY <1>1, <1>10, EditFacts
<1>11. CASE UNCHANGED vars
  BY <1>11 DEF vars, UndoInv, FailedInstallUndone
<1> QED
  BY <1>4, <1>5, <1>6, <1>7, <1>8, <1>9, <1>10, <1>11 DEF Next, InstallNext

\* A configuration is copied before it is replaced.
LEMMA BackupStep ==
    ASSUME TypeInv, BackupInv, ~ConcurrentEdits, [Next]_vars
    PROVE  BackupInv'
<1>0. IsMap(disk) /\ next \in 1..6 /\ FilesOK(disk)
  BY DEF TypeInv, FilesOK
<1>1. ASSUME pc' \notin {"snapshot", "write", "un_codex", "un_claude_write"}
      PROVE  BackupInv'
  BY <1>1 DEF BackupInv
<1>2. CASE ReadBackups
  <2>1. new'["codexBackup"] =
           {disk[c] : c \in {d \in Configs : BackupOf(d) = "codexBackup" /\ disk[d] # NoFile}}
    BY <1>2, PathFacts DEF ReadBackups, Backups
  <2>2. new'["claudeBackup"] =
           {disk[c] : c \in {d \in Configs : BackupOf(d) = "claudeBackup" /\ disk[d] # NoFile}}
    BY <1>2, PathFacts DEF ReadBackups, Backups
  <2>3. disk["codex"] # NoFile => disk["codex"] \in new'["codexBackup"]
    BY <2>1 DEF Configs, BackupOf
  <2>4. disk["claude"] # NoFile => disk["claude"] \in new'["claudeBackup"]
    BY <2>2 DEF Configs, BackupOf
  <2> QED
    BY <1>2, <2>3, <2>4 DEF ReadBackups, BackupInv
<1>3. CASE TakeSnapshots
  BY <1>3 DEF TakeSnapshots, BackupInv
<1>4. CASE WriteFile
  <2>1. CASE next = 6
    BY <1>1, <1>4, <2>1, WriteFacts
  <2>2. CASE next # 6
    <3>1. /\ pc = "write" /\ pc' = "write" /\ next' = next + 1 /\ new' = new
          /\ disk'["claude"] = disk["claude"]
          /\ next < 4 => disk'["codex"] = disk["codex"]
          /\ next # 3 => disk'["codexBackup"] = disk["codexBackup"]
          /\ next = 3 => disk'["codexBackup"] = disk["codexBackup"] \cup new["codexBackup"]
          /\ next # 5 => disk'["claudeBackup"] = disk["claudeBackup"]
          /\ next = 5 => disk'["claudeBackup"] = disk["claudeBackup"] \cup new["claudeBackup"]
      BY <1>0, <1>4, <2>2, WriteFacts DEF WriteFile
    <3>2. next' <= 4 => next < 4 /\ next <= 4
      BY <1>0, <3>1
    <3>3. next' > 3 => next = 3 \/ next > 3
      BY <1>0, <3>1
    <3>4. next' > 5 => next = 5 \/ next > 5
      BY <1>0, <3>1
    <3>5. new["codexBackup"] \subseteq disk'["codexBackup"] \/ ~(next' > 3)
      BY <3>1, <3>3 DEF BackupInv
    <3>6. new["claudeBackup"] \subseteq disk'["claudeBackup"] \/ ~(next' > 5)
      BY <3>1, <3>4 DEF BackupInv
    <3> QED
      BY <3>1, <3>2, <3>5, <3>6 DEF BackupInv
  <2> QED
    BY <2>1, <2>2
<1>5. CASE BackUpCodex
  <2>1. disk'["codexBackup"] = disk["codexBackup"] \cup {disk["codex"]}
        /\ disk'["codex"] = disk["codex"]
    BY <1>5, BackUpFacts, PathFacts DEF BackUpCodex, BackupOf, Configs
  <2> QED
    BY <1>5, <2>1 DEF BackUpCodex, BackUp, BackupInv
<1>6. CASE BackUpClaude
  <2>1. disk'["claudeBackup"] = disk["claudeBackup"] \cup {disk["claude"]}
        /\ disk'["claude"] = disk["claude"]
    BY <1>6, BackUpFacts, PathFacts DEF BackUpClaude, BackupOf, Configs
  <2> QED
    BY <1>6, <2>1 DEF BackUpClaude, BackUp, BackupInv
<1>7. CASE \/ ReadRoots \/ WriteFails \/ RestoreFile \/ RestoreFails \/ Kill
           \/ BeginUninstall \/ ReplaceCodex \/ ReadClaude \/ ReplaceClaude
           \/ UninstallFails \/ RemoveSecret \/ RemoveState
  BY <1>1, <1>7 DEF ReadRoots, WriteFails, RestoreFile, RestoreFails, NextRollback, Kill,
     BeginUninstall, ReplaceCodex, ReadClaude, ReplaceClaude, UninstallFails, RemoveSecret,
     RemoveState, Replace, Remove
<1>8. CASE Edit
  BY <1>1, <1>8, EditFacts
<1>9. CASE UNCHANGED vars
  BY <1>9 DEF vars, BackupInv
<1> QED
  BY <1>2, <1>3, <1>4, <1>5, <1>6, <1>7, <1>8, <1>9 DEF Next, InstallNext, UninstallNext

-----------------------------------------------------------------------------
\* The initial states: configurations of the user, nothing of ours.
LEMMA InitIInv == Init => IInv
<1> USE HooksAssumption, NoFileAssumption
<1> SUFFICES ASSUME Init PROVE IInv
  OBVIOUS
<1>1. PICK own \in [Configs -> {NoFile} \cup {[EmptyConfig EXCEPT !.own = v] : v \in Versions}],
           l \in Lines \cup {NoLine} :
          /\ own["claude"] = NoFile => l = NoLine
          /\ line = l
          /\ disk = [p \in Paths |->
                       CASE p \in Backups -> {}
                         [] p = "codex" -> own["codex"]
                         [] p = "claude" -> IF own["claude"] = NoFile THEN NoFile
                                            ELSE [own["claude"] EXCEPT !.status = l]
                         [] OTHER -> NoFile]
  BY DEF Init
<1>2. \A v \in Versions : /\ [EmptyConfig EXCEPT !.own = v] \in Content
                          /\ ~[EmptyConfig EXCEPT !.own = v].managed
  BY DEF EmptyConfig, Content
<1>3. \A c \in Configs : own[c] # NoFile => own[c] \in Content /\ ~own[c].managed
  <2> SUFFICES ASSUME NEW c \in Configs, own[c] # NoFile
               PROVE  own[c] \in Content /\ ~own[c].managed
    OBVIOUS
  <2>1. PICK v \in Versions : own[c] = [EmptyConfig EXCEPT !.own = v]
    <3>1. own[c] \in {NoFile} \cup {[EmptyConfig EXCEPT !.own = v] : v \in Versions}
      BY <1>1
    <3> QED
      BY <3>1
  <2> QED
    BY <1>2, <2>1
<1>4. own["claude"] # NoFile =>
         LET r == [own["claude"] EXCEPT !.status = l]
         IN  r \in Content /\ ~r.managed /\ r.status = l
  BY <1>1, <1>3 DEF Content, Configs
<1>5. /\ IsMap(disk)
      /\ disk["state"] = NoFile /\ disk["secret"] = NoFile
      /\ disk["codex"] = own["codex"]
      /\ disk["claude"] = IF own["claude"] = NoFile THEN NoFile
                          ELSE [own["claude"] EXCEPT !.status = l]
      /\ disk["codexBackup"] = {} /\ disk["claudeBackup"] = {}
  BY <1>1, PathFacts DEF IsMap, Backups
<1>6. FilesOK(disk)
  BY <1>3, <1>4, <1>5 DEF FilesOK, Configs
<1>7. ~Managed(disk, "codex") /\ ~Managed(disk, "claude")
  BY <1>3, <1>4, <1>5 DEF Managed, Configs
<1>8. StatusOf(disk) = line /\ line \in Lines \cup {NoLine}
  BY <1>1, <1>4, <1>5 DEF StatusOf
<1>9. TypeInv
  <2>1. /\ pc = "idle" /\ next = 1 /\ new = NoWrites /\ before = NoWrites
        /\ edits = 0 /\ failures = 0 /\ rollbackFailed = FALSE
    BY DEF Init
  <2>2. NewOK
    BY <2>1, NoWritesMap DEF NewOK, Installing
  <2>3. next \in 1..6 /\ edits \in Nat /\ failures \in Nat
    <3> HIDE HooksAssumption, NoFileAssumption
    <3> QED
      BY <2>1, SMT
  <2>4. rollbackFailed \in BOOLEAN
    BY <2>1, Zenon
  <2> QED
    BY <1>6, <1>8, <2>1, <2>2, <2>3, <2>4, NoWritesMap DEF TypeInv, Phases
<1>10. SecretInv /\ UninstallInv
  BY <1>7 DEF Init, SecretInv, UninstallInv, Configs
<1>11. LineInv /\ UndoInv /\ BackupInv
  BY <1>8 DEF Init, LineInv, UndoInv, BackupInv, Restorable, FailedInstallUndone, Installing
<1> QED
  BY <1>9, <1>10, <1>11 DEF IInv

\* The invariant is inductive.
LEMMA NextIInv == IInv /\ [Next]_vars => IInv'
<1> SUFFICES ASSUME IInv, [Next]_vars PROVE IInv'
  OBVIOUS
<1>1. TypeInv' /\ SecretInv' /\ UninstallInv'
  BY TypeNext, SecretStep, UninstallStep DEF IInv
<1>2. ~ConcurrentEdits => LineInv' /\ UndoInv' /\ BackupInv'
  BY LineStep, UndoStep, BackupStep DEF IInv
<1> QED
  BY <1>1, <1>2 DEF IInv

-----------------------------------------------------------------------------
(* The theorems.                                                           *)

\* The conjunction of facts about the secret, the status line, the
\* transaction and the backups that every step of Install and Uninstall, every
\* kill between two of their writes and every edit preserves.
THEOREM HooksInvariant == Spec => []IInv
BY InitIInv, NextIInv, PTL DEF Spec

\* Every file only ever holds what its writers can put there.
THEOREM HooksTypeCorrect == Spec => []TypeOK
<1>1. TypeInv => TypeOK
  BY OrderFacts DEF TypeInv, FilesOK, TypeOK, Configs, BackupOf
<1>2. IInv => TypeOK
  BY <1>1 DEF IInv
<1> QED
  BY <1>2, HooksInvariant, PTL

\* No CLI runs a hook command whose secret is missing: whatever the order of
\* kills, failed writes, rollbacks and edits, and whether or not files are
\* edited while a command runs.
THEOREM HooksSecretPresent == Spec => []HooksHaveSecret
<1>1. IInv => HooksHaveSecret
  <2> SUFFICES ASSUME IInv PROVE HooksHaveSecret
    OBVIOUS
  <2>1. FilesOK(disk)
    BY DEF IInv, TypeInv
  <2>2. \A c \in Configs : Root(c).managed <=> Managed(disk, c)
    BY <2>1, RootFacts
  <2> QED
    BY <2>2 DEF IInv, SecretInv, HooksHaveSecret
<1> QED
  BY <1>1, HooksInvariant, PTL

\* While Claude shows the wrapper, the user's own line is in the state file,
\* when files are edited between commands only.
THEOREM HooksWrapperRestorable == Spec => [](~ConcurrentEdits => WrapperRestorable)
<1>1. IInv => (~ConcurrentEdits => WrapperRestorable)
  <2> SUFFICES ASSUME IInv, ~ConcurrentEdits PROVE WrapperRestorable
    OBVIOUS
  <2>1. Root("claude").status = StatusOf(disk)
    BY RootFacts DEF IInv, TypeInv, Configs
  <2> QED
    BY <2>1 DEF IInv, LineInv, Restorable, WrapperRestorable
<1> QED
  BY <1>1, HooksInvariant, PTL

\* applyFileTransaction: an install that fails, and whose rollback does not,
\* leaves every file as it found it.
THEOREM HooksFailedInstallUndone == Spec => [](~ConcurrentEdits => FailedInstallUndone)
<1>1. IInv => (~ConcurrentEdits => FailedInstallUndone)
  BY DEF IInv, UndoInv
<1> QED
  BY <1>1, HooksInvariant, PTL

\* An uninstall that succeeds leaves nothing of ours in either configuration
\* and gives Claude the user's own status line back.
THEOREM HooksUninstallRestores == Spec => [](~ConcurrentEdits => UninstallRestores)
<1>1. IInv => (~ConcurrentEdits => UninstallRestores)
  <2> SUFFICES ASSUME IInv, ~ConcurrentEdits, pc = "uninstalled"
               PROVE  /\ \A c \in Configs : ~Root(c).managed
                      /\ Root("claude").status = line
    BY DEF UninstallRestores
  <2>1. FilesOK(disk)
    BY DEF IInv, TypeInv
  <2>2. /\ \A c \in Configs : Root(c).managed <=> Managed(disk, c)
        /\ Root("claude").status = StatusOf(disk)
    BY <2>1, RootFacts DEF Configs
  <2>3. ~Managed(disk, "codex") /\ ~Managed(disk, "claude")
    BY DEF IInv, UninstallInv
  <2>4. StatusOf(disk) = line
    BY DEF IInv, LineInv
  <2> QED
    BY <2>2, <2>3, <2>4 DEF Configs
<1> QED
  BY <1>1, HooksInvariant, PTL

\* Even with edits meanwhile our entries are gone after an uninstall.
THEOREM HooksUninstallRemovesEntries ==
    Spec => [](pc = "uninstalled" => \A c \in Configs : ~Root(c).managed)
<1>1. IInv => (pc = "uninstalled" => \A c \in Configs : ~Root(c).managed)
  BY RootFacts DEF IInv, TypeInv, UninstallInv, Configs
<1> QED
  BY <1>1, HooksInvariant, PTL

\* "Every changed existing file is backed up before replacement".
THEOREM HooksReplacedIsBackedUp == ~ConcurrentEdits /\ Spec => ReplacedIsBackedUp
<1> DEFINE Kept ==
       \A c \in Configs :
          pc \in {"write", "un_codex", "un_claude_write"} /\ edits' = edits
              /\ disk'[c] # disk[c] /\ disk[c] # NoFile =>
                disk[c] \in disk[BackupOf(c)]
<1> SUFFICES ASSUME ~ConcurrentEdits PROVE Spec => ReplacedIsBackedUp
  OBVIOUS
<1>1. IInv /\ [Next]_vars => [Kept]_vars
  <2> SUFFICES ASSUME IInv, Next, NEW c \in Configs,
                      pc \in {"write", "un_codex", "un_claude_write"}, edits' = edits,
                      disk'[c] # disk[c], disk[c] # NoFile
               PROVE  disk[c] \in disk[BackupOf(c)]
    BY DEF vars
  <2>1. TypeInv /\ BackupInv /\ next \in 1..6 /\ edits \in Nat
    BY DEF IInv, TypeInv
  <2>2. CASE WriteFile
    <3>1. pc = "write"
      BY <2>2 DEF WriteFile
    <3>2. CASE c = "codex"
      <4>1. next = 4
        BY <2>1, <2>2, <3>2, WriteFacts
      <4> QED
        BY <2>1, <3>1, <3>2, <4>1 DEF BackupInv, BackupOf
    <3>3. CASE c = "claude"
      <4>1. next = 6
        BY <2>1, <2>2, <3>3, WriteFacts
      <4> QED
        BY <2>1, <3>1, <3>3, <4>1 DEF BackupInv, BackupOf
    <3> QED
      BY <3>2, <3>3 DEF Configs
  <2>3. CASE ReplaceCodex
    <3>1. c = "codex"
      BY <2>1, <2>3, ReplaceFacts, PathFacts DEF ReplaceCodex, Configs
    <3> QED
      BY <2>1, <2>3, <3>1 DEF ReplaceCodex, Replace, BackupInv, BackupOf
  <2>4. CASE ReplaceClaude
    <3>1. c = "claude"
      BY <2>1, <2>4, ReplaceFacts, PathFacts DEF ReplaceClaude, Configs
    <3> QED
      BY <2>1, <2>4, <3>1 DEF ReplaceClaude, Replace, BackupInv, BackupOf
  <2>5. CASE Edit
    BY <2>1, <2>5 DEF Edit
  <2>6. CASE \/ ReadRoots \/ ReadBackups \/ TakeSnapshots \/ WriteFails \/ RestoreFile
             \/ RestoreFails \/ BeginUninstall \/ BackUpCodex \/ ReadClaude \/ BackUpClaude
             \/ UninstallFails \/ RemoveSecret \/ RemoveState \/ Kill
    BY <2>6 DEF ReadRoots, ReadBackups, TakeSnapshots, WriteFails, RestoreFile, RestoreFails,
       BeginUninstall, BackUpCodex, ReadClaude, BackUpClaude, BackUp, UninstallFails,
       RemoveSecret, RemoveState, Remove, Kill, Idle
  <2> QED
    BY <2>2, <2>3, <2>4, <2>5, <2>6 DEF Next, InstallNext, UninstallNext
<1> QED
  BY <1>1, HooksInvariant, PTL DEF Spec, ReplacedIsBackedUp
=============================================================================
