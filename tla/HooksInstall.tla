---------------------------- MODULE HooksInstall ----------------------------
(***************************************************************************)
(* "quota-monitor hooks install" and "hooks uninstall"                     *)
(* (internal/hooks/install.go): managed entries are merged into the        *)
(* configurations of two CLIs that belong to the user, and Claude's status *)
(* line is wrapped and later restored.                                     *)
(*                                                                         *)
(* Installing writes six files one after the other and rolls back when a   *)
(* write fails; uninstalling works file by file without rollback.  Either  *)
(* may be killed between two writes, and be run again.  A write replaces a *)
(* file by a rename, so it happens or does not happen.                     *)
(***************************************************************************)
EXTENDS Integers, Sequences

CONSTANTS
    NoFile,            \* contents of a file that does not exist
    Lines,             \* status lines of the user
    NoLine,            \* no status line
    Wrapper,           \* the managed status line
    Versions,          \* versions of the user's own part of a configuration
    ConcurrentEdits,   \* do the CLIs and the user edit files meanwhile
    MaxEdits,          \* bound on the number of edits
    MaxFailures        \* bound on the number of writes that fail

ASSUME HooksAssumption ==
    /\ NoLine \notin Lines /\ Wrapper \notin Lines /\ NoLine # Wrapper
    /\ ConcurrentEdits \in BOOLEAN
    /\ MaxEdits \in Nat /\ MaxFailures \in Nat

VARIABLES
    disk,             \* contents of every file; all contents of a backup name
    pc,               \* what the command is about to do
    next,             \* index of the next file to write or to roll back
    new,              \* what the command is going to write
    before,           \* the snapshots of applyFileTransaction
    line,             \* the status line the user wants (history)
    edits,            \* number of edits so far
    failures,         \* number of failed writes so far
    rollbackFailed    \* a write of some rollback failed (history)

vars == <<disk, pc, next, new, before, line, edits, failures, rollbackFailed>>

-----------------------------------------------------------------------------
Configs == {"codex", "claude"}

BackupOf(c) == IF c = "codex" THEN "codexBackup" ELSE "claudeBackup"

Backups == {"codexBackup", "claudeBackup"}

Paths == {"state", "secret"} \cup Configs \cup Backups

\* The user's own entries, our entries, and the status line (Claude only).
Content == [own : Versions \cup {NoLine}, managed : BOOLEAN,
            status : Lines \cup {NoLine, Wrapper}]

EmptyConfig == [own |-> NoLine, managed |-> FALSE, status |-> NoLine]

State == [prev : Lines \cup {NoLine}]

ASSUME NoFileAssumption == NoFile \notin Content \cup State \cup {"secret"}

Phases == {"idle", "read_backups", "snapshot", "write", "rollback", "failed",
           "installed", "un_codex_backup", "un_codex", "un_claude",
           "un_claude_backup", "un_claude_write", "un_secret", "un_state",
           "uninstalled"}

Idle == pc \in {"idle", "failed", "installed", "uninstalled"}

\* Mutant of Order: the wrapper becomes visible before its state is saved.
OrderStateLast ==
    <<"secret", "codexBackup", "codex", "claudeBackup", "claude", "state">>

\* Mutant of Order: the secret comes last.
OrderSecretLast ==
    <<"state", "codexBackup", "codex", "claudeBackup", "claude", "secret">>

\* The mutations in the order Install lists them.
Order == <<"state", "secret", "codexBackup", "codex", "claudeBackup", "claude">>

NoWrites == [p \in Paths |-> NoFile]

Init ==
    /\ \E own \in [Configs -> {NoFile} \cup {[EmptyConfig EXCEPT !.own = v] : v \in Versions}] :
       \E l \in Lines \cup {NoLine} :
          /\ own["claude"] = NoFile => l = NoLine
          /\ line = l
          /\ disk = [p \in Paths |->
                       CASE p \in Backups -> {}
                         [] p = "codex" -> own["codex"]
                         [] p = "claude" -> IF own["claude"] = NoFile THEN NoFile
                                            ELSE [own["claude"] EXCEPT !.status = l]
                         [] OTHER -> NoFile]
    /\ pc = "idle" /\ next = 1
    /\ new = NoWrites /\ before = NoWrites
    /\ edits = 0 /\ failures = 0 /\ rollbackFailed = FALSE

Root(p) == IF disk[p] = NoFile THEN EmptyConfig ELSE disk[p]

\* The line to restore: the user's, or what an earlier install recorded.
PreviousLine ==
    IF Root("claude").status # Wrapper THEN Root("claude").status
    ELSE IF disk["state"] # NoFile THEN disk["state"].prev
    ELSE NoLine

-----------------------------------------------------------------------------
(* Install.                                                                *)

\* State and configurations are read and merged.
ReadRoots ==
    /\ Idle
    /\ new' = [NoWrites EXCEPT
                 !["state"] = [prev |-> PreviousLine],
                 !["secret"] = "secret",
                 !["codex"] = [Root("codex") EXCEPT !.managed = TRUE],
                 !["claude"] = [Root("claude") EXCEPT !.managed = TRUE, !.status = Wrapper]]
    /\ pc' = "read_backups" /\ before' = NoWrites
    /\ UNCHANGED <<disk, next, line, edits, failures, rollbackFailed>>

\* jsonFileMutations reads the files that exist once more, for the backups.
ReadBackups ==
    /\ pc = "read_backups"
    /\ new' = [p \in Paths |->
                 IF p \notin Backups THEN new[p]
                 ELSE {disk[c] : c \in {d \in Configs : BackupOf(d) = p /\ disk[d] # NoFile}}]
    /\ pc' = "snapshot"
    /\ UNCHANGED <<disk, next, before, line, edits, failures, rollbackFailed>>

\* applyFileTransaction: snapshotFile for every mutation.
TakeSnapshots ==
    /\ pc = "snapshot"
    /\ before' = disk
    /\ pc' = "write" /\ next' = 1
    /\ UNCHANGED <<disk, new, line, edits, failures, rollbackFailed>>

\* A backup has a name of its own: earlier ones stay.
Written(p) == IF p \in Backups THEN disk[p] \cup new[p] ELSE new[p]

WriteFile ==
    /\ pc = "write"
    /\ disk' = [disk EXCEPT ![Order[next]] = Written(Order[next])]
    /\ IF next = Len(Order)
       THEN pc' = "installed" /\ next' = 1 /\ new' = NoWrites /\ before' = NoWrites
       ELSE next' = next + 1 /\ UNCHANGED <<pc, new, before>>
    /\ UNCHANGED <<line, edits, failures, rollbackFailed>>

\* A configuration that does not exist has no backup mutation to fail.
Fallible(p) == p \in Backups => new[p] # {}

\* The rollback starts with the file whose write failed.
WriteFails ==
    /\ pc = "write"
    /\ Fallible(Order[next])
    /\ failures < MaxFailures
    /\ failures' = failures + 1
    /\ pc' = "rollback"
    /\ UNCHANGED <<disk, next, new, before, line, edits, rollbackFailed>>

\* Mutant of RolledBack: the loop stops before the first file.
RolledBackEarly == next <= 2

RolledBack == next = 1

NextRollback ==
    IF RolledBack THEN pc' = "failed" /\ next' = 1 /\ new' = NoWrites
    ELSE next' = next - 1 /\ UNCHANGED <<pc, new>>

RestoreFile ==
    /\ pc = "rollback"
    /\ disk' = [disk EXCEPT ![Order[next]] = before[Order[next]]]
    /\ NextRollback
    /\ UNCHANGED <<before, line, edits, failures, rollbackFailed>>

\* The error is joined to the others and the rollback goes on.
RestoreFails ==
    /\ pc = "rollback"
    /\ Fallible(Order[next])
    /\ failures < MaxFailures
    /\ failures' = failures + 1
    /\ rollbackFailed' = TRUE
    /\ NextRollback
    /\ UNCHANGED <<disk, before, line, edits>>

-----------------------------------------------------------------------------
(* Uninstall.                                                              *)

\* Mutant of RestoredLine: the wrapper is only removed.
RestoredLineNone(state, status) == IF status = Wrapper THEN NoLine ELSE status

RestoredLine(state, status) ==
    IF status # Wrapper THEN status
    ELSE IF state = NoFile THEN NoLine
    ELSE state.prev

\* The state is read, and Codex's configuration.
BeginUninstall ==
    /\ Idle
    /\ new' = [NoWrites EXCEPT !["state"] = disk["state"],
                               !["codex"] = [Root("codex") EXCEPT !.managed = FALSE]]
    /\ pc' = IF Root("codex").managed THEN "un_codex_backup" ELSE "un_claude"
    /\ before' = NoWrites
    /\ UNCHANGED <<disk, next, line, edits, failures, rollbackFailed>>

\* backupAndWriteJSON: a copy of the file as it is now, then the new file.
BackUp(c, here, then) ==
    /\ pc = here
    /\ disk' = [disk EXCEPT ![BackupOf(c)] = @ \cup {disk[c]}]
    /\ pc' = then
    /\ UNCHANGED <<next, new, before, line, edits, failures, rollbackFailed>>

\* Mutant of BackUpCodex: the copy is left out.
BackUpCodexNot ==
    /\ pc = "un_codex_backup"
    /\ pc' = "un_codex"
    /\ UNCHANGED <<disk, next, new, before, line, edits, failures, rollbackFailed>>

BackUpCodex == BackUp("codex", "un_codex_backup", "un_codex")

BackUpClaude == BackUp("claude", "un_claude_backup", "un_claude_write")

Replace(c, here, then) ==
    /\ pc = here
    /\ disk' = [disk EXCEPT ![c] = new[c]]
    /\ pc' = then
    /\ UNCHANGED <<next, new, before, line, edits, failures, rollbackFailed>>

ReplaceCodex == Replace("codex", "un_codex", "un_claude")

ReadClaude ==
    /\ pc = "un_claude"
    /\ new' = [new EXCEPT !["claude"] =
                 [Root("claude") EXCEPT !.managed = FALSE,
                                        !.status = RestoredLine(new["state"], @)]]
    /\ pc' = IF Root("claude").managed \/ Root("claude").status = Wrapper
             THEN "un_claude_backup" ELSE "un_secret"
    /\ UNCHANGED <<disk, next, before, line, edits, failures, rollbackFailed>>

ReplaceClaude == Replace("claude", "un_claude_write", "un_secret")

\* Any write of Uninstall fails: it returns the error and leaves the rest.
UninstallFails ==
    /\ pc \in {"un_codex_backup", "un_codex", "un_claude_backup", "un_claude_write"}
    /\ failures < MaxFailures
    /\ failures' = failures + 1
    /\ pc' = "idle" /\ new' = NoWrites
    /\ UNCHANGED <<disk, next, before, line, edits, rollbackFailed>>

\* os.Remove; its error is ignored.
Remove(p, here, then) ==
    /\ pc = here
    /\ pc' = then /\ new' = NoWrites
    /\ \/ disk' = [disk EXCEPT ![p] = NoFile] /\ UNCHANGED failures
       \/ failures < MaxFailures /\ failures' = failures + 1 /\ UNCHANGED disk
    /\ UNCHANGED <<next, before, line, edits, rollbackFailed>>

RemoveSecret == Remove("secret", "un_secret", "un_state")

RemoveState == Remove("state", "un_state", "uninstalled")

-----------------------------------------------------------------------------
\* The process is killed; its temporary file is not part of the model.
Kill ==
    /\ ~Idle
    /\ pc' = "idle" /\ next' = 1
    /\ new' = NoWrites /\ before' = NoWrites
    /\ UNCHANGED <<disk, line, edits, failures, rollbackFailed>>

\* The user or a CLI replaces a configuration, keeping our entries in it.
Edit ==
    /\ Idle \/ ConcurrentEdits
    /\ edits < MaxEdits
    /\ edits' = edits + 1
    /\ \E c \in Configs, v \in Versions :
          \E l \in IF c = "codex" THEN {NoLine} ELSE Lines \cup {NoLine, Root("claude").status} :
             /\ disk' = [disk EXCEPT ![c] = [Root(c) EXCEPT !.own = v, !.status = l]]
             /\ line' = IF c = "codex" \/ l = Wrapper THEN line ELSE l
    /\ pc' = IF Idle THEN "idle" ELSE pc
    /\ before' = IF Idle THEN NoWrites ELSE before
    /\ UNCHANGED <<next, new, failures, rollbackFailed>>

InstallNext ==
    \/ ReadRoots \/ ReadBackups \/ TakeSnapshots
    \/ WriteFile \/ WriteFails \/ RestoreFile \/ RestoreFails

UninstallNext ==
    \/ BeginUninstall \/ BackUpCodex \/ ReplaceCodex
    \/ ReadClaude \/ BackUpClaude \/ ReplaceClaude
    \/ UninstallFails \/ RemoveSecret \/ RemoveState

Next == InstallNext \/ UninstallNext \/ Kill \/ Edit

Spec == Init /\ [][Next]_vars

-----------------------------------------------------------------------------
\* Every file holds what its writers can put there.
TypeOK ==
    /\ disk["state"] \in State \cup {NoFile}
    /\ disk["secret"] \in {"secret", NoFile}
    /\ \A c \in Configs : disk[c] \in Content \cup {NoFile} /\ disk[BackupOf(c)] \subseteq Content
    /\ pc \in Phases /\ next \in 1..Len(Order)
    /\ line \in Lines \cup {NoLine}
    /\ edits \in Nat /\ failures \in Nat /\ rollbackFailed \in BOOLEAN

\* While Claude shows our wrapper, the state file has the user's own line to
\* run and to restore: through kills between any two writes, failed writes,
\* rollbacks and repeated installs ("Persist restoration data before making
\* the wrapper visible").
WrapperRestorable ==
    Root("claude").status = Wrapper =>
        disk["state"] # NoFile /\ disk["state"].prev = line

\* No CLI ever runs a hook command whose secret is missing, unless a rollback
\* failed too and was reported.
HooksHaveSecret ==
    ~rollbackFailed /\ (\E c \in Configs : Root(c).managed) => disk["secret"] # NoFile

\* An install that fails leaves every file as it was (applyFileTransaction).
FailedInstallUndone == pc = "failed" /\ ~rollbackFailed => disk = before

\* After a successful uninstall nothing of ours is left in either
\* configuration and Claude has the user's own status line again, however
\* many installs, kills and failures came before.
UninstallRestores ==
    pc = "uninstalled" =>
        /\ \A c \in Configs : ~Root(c).managed
        /\ Root("claude").status = line

\* "Every changed existing file is backed up before replacement" (comment on
\* Install): what a command replaces is in a backup, except that a rollback
\* replaces what the install itself wrote.
ReplacedIsBackedUp ==
    [][\A c \in Configs :
          pc \in {"write", "un_codex", "un_claude_write"} /\ edits' = edits
              /\ disk'[c] # disk[c] /\ disk[c] # NoFile =>
                disk[c] \in disk[BackupOf(c)]]_vars
=============================================================================
