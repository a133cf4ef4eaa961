----------------------------- MODULE ConfigStore -----------------------------
(***************************************************************************)
(* How the display keeps its configuration in flash (firmware/src/main.cpp, *)
(* load_config, save_config, clear_config).                                 *)
(*                                                                         *)
(* Two slots hold a configuration each and a metadata namespace says which *)
(* one is active; the namespace of firmware v0.2 is the last fallback.     *)
(* A commit marks itself as pending, rewrites the inactive slot, switches  *)
(* the active slot and takes the mark back.  Every put is atomic and       *)
(* durable by itself; power may fail between any two of them, and a put    *)
(* may fail on its own (it returns the wrong size and changes nothing).    *)
(***************************************************************************)
EXTENDS Integers

CONSTANTS
    Configs,       \* the normalised configurations (normalize_config)
    Blank,         \* the configuration of an empty namespace
    Torn,          \* the contents of a slot with some of its keys missing
    MaxFailures    \* bound on the number of puts that fail

ASSUME ConfigAssumption ==
    /\ Blank \in Configs
    /\ Torn \notin Configs
    /\ MaxFailures \in Nat

VARIABLES
    slot,        \* qmoncfg0 and qmoncfg1: the valid flag and the other keys
    active,      \* qmoncfgmeta: active
    pending,     \* qmoncfgmeta: pending
    target,      \* qmoncfgmeta: target, NoSlot if absent
    legacy,      \* the configuration in the v0.2 namespace
    pc,          \* which put the firmware is about to make
    ramSlot,     \* config_active_slot
    committed,   \* committed_config
    candidate,   \* the configuration being saved
    ok,          \* the conjunction of the results of the puts so far
    result,      \* how the last save ended
    failures     \* number of puts that failed since the device was made

nvs == <<slot, active, pending, target, legacy>>
ram == <<ramSlot, committed, candidate, ok, result>>
vars == <<nvs, pc, ram, failures>>

Slots == {0, 1}

NoSlot == 255

Other(s) == 1 - s

SlotContents == [valid : BOOLEAN, val : Configs \cup {Torn}]

EmptySlot == [valid |-> FALSE, val |-> Torn]

SavePhases == {"mark_target", "mark_pending", "invalidate", "clear", "fields",
               "validate", "commit_active", "commit_pending"}

ResetPhases == {"reset_legacy", "reset_slot0", "reset_slot1", "reset_meta"}

Phases == {"off", "recover_active", "recover_pending", "ready", "restart"}
            \cup SavePhases \cup ResetPhases

-----------------------------------------------------------------------------
(* What load_config reads.                                                 *)

RollbackPending == pending /\ target \in Slots

\* Mutant of RequestedSlot: the pending mark is ignored.
RequestedSlotActive == active

RequestedSlot == IF RollbackPending THEN Other(target) ELSE active

\* Without a pending commit the other slot is tried too.
LoadedSlot ==
    IF ~slot[RequestedSlot].valid /\ ~RollbackPending /\ slot[Other(RequestedSlot)].valid
    THEN Other(RequestedSlot)
    ELSE RequestedSlot

\* The configuration the device gets if it boots now.
BootConfig == IF slot[LoadedSlot].valid THEN slot[LoadedSlot].val ELSE legacy

Init ==
    /\ slot = [s \in Slots |-> EmptySlot]
    /\ active = 0 /\ pending = FALSE /\ target = NoSlot
    /\ legacy \in Configs
    /\ pc = "off" /\ ramSlot = 0
    /\ committed = Blank /\ candidate = Blank /\ ok = TRUE /\ result = "none"
    /\ failures = 0

\* load_config: an interrupted commit is taken back in the metadata.
Boot ==
    /\ pc = "off"
    /\ ramSlot' = LoadedSlot
    /\ committed' = BootConfig
    /\ pc' = IF pending THEN "recover_active" ELSE "ready"
    /\ UNCHANGED <<nvs, candidate, ok, result, failures>>

\* A put or clear fails: the namespace stays as it is, ok is FALSE from now on.
Fail(next) ==
    /\ failures < MaxFailures
    /\ failures' = failures + 1
    /\ ok' = FALSE
    /\ pc' = next
    /\ UNCHANGED <<nvs, ramSlot, committed, candidate, result>>

RecoverActive ==
    /\ pc = "recover_active"
    /\ active' = ramSlot
    /\ pc' = "recover_pending"
    /\ UNCHANGED <<slot, pending, target, legacy, ram, failures>>

\* The result is only logged.
RecoverActiveFails == pc = "recover_active" /\ Fail("recover_pending")

RecoverPending ==
    /\ pc = "recover_pending"
    /\ pending' = FALSE
    /\ pc' = "ready"
    /\ UNCHANGED <<slot, active, target, legacy, ram, failures>>

RecoverPendingFails == pc = "recover_pending" /\ Fail("ready")

-----------------------------------------------------------------------------
(* save_config.                                                            *)

\* A serial save or a portal candidate that passed its test.
BeginSave(c) ==
    /\ pc = "ready"
    /\ candidate' = c /\ ok' = TRUE /\ result' = "none"
    /\ pc' = "mark_target"
    /\ UNCHANGED <<nvs, ramSlot, committed, failures>>

MarkTarget ==
    /\ pc = "mark_target"
    /\ target' = Other(ramSlot)
    /\ pc' = "mark_pending"
    /\ UNCHANGED <<slot, active, pending, legacy, ram, failures>>

\* The second put is made all the same.
MarkTargetFails == pc = "mark_target" /\ Fail("mark_pending")

\* save_config returns false.
SaveFails ==
    /\ pc' = "ready" /\ result' = "failed"
    /\ UNCHANGED <<ramSlot, committed, candidate>>

MarkPending ==
    /\ pc = "mark_pending"
    /\ pending' = TRUE
    /\ IF ok THEN pc' = "invalidate" /\ UNCHANGED ram
       ELSE SaveFails /\ UNCHANGED ok
    /\ UNCHANGED <<slot, active, target, legacy, failures>>

\* A failing operation after which save_config returns at once.
Abort ==
    /\ failures < MaxFailures
    /\ failures' = failures + 1
    /\ ok' = FALSE
    /\ SaveFails
    /\ UNCHANGED nvs

MarkPendingFails == pc = "mark_pending" /\ Abort

\* write_config_slot
Invalidate ==
    /\ pc = "invalidate"
    /\ slot' = [slot EXCEPT ![Other(ramSlot)] = [valid |-> FALSE, val |-> @.val]]
    /\ pc' = "clear"
    /\ UNCHANGED <<active, pending, target, legacy, ram, failures>>

InvalidateFails == pc = "invalidate" /\ Abort

\* Afterwards the valid flag is put again, to the value an absent key has; if
\* that fails the save goes on as after WriteFieldsFails.
ClearSlot ==
    /\ pc = "clear"
    /\ slot' = [slot EXCEPT ![Other(ramSlot)] = EmptySlot]
    /\ pc' = "fields"
    /\ UNCHANGED <<active, pending, target, legacy, ram, failures>>

ClearSlotFails == pc = "clear" /\ Fail("fields")

\* The puts of the configuration's own keys; the last of them is what makes
\* the contents whole.
WriteFields ==
    /\ pc = "fields"
    /\ slot' = [slot EXCEPT ![Other(ramSlot)] = [valid |-> @.valid, val |-> candidate]]
    /\ pc' = "validate"
    /\ UNCHANGED <<active, pending, target, legacy, ram, failures>>

\* One of them fails, the ones after it are made all the same.
WriteFieldsFails ==
    /\ pc = "fields"
    /\ failures < MaxFailures
    /\ failures' = failures + 1
    /\ ok' = FALSE
    /\ slot' = [slot EXCEPT ![Other(ramSlot)] = [valid |-> @.valid, val |-> Torn]]
    /\ pc' = "validate"
    /\ UNCHANGED <<active, pending, target, legacy, ramSlot, committed,
                   candidate, result>>

\* Mutant of Validate: the results of the puts are not looked at.
ValidateAlways ==
    /\ pc = "validate"
    /\ slot' = [slot EXCEPT ![Other(ramSlot)] = [valid |-> TRUE, val |-> @.val]]
    /\ pc' = "commit_active" /\ UNCHANGED ram
    /\ UNCHANGED <<active, pending, target, legacy, failures>>

Validate ==
    /\ pc = "validate"
    /\ IF ok
       THEN /\ slot' = [slot EXCEPT ![Other(ramSlot)] = [valid |-> TRUE, val |-> @.val]]
            /\ pc' = "commit_active"
            /\ UNCHANGED ram
       ELSE SaveFails /\ UNCHANGED <<slot, ok>>
    /\ UNCHANGED <<active, pending, target, legacy, failures>>

ValidateFails == pc = "validate" /\ ok /\ Abort

\* Mutant of CommitActive: the active slot is left as it was.
CommitActiveNot ==
    /\ pc = "commit_active"
    /\ pc' = "commit_pending"
    /\ UNCHANGED <<nvs, ram, failures>>

CommitActive ==
    /\ pc = "commit_active"
    /\ active' = Other(ramSlot)
    /\ pc' = "commit_pending"
    /\ UNCHANGED <<slot, pending, target, legacy, ram, failures>>

CommitActiveFails == pc = "commit_active" /\ Fail("commit_pending")

\* The commit point; then the variables of the running firmware follow.
CommitPending ==
    /\ pc = "commit_pending"
    /\ pending' = FALSE
    /\ IF ok
       THEN /\ pc' = "ready" /\ result' = "saved"
            /\ ramSlot' = Other(ramSlot)
            /\ committed' = candidate
            /\ UNCHANGED candidate
       ELSE SaveFails
    /\ UNCHANGED <<slot, active, target, legacy, ok, failures>>

CommitPendingFails == pc = "commit_pending" /\ Abort

-----------------------------------------------------------------------------
(* clear_config, from the serial console or from the buttons during boot,  *)
(* one namespace after the other; results are ignored and a restart follows. *)

BeginReset ==
    /\ pc \in {"ready", "off"}
    /\ pc' = "reset_legacy"
    /\ ramSlot' = 0 /\ committed' = Blank /\ candidate' = Blank
    /\ result' = "none"
    /\ UNCHANGED <<nvs, ok, failures>>

ResetLegacy ==
    /\ pc = "reset_legacy"
    /\ legacy' = Blank
    /\ pc' = "reset_slot0"
    /\ UNCHANGED <<slot, active, pending, target, ram, failures>>

ResetLegacyFails == pc = "reset_legacy" /\ Fail("reset_slot0")

ResetSlot(s, here, next) ==
    /\ pc = here
    /\ slot' = [slot EXCEPT ![s] = EmptySlot]
    /\ pc' = next
    /\ UNCHANGED <<active, pending, target, legacy, ram, failures>>

ResetSlot0 == ResetSlot(0, "reset_slot0", "reset_slot1")

ResetSlot0Fails == pc = "reset_slot0" /\ Fail("reset_slot1")

ResetSlot1 == ResetSlot(1, "reset_slot1", "reset_meta")

ResetSlot1Fails == pc = "reset_slot1" /\ Fail("reset_meta")

ResetMeta ==
    /\ pc = "reset_meta"
    /\ active' = 0 /\ pending' = FALSE /\ target' = NoSlot
    /\ pc' = "restart"
    /\ UNCHANGED <<slot, legacy, ram, failures>>

ResetMetaFails == pc = "reset_meta" /\ Fail("restart")

\* Power fails, or the firmware restarts: the variables in RAM are gone.
PowerLoss ==
    /\ pc # "off"
    /\ pc' = "off"
    /\ ramSlot' = 0 /\ committed' = Blank /\ candidate' = Blank
    /\ ok' = TRUE /\ result' = "none"
    /\ UNCHANGED <<nvs, failures>>

-----------------------------------------------------------------------------
BootNext ==
    \/ Boot \/ RecoverActive \/ RecoverActiveFails
    \/ RecoverPending \/ RecoverPendingFails

SaveNext ==
    \/ \E c \in Configs : BeginSave(c)
    \/ MarkTarget \/ MarkTargetFails \/ MarkPending \/ MarkPendingFails
    \/ Invalidate \/ InvalidateFails \/ ClearSlot \/ ClearSlotFails
    \/ WriteFields \/ WriteFieldsFails \/ Validate \/ ValidateFails
    \/ CommitActive \/ CommitActiveFails \/ CommitPending \/ CommitPendingFails

ResetNext ==
    \/ BeginReset \/ ResetLegacy \/ ResetLegacyFails
    \/ ResetSlot0 \/ ResetSlot0Fails \/ ResetSlot1 \/ ResetSlot1Fails
    \/ ResetMeta \/ ResetMetaFails

Next == BootNext \/ SaveNext \/ ResetNext \/ PowerLoss

Spec == Init /\ [][Next]_vars

-----------------------------------------------------------------------------
\* The namespaces and the firmware's variables have the values they can have.
TypeOK ==
    /\ slot \in [Slots -> SlotContents]
    /\ active \in Slots /\ pending \in BOOLEAN
    /\ target \in Slots \cup {NoSlot}
    /\ legacy \in Configs
    /\ pc \in Phases /\ ramSlot \in Slots
    /\ committed \in Configs /\ candidate \in Configs
    /\ ok \in BOOLEAN /\ result \in {"none", "saved", "failed"}
    /\ failures \in Nat

\* The device never runs on a half-written configuration, whenever power
\* failed and whichever puts failed (the valid flag of write_config_slot).
NeverBootsTorn == BootConfig # Torn

\* A save that reported success is what the next boot loads, even when
\* earlier saves failed half way.
SavedIsDurable == pc = "ready" /\ result = "saved" => BootConfig = committed

\* A commit is atomic under power loss: while no put fails, what a boot
\* would load changes at one put of save_config only, and to the
\* configuration being saved.  Excepted are the factory reset and a device
\* that does not run on a slot yet.
PowerLossAtomic ==
    [][failures' = 0 /\ BootConfig' # BootConfig =>
          \/ pc = "commit_pending" /\ BootConfig' = candidate
          \/ pc \in ResetPhases
          \/ ~slot[ramSlot].valid]_vars

\* While no put fails, the firmware that runs on a slot runs on what it would
\* boot with.
RunsOnBootConfig ==
    failures = 0 /\ pc = "ready" /\ slot[ramSlot].valid => BootConfig = committed

\* A factory reset that ran to its end leaves nothing to boot from.
ResetErases == failures = 0 /\ pc = "restart" => BootConfig = Blank

\* "ERR configuration commit failed; previous slot retained"
\* (handle_serial_command): after a failed save the next boot loads what the
\* device runs on.
PreviousSlotRetained ==
    pc = "ready" /\ result = "failed" /\ slot[ramSlot].valid => BootConfig = committed

\* "Recovered configuration after interrupted commit" (load_config): the
\* configuration a boot went back to is the one the following boot loads.
RollbackIsFinal == failures = 0 /\ pc = "ready" => BootConfig = committed
=============================================================================
