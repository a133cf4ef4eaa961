---------------------------- MODULE ConfigProofs ----------------------------
(***************************************************************************)
(* Proofs about ConfigStore: for every set of configurations and any       *)
(* number of power losses and failing puts.                                *)
(*                                                                         *)
(* The second half is about what the display does with the networks of     *)
(* that configuration (WifiFailover): for every range of the millisecond   *)
(* counter, every time-out and every backoff that its assumption allows.   *)
(***************************************************************************)
EXTENDS ConfigStore, WifiFailover, TLAPS

\* The two slots are each other's other.
LEMMA OtherSlot ==
    \A s \in Slots : Other(s) \in Slots /\ Other(s) # s /\ Other(Other(s)) = s
  BY DEF Slots, Other

\* Where the rewriting of the inactive slot stands: it is invalid before its
\* contents change, holds the candidate when all puts succeeded, and is valid
\* again before the metadata is switched.
Rewriting ==
    /\ pc \in {"clear", "fields", "validate"} => ~slot[Other(ramSlot)].valid
    /\ pc = "validate" /\ ok => slot[Other(ramSlot)].val = candidate
    /\ pc \in {"commit_active", "commit_pending"} =>
          slot[Other(ramSlot)].valid /\ slot[Other(ramSlot)].val = candidate
    /\ pc = "commit_pending" /\ ok => active = Other(ramSlot)

\* A valid slot holds a whole configuration.
ValidIsWhole == \A s \in Slots : slot[s].valid => slot[s].val \in Configs

\* What success means for the namespaces.
Saved ==
    result = "saved" =>
        /\ pc = "ready" /\ ~pending /\ active = ramSlot
        /\ slot[ramSlot].valid /\ slot[ramSlot].val = committed

\* How metadata and firmware agree as long as no put failed.
MarkFollowsSave ==
    /\ pc \in {"ready", "mark_target", "mark_pending"} => ~pending
    /\ pc \in {"recover_active", "recover_pending"} \cup
               (SavePhases \ {"mark_target", "mark_pending"}) => pending
    /\ pending => target \in Slots
    /\ pc \in {"recover_active", "recover_pending"} \cup
               (SavePhases \ {"mark_target"}) => target = Other(ramSlot)
    /\ pc = "recover_pending" => active = ramSlot
    /\ pc \in SavePhases => ok

\* A device that runs on a slot runs on what that slot holds, and load_config
\* would choose that slot again.
RunsOnSlot ==
    pc \notin ResetPhases \cup {"off", "restart"} /\ slot[ramSlot].valid =>
        /\ slot[ramSlot].val = committed
        /\ pc \in {"ready", "mark_target", "mark_pending"} =>
              active = ramSlot \/ ~slot[active].valid

\* How far a factory reset has come.
Erased ==
    /\ pc \in {"reset_slot0", "reset_slot1", "reset_meta", "restart"} => legacy = Blank
    /\ pc \in {"reset_slot1", "reset_meta", "restart"} => ~slot[0].valid
    /\ pc \in {"reset_meta", "restart"} => ~slot[1].valid

Sound == failures = 0 => MarkFollowsSave /\ RunsOnSlot /\ Erased

\* The inductive invariant.
IInv == TypeOK /\ Rewriting /\ ValidIsWhole /\ Saved /\ Sound


\* The slot that a boot would load is a slot.
LEMMA LoadedIsSlot == TypeOK => LoadedSlot \in Slots /\ RequestedSlot \in Slots
  BY OtherSlot DEF TypeOK, LoadedSlot, RequestedSlot, RollbackPending

\* What a boot would load is a configuration.
LEMMA BootIsConfig == TypeOK /\ ValidIsWhole => BootConfig \in Configs
  BY LoadedIsSlot DEF BootConfig, ValidIsWhole, TypeOK

\* A failing put keeps the types.
LEMMA FailType ==
  ASSUME TypeOK, NEW next \in Phases, Fail(next)
  PROVE  TypeOK'
<1>1. failures' \in Nat
  BY DEF Fail, TypeOK
<1>2. ok' \in BOOLEAN
  BY DEF Fail
<1>3. pc' \in Phases
  BY DEF Fail
<1>. QED
  BY <1>1, <1>2, <1>3 DEF Fail, TypeOK, nvs

\* A failed save that ends leaves well-typed variables.
LEMMA AbortType ==
  ASSUME TypeOK, Abort
  PROVE  TypeOK'
<1>1. failures' \in Nat
  BY DEF Abort, TypeOK
<1>2. ok' \in BOOLEAN /\ result' \in {"none", "saved", "failed"}
  BY DEF Abort, SaveFails
<1>3. pc' \in Phases
  BY DEF Abort, SaveFails, Phases
<1>. QED
  BY <1>1, <1>2, <1>3 DEF Abort, SaveFails, TypeOK, nvs

\* Every step keeps the types.
LEMMA TypeStep ==
  ASSUME TypeOK, ValidIsWhole, [Next]_vars
  PROVE  TypeOK'
<1>1. CASE Boot
  BY <1>1, BootIsConfig, LoadedIsSlot DEF Boot, TypeOK, nvs, Phases, SavePhases, ResetPhases
<1>2. CASE RecoverActive
  BY <1>2, OtherSlot DEF RecoverActive, TypeOK, nvs, ram, Phases, SavePhases,
     ResetPhases, SlotContents, EmptySlot
<1>3. CASE RecoverActiveFails
  BY <1>3, FailType DEF RecoverActiveFails, Phases, SavePhases, ResetPhases
<1>4. CASE RecoverPending
  BY <1>4, OtherSlot DEF RecoverPending, TypeOK, nvs, ram, Phases, SavePhases,
     ResetPhases, SlotContents, EmptySlot
<1>5. CASE RecoverPendingFails
  BY <1>5, FailType DEF RecoverPendingFails, Phases, SavePhases, ResetPhases
<1>6. ASSUME NEW c \in Configs, BeginSave(c) PROVE TypeOK'
  BY <1>6, OtherSlot DEF BeginSave, TypeOK, nvs, ram, Phases, SavePhases, ResetPhases,
     SlotContents, EmptySlot
<1>7. CASE MarkTarget
  BY <1>7, OtherSlot DEF MarkTarget, TypeOK, nvs, ram, Phases, SavePhases, ResetPhases,
     SlotContents, EmptySlot
<1>8. CASE MarkTargetFails
  BY <1>8, FailType DEF MarkTargetFails, Phases, SavePhases, ResetPhases
<1>9. CASE MarkPending
  BY <1>9, OtherSlot DEF MarkPending, SaveFails, TypeOK, nvs, ram, Phases, SavePhases,
     ResetPhases, SlotContents, EmptySlot
<1>10. CASE MarkPendingFails
  BY <1>10, AbortType DEF MarkPendingFails
<1>11. CASE Invalidate
  BY <1>11, OtherSlot DEF Invalidate, TypeOK, nvs, ram, Phases, SavePhases, ResetPhases,
     SlotContents, EmptySlot
<1>12. CASE InvalidateFails
  BY <1>12, AbortType DEF InvalidateFails
<1>13. CASE ClearSlot
  BY <1>13, OtherSlot DEF ClearSlot, TypeOK, nvs, ram, Phases, SavePhases, ResetPhases,
     SlotContents, EmptySlot
<1>14. CASE ClearSlotFails
  BY <1>14, FailType DEF ClearSlotFails, Phases, SavePhases, ResetPhases
<1>15. CASE WriteFields
  BY <1>15, OtherSlot DEF WriteFields, TypeOK, nvs, ram, Phases, SavePhases, ResetPhases,
     SlotContents, EmptySlot
<1>16. CASE WriteFieldsFails
  <2>1. failures' \in Nat
    BY <1>16 DEF WriteFieldsFails, TypeOK
  <2>2. slot' \in [Slots -> SlotContents]
    BY <1>16, OtherSlot DEF WriteFieldsFails, TypeOK, SlotContents
  <2>3. ok' \in BOOLEAN /\ pc' \in Phases
    BY <1>16 DEF WriteFieldsFails, Phases, SavePhases, ResetPhases
  <2>. QED
    BY <1>16, <2>1, <2>2, <2>3 DEF WriteFieldsFails, TypeOK
<1>17. CASE Validate
  <2>1. slot' \in [Slots -> SlotContents]
    <3>1. CASE ok
      <4> DEFINE o == Other(ramSlot)
                 new == [valid |-> TRUE, val |-> slot[o].val]
      <4>1. o \in Slots
        BY OtherSlot DEF TypeOK
      <4>2. slot[o].val \in Configs \cup {Torn}
        BY <4>1 DEF TypeOK, SlotContents
      <4>3. new \in SlotContents
        BY <4>2 DEF SlotContents
      <4>4. slot' = [slot EXCEPT ![o] = new]
        BY <1>17, <3>1 DEF Validate
      <4>. QED
        BY <4>1, <4>3, <4>4 DEF TypeOK
    <3>2. CASE ~ok
      BY <1>17, <3>2 DEF Validate, TypeOK
    <3>. QED
      BY <3>1, <3>2
  <2>2. pc' \in Phases /\ result' \in {"none", "saved", "failed"}
    BY <1>17 DEF Validate, SaveFails, TypeOK, ram, Phases, SavePhases, ResetPhases
  <2>. QED
    BY <1>17, <2>1, <2>2 DEF Validate, SaveFails, TypeOK, ram
<1>18. CASE ValidateFails
  BY <1>18, AbortType DEF ValidateFails
<1>19. CASE CommitActive
  BY <1>19, OtherSlot DEF CommitActive, TypeOK, nvs, ram, Phases, SavePhases,
     ResetPhases, SlotContents, EmptySlot
<1>20. CASE CommitActiveFails
  BY <1>20, FailType DEF CommitActiveFails, Phases, SavePhases, ResetPhases
<1>21. CASE CommitPending
  BY <1>21, OtherSlot DEF CommitPending, SaveFails, TypeOK, nvs, ram, Phases, SavePhases,
     ResetPhases, SlotContents, EmptySlot
<1>22. CASE CommitPendingFails
  BY <1>22, AbortType DEF CommitPendingFails
<1>23. CASE BeginReset
  BY <1>23, ConfigAssumption DEF BeginReset, TypeOK, nvs, ram, Phases, SavePhases,
     ResetPhases, Slots
<1>24. CASE ResetLegacy
  BY <1>24, ConfigAssumption DEF ResetLegacy, TypeOK, nvs, ram, Phases, SavePhases,
     ResetPhases, SlotContents, EmptySlot
<1>25. CASE ResetLegacyFails
  BY <1>25, FailType DEF ResetLegacyFails, Phases, SavePhases, ResetPhases
<1>26. CASE ResetSlot0
  BY <1>26, OtherSlot DEF ResetSlot0, ResetSlot, TypeOK, nvs, ram, Phases, SavePhases,
     ResetPhases, SlotContents, EmptySlot
<1>27. CASE ResetSlot0Fails
  BY <1>27, FailType DEF ResetSlot0Fails, Phases, SavePhases, ResetPhases
<1>28. CASE ResetSlot1
  BY <1>28, OtherSlot DEF ResetSlot1, ResetSlot, TypeOK, nvs, ram, Phases, SavePhases,
     ResetPhases, SlotContents, EmptySlot
<1>29. CASE ResetSlot1Fails
  BY <1>29, FailType DEF ResetSlot1Fails, Phases, SavePhases, ResetPhases
<1>30. CASE ResetMeta
  BY <1>30 DEF ResetMeta, TypeOK, nvs, ram, Phases, SavePhases, ResetPhases, Slots
<1>31. CASE ResetMetaFails
  BY <1>31, FailType DEF ResetMetaFails, Phases, SavePhases, ResetPhases
<1>32. CASE PowerLoss
  BY <1>32, ConfigAssumption DEF PowerLoss, TypeOK, nvs, ram, Phases, SavePhases,
     ResetPhases, Slots
<1>33. CASE UNCHANGED vars
  BY <1>33 DEF vars, nvs, ram, TypeOK
<1>. QED
  BY <1>1, <1>2, <1>3, <1>4, <1>5, <1>6, <1>7, <1>8, <1>9, <1>10, <1>11, <1>12, <1>13,
     <1>14, <1>15, <1>16, <1>17, <1>18, <1>19, <1>20, <1>21, <1>22, <1>23, <1>24, <1>25,
     <1>26, <1>27, <1>28, <1>29, <1>30, <1>31, <1>32, <1>33 DEF Next, BootNext,
     SaveNext, ResetNext

\* A slot becomes valid only when it is whole.
LEMMA WholeStep ==
  ASSUME TypeOK, Rewriting, ValidIsWhole, [Next]_vars
  PROVE  ValidIsWhole'
<1>1. CASE Boot
  BY <1>1 DEF Boot, nvs, ValidIsWhole
<1>2. CASE RecoverActive
  BY <1>2 DEF RecoverActive, nvs, ValidIsWhole
<1>3. CASE RecoverActiveFails
  BY <1>3 DEF RecoverActiveFails, Fail, nvs, ValidIsWhole
<1>4. CASE RecoverPending
  BY <1>4 DEF RecoverPending, nvs, ValidIsWhole
<1>5. CASE RecoverPendingFails
  BY <1>5 DEF RecoverPendingFails, Fail, nvs, ValidIsWhole
<1>6. ASSUME NEW c \in Configs, BeginSave(c) PROVE ValidIsWhole'
  BY <1>6 DEF BeginSave, nvs, ValidIsWhole
<1>7. CASE MarkTarget
  BY <1>7 DEF MarkTarget, nvs, ValidIsWhole
<1>8. CASE MarkTargetFails
  BY <1>8 DEF MarkTargetFails, Fail, nvs, ValidIsWhole
<1>9. CASE MarkPending
  BY <1>9 DEF MarkPending, SaveFails, nvs, ValidIsWhole
<1>10. CASE MarkPendingFails
  BY <1>10 DEF MarkPendingFails, Abort, SaveFails, nvs, ValidIsWhole
<1>11. CASE Invalidate
  BY <1>11, OtherSlot DEF Invalidate, ValidIsWhole, Rewriting, TypeOK, SlotContents,
     EmptySlot
<1>12. CASE InvalidateFails
  BY <1>12 DEF InvalidateFails, Abort, SaveFails, nvs, ValidIsWhole
<1>13. CASE ClearSlot
  BY <1>13, OtherSlot DEF ClearSlot, ValidIsWhole, Rewriting, TypeOK, SlotContents,
     EmptySlot
<1>14. CASE ClearSlotFails
  BY <1>14 DEF ClearSlotFails, Fail, nvs, ValidIsWhole
<1>15. CASE WriteFields
  BY <1>15, OtherSlot DEF WriteFields, ValidIsWhole, Rewriting, TypeOK, SlotContents,
     EmptySlot
<1>16. CASE WriteFieldsFails
  BY <1>16, OtherSlot DEF WriteFieldsFails, ValidIsWhole, Rewriting, TypeOK,
     SlotContents, EmptySlot
<1>17. CASE Validate
  <2>1. CASE ok
    BY <1>17, <2>1, OtherSlot DEF Validate, SaveFails, ValidIsWhole, Rewriting, TypeOK,
       SlotContents
  <2>2. CASE ~ok
    BY <1>17, <2>2, OtherSlot DEF Validate, SaveFails, ValidIsWhole, Rewriting, TypeOK,
       SlotContents
  <2>. QED
    BY <2>1, <2>2
<1>18. CASE ValidateFails
  BY <1>18 DEF ValidateFails, Abort, SaveFails, nvs, ValidIsWhole
<1>19. CASE CommitActive
  BY <1>19 DEF CommitActive, nvs, ValidIsWhole
<1>20. CASE CommitActiveFails
  BY <1>20 DEF CommitActiveFails, Fail, nvs, ValidIsWhole
<1>21. CASE CommitPending
  BY <1>21 DEF CommitPending, SaveFails, nvs, ValidIsWhole
<1>22. CASE CommitPendingFails
  BY <1>22 DEF CommitPendingFails, Abort, SaveFails, nvs, ValidIsWhole
<1>23. CASE BeginReset
  BY <1>23 DEF BeginReset, nvs, ValidIsWhole
<1>24. CASE ResetLegacy
  BY <1>24 DEF ResetLegacy, nvs, ValidIsWhole
<1>25. CASE ResetLegacyFails
  BY <1>25 DEF ResetLegacyFails, Fail, nvs, ValidIsWhole
<1>26. CASE ResetSlot0
  BY <1>26 DEF ResetSlot0, ResetSlot, ValidIsWhole, TypeOK, SlotContents, EmptySlot, Slots
<1>27. CASE ResetSlot0Fails
  BY <1>27 DEF ResetSlot0Fails, Fail, nvs, ValidIsWhole
<1>28. CASE ResetSlot1
  BY <1>28 DEF ResetSlot1, ResetSlot, ValidIsWhole, TypeOK, SlotContents, EmptySlot, Slots
<1>29. CASE ResetSlot1Fails
  BY <1>29 DEF ResetSlot1Fails, Fail, nvs, ValidIsWhole
<1>30. CASE ResetMeta
  BY <1>30 DEF ResetMeta, nvs, ValidIsWhole
<1>31. CASE ResetMetaFails
  BY <1>31 DEF ResetMetaFails, Fail, nvs, ValidIsWhole
<1>32. CASE PowerLoss
  BY <1>32 DEF PowerLoss, nvs, ValidIsWhole
<1>33. CASE UNCHANGED vars
  BY <1>33 DEF vars, nvs, ValidIsWhole
<1>. QED
  BY <1>1, <1>2, <1>3, <1>4, <1>5, <1>6, <1>7, <1>8, <1>9, <1>10, <1>11, <1>12, <1>13,
     <1>14, <1>15, <1>16, <1>17, <1>18, <1>19, <1>20, <1>21, <1>22, <1>23, <1>24, <1>25,
     <1>26, <1>27, <1>28, <1>29, <1>30, <1>31, <1>32, <1>33 DEF Next, BootNext,
     SaveNext, ResetNext

\* The rewriting of the inactive slot goes through its stages.
LEMMA RewritingStep ==
  ASSUME TypeOK, Rewriting, [Next]_vars
  PROVE  Rewriting'
<1>1. CASE Boot
  BY <1>1 DEF Boot, nvs, ram, Rewriting
<1>2. CASE RecoverActive
  BY <1>2 DEF RecoverActive, nvs, ram, Rewriting
<1>3. CASE RecoverActiveFails
  BY <1>3 DEF RecoverActiveFails, Fail, nvs, ram, Rewriting
<1>4. CASE RecoverPending
  BY <1>4 DEF RecoverPending, nvs, ram, Rewriting
<1>5. CASE RecoverPendingFails
  BY <1>5 DEF RecoverPendingFails, Fail, nvs, ram, Rewriting
<1>6. ASSUME NEW c \in Configs, BeginSave(c) PROVE Rewriting'
  BY <1>6 DEF BeginSave, nvs, ram, Rewriting
<1>7. CASE MarkTarget
  BY <1>7 DEF MarkTarget, nvs, ram, Rewriting
<1>8. CASE MarkTargetFails
  BY <1>8 DEF MarkTargetFails, Fail, nvs, ram, Rewriting
<1>9. CASE MarkPending
  <2>1. CASE ok
    BY <1>9, <2>1, OtherSlot DEF MarkPending, SaveFails, ram, Rewriting
  <2>2. CASE ~ok
    BY <1>9, <2>2, OtherSlot DEF MarkPending, SaveFails, ram, Rewriting
  <2>. QED
    BY <2>1, <2>2
<1>10. CASE MarkPendingFails
  BY <1>10 DEF MarkPendingFails, Abort, SaveFails, nvs, ram, Rewriting
<1>11. CASE Invalidate
  BY <1>11, OtherSlot DEF Invalidate, ram, Rewriting, TypeOK, SlotContents, EmptySlot
<1>12. CASE InvalidateFails
  BY <1>12 DEF InvalidateFails, Abort, SaveFails, nvs, ram, Rewriting
<1>13. CASE ClearSlot
  BY <1>13, OtherSlot DEF ClearSlot, ram, Rewriting, TypeOK, SlotContents, EmptySlot
<1>14. CASE ClearSlotFails
  BY <1>14 DEF ClearSlotFails, Fail, nvs, ram, Rewriting
<1>15. CASE WriteFields
  BY <1>15, OtherSlot DEF WriteFields, ram, Rewriting, TypeOK, SlotContents, EmptySlot
<1>16. CASE WriteFieldsFails
  BY <1>16, OtherSlot DEF WriteFieldsFails, ram, Rewriting, TypeOK, SlotContents, EmptySlot
<1>17. CASE Validate
  <2>1. CASE ok
    BY <1>17, <2>1, OtherSlot DEF Validate, SaveFails, ram, Rewriting, TypeOK, SlotContents
  <2>2. CASE ~ok
    BY <1>17, <2>2, OtherSlot DEF Validate, SaveFails, ram, Rewriting, TypeOK, SlotContents
  <2>. QED
    BY <2>1, <2>2
<1>18. CASE ValidateFails
  BY <1>18 DEF ValidateFails, Abort, SaveFails, nvs, ram, Rewriting
<1>19. CASE CommitActive
  BY <1>19 DEF CommitActive, nvs, ram, Rewriting
<1>20. CASE CommitActiveFails
  BY <1>20 DEF CommitActiveFails, Fail, nvs, ram, Rewriting
<1>21. CASE CommitPending
  <2>1. CASE ok
    BY <1>21, <2>1, OtherSlot DEF CommitPending, SaveFails, ram, Rewriting
  <2>2. CASE ~ok
    BY <1>21, <2>2, OtherSlot DEF CommitPending, SaveFails, ram, Rewriting
  <2>. QED
    BY <2>1, <2>2
<1>22. CASE CommitPendingFails
  BY <1>22 DEF CommitPendingFails, Abort, SaveFails, nvs, ram, Rewriting
<1>23. CASE BeginReset
  BY <1>23 DEF BeginReset, nvs, ram, Rewriting
<1>24. CASE ResetLegacy
  BY <1>24 DEF ResetLegacy, nvs, ram, Rewriting
<1>25. CASE ResetLegacyFails
  BY <1>25 DEF ResetLegacyFails, Fail, nvs, ram, Rewriting
<1>26. CASE ResetSlot0
  BY <1>26, OtherSlot DEF ResetSlot0, ResetSlot, ram, Rewriting, TypeOK, SlotContents,
     EmptySlot
<1>27. CASE ResetSlot0Fails
  BY <1>27 DEF ResetSlot0Fails, Fail, nvs, ram, Rewriting
<1>28. CASE ResetSlot1
  BY <1>28, OtherSlot DEF ResetSlot1, ResetSlot, ram, Rewriting, TypeOK, SlotContents,
     EmptySlot
<1>29. CASE ResetSlot1Fails
  BY <1>29 DEF ResetSlot1Fails, Fail, nvs, ram, Rewriting
<1>30. CASE ResetMeta
  BY <1>30 DEF ResetMeta, nvs, ram, Rewriting
<1>31. CASE ResetMetaFails
  BY <1>31 DEF ResetMetaFails, Fail, nvs, ram, Rewriting
<1>32. CASE PowerLoss
  BY <1>32 DEF PowerLoss, nvs, ram, Rewriting
<1>33. CASE UNCHANGED vars
  BY <1>33 DEF vars, nvs, ram, Rewriting
<1>. QED
  BY <1>1, <1>2, <1>3, <1>4, <1>5, <1>6, <1>7, <1>8, <1>9, <1>10, <1>11, <1>12, <1>13,
     <1>14, <1>15, <1>16, <1>17, <1>18, <1>19, <1>20, <1>21, <1>22, <1>23, <1>24, <1>25,
     <1>26, <1>27, <1>28, <1>29, <1>30, <1>31, <1>32, <1>33 DEF Next, BootNext,
     SaveNext, ResetNext

\* Success is reported for a committed configuration only, and nothing
\* disturbs it before the next operation.
LEMMA SavedStep ==
  ASSUME TypeOK, Rewriting, Saved, [Next]_vars
  PROVE  Saved'
<1>1. CASE Boot
  BY <1>1 DEF Boot, nvs, ram, Saved
<1>2. CASE RecoverActive
  BY <1>2 DEF RecoverActive, nvs, ram, Saved
<1>3. CASE RecoverActiveFails
  BY <1>3 DEF RecoverActiveFails, Fail, nvs, ram, Saved
<1>4. CASE RecoverPending
  BY <1>4 DEF RecoverPending, nvs, ram, Saved
<1>5. CASE RecoverPendingFails
  BY <1>5 DEF RecoverPendingFails, Fail, nvs, ram, Saved
<1>6. ASSUME NEW c \in Configs, BeginSave(c) PROVE Saved'
  BY <1>6 DEF BeginSave, nvs, ram, Saved
<1>7. CASE MarkTarget
  BY <1>7 DEF MarkTarget, nvs, ram, Saved
<1>8. CASE MarkTargetFails
  BY <1>8 DEF MarkTargetFails, Fail, nvs, ram, Saved
<1>9. CASE MarkPending
  <2>1. CASE ok
    BY <1>9, <2>1, OtherSlot DEF MarkPending, SaveFails, ram, Saved
  <2>2. CASE ~ok
    BY <1>9, <2>2, OtherSlot DEF MarkPending, SaveFails, ram, Saved
  <2>. QED
    BY <2>1, <2>2
<1>10. CASE MarkPendingFails
  BY <1>10 DEF MarkPendingFails, Abort, SaveFails, nvs, ram, Saved
<1>11. CASE Invalidate
  BY <1>11, OtherSlot DEF Invalidate, ram, Saved, TypeOK, SlotContents, EmptySlot
<1>12. CASE InvalidateFails
  BY <1>12 DEF InvalidateFails, Abort, SaveFails, nvs, ram, Saved
<1>13. CASE ClearSlot
  BY <1>13, OtherSlot DEF ClearSlot, ram, Saved, TypeOK, SlotContents, EmptySlot
<1>14. CASE ClearSlotFails
  BY <1>14 DEF ClearSlotFails, Fail, nvs, ram, Saved
<1>15. CASE WriteFields
  BY <1>15, OtherSlot DEF WriteFields, ram, Saved, TypeOK, SlotContents, EmptySlot
<1>16. CASE WriteFieldsFails
  BY <1>16, OtherSlot DEF WriteFieldsFails, ram, Saved, TypeOK, SlotContents, EmptySlot
<1>17. CASE Validate
  <2>1. CASE ok
    BY <1>17, <2>1, OtherSlot DEF Validate, SaveFails, ram, Saved
  <2>2. CASE ~ok
    BY <1>17, <2>2, OtherSlot DEF Validate, SaveFails, ram, Saved
  <2>. QED
    BY <2>1, <2>2
<1>18. CASE ValidateFails
  BY <1>18 DEF ValidateFails, Abort, SaveFails, nvs, ram, Saved
<1>19. CASE CommitActive
  BY <1>19 DEF CommitActive, nvs, ram, Saved
<1>20. CASE CommitActiveFails
  BY <1>20 DEF CommitActiveFails, Fail, nvs, ram, Saved
<1>21. CASE CommitPending
  <2>1. CASE ok
    BY <1>21, <2>1, OtherSlot DEF CommitPending, SaveFails, ram, Saved, Rewriting, TypeOK
  <2>2. CASE ~ok
    BY <1>21, <2>2, OtherSlot DEF CommitPending, SaveFails, ram, Saved, Rewriting, TypeOK
  <2>. QED
    BY <2>1, <2>2
<1>22. CASE CommitPendingFails
  BY <1>22 DEF CommitPendingFails, Abort, SaveFails, nvs, ram, Saved
<1>23. CASE BeginReset
  BY <1>23 DEF BeginReset, nvs, ram, Saved
<1>24. CASE ResetLegacy
  BY <1>24 DEF ResetLegacy, nvs, ram, Saved
<1>25. CASE ResetLegacyFails
  BY <1>25 DEF ResetLegacyFails, Fail, nvs, ram, Saved
<1>26. CASE ResetSlot0
  BY <1>26, OtherSlot DEF ResetSlot0, ResetSlot, ram, Saved, TypeOK, SlotContents, EmptySlot
<1>27. CASE ResetSlot0Fails
  BY <1>27 DEF ResetSlot0Fails, Fail, nvs, ram, Saved
<1>28. CASE ResetSlot1
  BY <1>28, OtherSlot DEF ResetSlot1, ResetSlot, ram, Saved, TypeOK, SlotContents, EmptySlot
<1>29. CASE ResetSlot1Fails
  BY <1>29 DEF ResetSlot1Fails, Fail, nvs, ram, Saved
<1>30. CASE ResetMeta
  BY <1>30 DEF ResetMeta, nvs, ram, Saved
<1>31. CASE ResetMetaFails
  BY <1>31 DEF ResetMetaFails, Fail, nvs, ram, Saved
<1>32. CASE PowerLoss
  BY <1>32 DEF PowerLoss, nvs, ram, Saved
<1>33. CASE UNCHANGED vars
  BY <1>33 DEF vars, nvs, ram, Saved
<1>. QED
  BY <1>1, <1>2, <1>3, <1>4, <1>5, <1>6, <1>7, <1>8, <1>9, <1>10, <1>11, <1>12, <1>13,
     <1>14, <1>15, <1>16, <1>17, <1>18, <1>19, <1>20, <1>21, <1>22, <1>23, <1>24, <1>25,
     <1>26, <1>27, <1>28, <1>29, <1>30, <1>31, <1>32, <1>33 DEF Next, BootNext,
     SaveNext, ResetNext

\* While no put fails, metadata, slots and firmware stay in step.
LEMMA SoundStep ==
  ASSUME TypeOK, Rewriting, Sound, [Next]_vars
  PROVE  Sound'
<1>1. CASE Boot
  BY <1>1, OtherSlot, LoadedIsSlot DEF Boot, nvs, Sound, MarkFollowsSave, RunsOnSlot,
     Erased, TypeOK, Phases, SavePhases, ResetPhases, BootConfig, LoadedSlot,
     RequestedSlot, RollbackPending
<1>2. CASE RecoverActive
  BY <1>2, OtherSlot DEF RecoverActive, nvs, ram, Sound, MarkFollowsSave, RunsOnSlot,
     Erased, TypeOK, Phases, SavePhases, ResetPhases
<1>3. CASE RecoverActiveFails
  BY <1>3 DEF RecoverActiveFails, Fail, Sound, TypeOK
<1>4. CASE RecoverPending
  BY <1>4, OtherSlot DEF RecoverPending, nvs, ram, Sound, MarkFollowsSave, RunsOnSlot,
     Erased, TypeOK, Phases, SavePhases, ResetPhases
<1>5. CASE RecoverPendingFails
  BY <1>5 DEF RecoverPendingFails, Fail, Sound, TypeOK
<1>6. ASSUME NEW c \in Configs, BeginSave(c) PROVE Sound'
  BY <1>6, OtherSlot DEF BeginSave, nvs, ram, Sound, MarkFollowsSave, RunsOnSlot, Erased,
     TypeOK, Phases, SavePhases, ResetPhases
<1>7. CASE MarkTarget
  BY <1>7, OtherSlot DEF MarkTarget, nvs, ram, Sound, MarkFollowsSave, RunsOnSlot,
     Erased, TypeOK, Phases, SavePhases, ResetPhases
<1>8. CASE MarkTargetFails
  BY <1>8 DEF MarkTargetFails, Fail, Sound, TypeOK
<1>9. CASE MarkPending
  <2>1. CASE ok
    BY <1>9, <2>1, OtherSlot DEF MarkPending, SaveFails, ram, Sound, MarkFollowsSave,
       RunsOnSlot, Erased, TypeOK, SlotContents, Phases, SavePhases, ResetPhases
  <2>2. CASE ~ok
    BY <1>9, <2>2, OtherSlot DEF MarkPending, SaveFails, ram, Sound, MarkFollowsSave,
       RunsOnSlot, Erased, TypeOK, SlotContents, Phases, SavePhases, ResetPhases
  <2>. QED
    BY <2>1, <2>2
<1>10. CASE MarkPendingFails
  BY <1>10 DEF MarkPendingFails, Abort, Sound, TypeOK
<1>11. CASE Invalidate
  BY <1>11, OtherSlot DEF Invalidate, ram, Sound, MarkFollowsSave, RunsOnSlot, Erased,
     TypeOK, SlotContents, EmptySlot, Phases, SavePhases, ResetPhases
<1>12. CASE InvalidateFails
  BY <1>12 DEF InvalidateFails, Abort, Sound, TypeOK
<1>13. CASE ClearSlot
  BY <1>13, OtherSlot DEF ClearSlot, ram, Sound, MarkFollowsSave, RunsOnSlot, Erased,
     TypeOK, SlotContents, EmptySlot, Phases, SavePhases, ResetPhases
<1>14. CASE ClearSlotFails
  BY <1>14 DEF ClearSlotFails, Fail, Sound, TypeOK
<1>15. CASE WriteFields
  BY <1>15, OtherSlot DEF WriteFields, ram, Sound, MarkFollowsSave, RunsOnSlot, Erased,
     TypeOK, SlotContents, EmptySlot, Phases, SavePhases, ResetPhases
<1>16. CASE WriteFieldsFails
  BY <1>16 DEF WriteFieldsFails, Sound, TypeOK
<1>17. CASE Validate
  <2>1. CASE ok
    BY <1>17, <2>1, OtherSlot DEF Validate, SaveFails, ram, Sound, MarkFollowsSave,
       RunsOnSlot, Erased, TypeOK, SlotContents, Phases, SavePhases, ResetPhases
  <2>2. CASE ~ok
    BY <1>17, <2>2, OtherSlot DEF Validate, SaveFails, ram, Sound, MarkFollowsSave,
       RunsOnSlot, Erased, TypeOK, SlotContents, Phases, SavePhases, ResetPhases
  <2>. QED
    BY <2>1, <2>2
<1>18. CASE ValidateFails
  BY <1>18 DEF ValidateFails, Abort, Sound, TypeOK
<1>19. CASE CommitActive
  BY <1>19, OtherSlot DEF CommitActive, nvs, ram, Sound, MarkFollowsSave, RunsOnSlot,
     Erased, TypeOK, Phases, SavePhases, ResetPhases
<1>20. CASE CommitActiveFails
  BY <1>20 DEF CommitActiveFails, Fail, Sound, TypeOK
<1>21. CASE CommitPending
  <2>1. CASE ok
    BY <1>21, <2>1, OtherSlot DEF CommitPending, SaveFails, ram, Sound, MarkFollowsSave,
       RunsOnSlot, Erased, Rewriting, TypeOK, Phases, SavePhases, ResetPhases
  <2>2. CASE ~ok
    BY <1>21, <2>2, OtherSlot DEF CommitPending, SaveFails, ram, Sound, MarkFollowsSave,
       RunsOnSlot, Erased, Rewriting, TypeOK, Phases, SavePhases, ResetPhases
  <2>. QED
    BY <2>1, <2>2
<1>22. CASE CommitPendingFails
  BY <1>22 DEF CommitPendingFails, Abort, Sound, TypeOK
<1>23. CASE BeginReset
  BY <1>23, OtherSlot DEF BeginReset, nvs, ram, Sound, MarkFollowsSave, RunsOnSlot,
     Erased, TypeOK, Phases, SavePhases, ResetPhases
<1>24. CASE ResetLegacy
  BY <1>24, OtherSlot DEF ResetLegacy, nvs, ram, Sound, MarkFollowsSave, RunsOnSlot,
     Erased, TypeOK, Phases, SavePhases, ResetPhases
<1>25. CASE ResetLegacyFails
  BY <1>25 DEF ResetLegacyFails, Fail, Sound, TypeOK
<1>26. CASE ResetSlot0
  BY <1>26, OtherSlot DEF ResetSlot0, ResetSlot, Slots, ram, Sound, MarkFollowsSave,
     RunsOnSlot, Erased, TypeOK, SlotContents, EmptySlot, Phases, SavePhases, ResetPhases
<1>27. CASE ResetSlot0Fails
  BY <1>27 DEF ResetSlot0Fails, Fail, Sound, TypeOK
<1>28. CASE ResetSlot1
  BY <1>28, OtherSlot DEF ResetSlot1, ResetSlot, Slots, ram, Sound, MarkFollowsSave,
     RunsOnSlot, Erased, TypeOK, SlotContents, EmptySlot, Phases, SavePhases, ResetPhases
<1>29. CASE ResetSlot1Fails
  BY <1>29 DEF ResetSlot1Fails, Fail, Sound, TypeOK
<1>30. CASE ResetMeta
  BY <1>30, OtherSlot DEF ResetMeta, nvs, ram, Sound, MarkFollowsSave, RunsOnSlot,
     Erased, TypeOK, Phases, SavePhases, ResetPhases
<1>31. CASE ResetMetaFails
  BY <1>31 DEF ResetMetaFails, Fail, Sound, TypeOK
<1>32. CASE PowerLoss
  BY <1>32, OtherSlot DEF PowerLoss, nvs, ram, Sound, MarkFollowsSave, RunsOnSlot,
     Erased, TypeOK, Phases, SavePhases, ResetPhases
<1>33. CASE UNCHANGED vars
  BY <1>33 DEF vars, nvs, ram, Sound, MarkFollowsSave, RunsOnSlot, Erased
<1>. QED
  BY <1>1, <1>2, <1>3, <1>4, <1>5, <1>6, <1>7, <1>8, <1>9, <1>10, <1>11, <1>12, <1>13,
     <1>14, <1>15, <1>16, <1>17, <1>18, <1>19, <1>20, <1>21, <1>22, <1>23, <1>24, <1>25,
     <1>26, <1>27, <1>28, <1>29, <1>30, <1>31, <1>32, <1>33 DEF Next, BootNext,
     SaveNext, ResetNext

\* A device that boots with blank or v0.2 flash satisfies the invariant.
LEMMA InitInv == Init => IInv
<1> SUFFICES ASSUME Init PROVE IInv
  OBVIOUS
<1>1. TypeOK
  BY ConfigAssumption DEF Init, TypeOK, Slots, SlotContents, EmptySlot, Phases
<1>2. Rewriting /\ ValidIsWhole /\ Saved
  BY DEF Init, Rewriting, ValidIsWhole, Saved, EmptySlot
<1>3. Sound
  BY DEF Init, Sound, MarkFollowsSave, RunsOnSlot, Erased, SavePhases, ResetPhases
<1>. QED
  BY <1>1, <1>2, <1>3 DEF IInv

\* Every flash operation, boot and power loss preserves the invariant.
LEMMA StepInv == IInv /\ [Next]_vars => IInv'
  BY TypeStep, WholeStep, RewritingStep, SavedStep, SoundStep DEF IInv

\* The slots, the metadata and the firmware's variables agree at every put of
\* a commit, of a recovery and of a factory reset, whatever failed before.
THEOREM ConfigInvariant == Spec => []IInv
<1>. QED
  BY InitInv, StepInv, PTL DEF Spec

\* The namespaces and the firmware's variables keep their types.
THEOREM ConfigTypeCorrect == Spec => []TypeOK
<1>1. IInv => TypeOK
  BY DEF IInv
<1>. QED
  BY <1>1, ConfigInvariant, PTL

\* However often power or puts fail, load_config never gets a half-written
\* configuration.
THEOREM ConfigNeverBootsTorn == Spec => []NeverBootsTorn
<1>1. IInv => NeverBootsTorn
  BY BootIsConfig, ConfigAssumption DEF IInv, NeverBootsTorn
<1>. QED
  BY <1>1, ConfigInvariant, PTL

\* A save that reported success is what the next boot loads.
THEOREM ConfigSavedIsDurable == Spec => []SavedIsDurable
<1>1. IInv => SavedIsDurable
  BY DEF IInv, SavedIsDurable, Saved, TypeOK, BootConfig, LoadedSlot,
         RequestedSlot, RollbackPending
<1>. QED
  BY <1>1, ConfigInvariant, PTL

\* Without failing puts the firmware runs on what it would boot with.
THEOREM ConfigRunsOnBootConfig == Spec => []RunsOnBootConfig
<1>1. IInv => RunsOnBootConfig
  <2> SUFFICES ASSUME IInv, failures = 0, pc = "ready", slot[ramSlot].valid
               PROVE  BootConfig = committed
    BY DEF RunsOnBootConfig
  <2>1. ~pending /\ slot[ramSlot].val = committed
    BY DEF IInv, Sound, MarkFollowsSave, RunsOnSlot, ResetPhases
  <2>2. active = ramSlot \/ ~slot[active].valid
    BY DEF IInv, Sound, RunsOnSlot, ResetPhases
  <2>3. LoadedSlot = ramSlot
    BY <2>1, <2>2 DEF IInv, TypeOK, LoadedSlot, RequestedSlot, RollbackPending,
                      Slots, Other
  <2>. QED
    BY <2>1, <2>3 DEF BootConfig
<1>. QED
  BY <1>1, ConfigInvariant, PTL

\* A factory reset that ran to its end leaves nothing to boot from.
THEOREM ConfigResetErases == Spec => []ResetErases
<1>1. IInv => ResetErases
  BY LoadedIsSlot DEF IInv, ResetErases, Sound, Erased, BootConfig, Slots
<1>. QED
  BY <1>1, ConfigInvariant, PTL


\* What a boot would load changes at the commit point only.
LEMMA AtomicStep ==
  ASSUME IInv, [Next]_vars, failures' = 0, BootConfig' # BootConfig
  PROVE  \/ pc = "commit_pending" /\ BootConfig' = candidate
         \/ pc \in ResetPhases
         \/ ~slot[ramSlot].valid
<1> DEFINE Goal == \/ pc = "commit_pending" /\ BootConfig' = candidate
                   \/ pc \in ResetPhases
<1> SUFFICES ASSUME slot[ramSlot].valid PROVE Goal
  OBVIOUS
<1>b. slot[ramSlot].valid
  OBVIOUS
<1>1. CASE Boot
  BY <1>1 DEF Boot, nvs, BootConfig, LoadedSlot, RequestedSlot, RollbackPending
<1>2. CASE RecoverActive
  <2>1. pending /\ target = Other(ramSlot) /\ ramSlot \in Slots
    BY <1>2 DEF RecoverActive, IInv, Sound, MarkFollowsSave, TypeOK, SavePhases
  <2>2. pending' /\ target' = target /\ slot'[ramSlot] = slot[ramSlot] /\ legacy' = legacy
    BY <1>2, <2>1, OtherSlot DEF RecoverActive, IInv, TypeOK
  <2>3. LoadedSlot = ramSlot /\ LoadedSlot' = ramSlot
    BY <2>1, <2>2, OtherSlot DEF LoadedSlot, RequestedSlot, RollbackPending
  <2>. QED
    BY <2>2, <2>3 DEF BootConfig
<1>3. CASE RecoverActiveFails
  BY <1>3 DEF RecoverActiveFails, Fail, IInv, TypeOK
<1>4. CASE RecoverPending
  <2>1. pending /\ target = Other(ramSlot) /\ ramSlot \in Slots /\ active = ramSlot
    BY <1>4 DEF RecoverPending, IInv, Sound, MarkFollowsSave, TypeOK, SavePhases
  <2>2. LoadedSlot = ramSlot
    BY <2>1, OtherSlot DEF LoadedSlot, RequestedSlot, RollbackPending
  <2>3. ~pending' /\ active' = ramSlot /\ slot' = slot /\ legacy' = legacy
    BY <1>4, <2>1 DEF RecoverPending
  <2>4. LoadedSlot' = ramSlot
    BY <2>3, <1>b DEF LoadedSlot, RequestedSlot, RollbackPending
  <2>. QED
    BY <2>2, <2>3, <2>4 DEF BootConfig
<1>5. CASE RecoverPendingFails
  BY <1>5 DEF RecoverPendingFails, Fail, IInv, TypeOK
<1>6. ASSUME NEW c \in Configs, BeginSave(c) PROVE Goal
  BY <1>6 DEF BeginSave, nvs, BootConfig, LoadedSlot, RequestedSlot, RollbackPending
<1>7. CASE MarkTarget
  <2>1. ~pending
    BY <1>7 DEF MarkTarget, IInv, Sound, MarkFollowsSave
  <2>. QED
    BY <1>7, <2>1 DEF MarkTarget, BootConfig, LoadedSlot, RequestedSlot, RollbackPending
<1>8. CASE MarkTargetFails
  BY <1>8 DEF MarkTargetFails, Fail, IInv, TypeOK
<1>9. CASE MarkPending
  <2>1. ~pending /\ target = Other(ramSlot) /\ ramSlot \in Slots
    BY <1>9 DEF MarkPending, IInv, Sound, MarkFollowsSave, TypeOK, SavePhases
  <2>2. active = ramSlot \/ ~slot[active].valid
    BY <1>9, <1>b DEF MarkPending, IInv, Sound, RunsOnSlot, ResetPhases
  <2>3. LoadedSlot = ramSlot
    BY <2>1, <2>2, <1>b DEF IInv, TypeOK, LoadedSlot, RequestedSlot, RollbackPending,
                            Slots, Other
  <2>4. pending' /\ target' = target /\ slot' = slot /\ legacy' = legacy
    BY <1>9 DEF MarkPending
  <2>5. LoadedSlot' = ramSlot
    BY <2>1, <2>4, OtherSlot DEF LoadedSlot, RequestedSlot, RollbackPending
  <2>. QED
    BY <2>3, <2>4, <2>5 DEF BootConfig
<1>10. CASE MarkPendingFails
  BY <1>10 DEF MarkPendingFails, Abort, SaveFails, IInv, TypeOK
<1>11. CASE Invalidate
  <2>1. pending /\ target = Other(ramSlot) /\ ramSlot \in Slots
    BY <1>11 DEF Invalidate, IInv, Sound, MarkFollowsSave, TypeOK, SavePhases
  <2>2. pending' /\ target' = target /\ slot'[ramSlot] = slot[ramSlot] /\ legacy' = legacy
    BY <1>11, <2>1, OtherSlot DEF Invalidate, IInv, TypeOK
  <2>3. LoadedSlot = ramSlot /\ LoadedSlot' = ramSlot
    BY <2>1, <2>2, OtherSlot DEF LoadedSlot, RequestedSlot, RollbackPending
  <2>. QED
    BY <2>2, <2>3 DEF BootConfig
<1>12. CASE InvalidateFails
  BY <1>12 DEF InvalidateFails, Abort, SaveFails, IInv, TypeOK
<1>13. CASE ClearSlot
  <2>1. pending /\ target = Other(ramSlot) /\ ramSlot \in Slots
    BY <1>13 DEF ClearSlot, IInv, Sound, MarkFollowsSave, TypeOK, SavePhases
  <2>2. pending' /\ target' = target /\ slot'[ramSlot] = slot[ramSlot] /\ legacy' = legacy
    BY <1>13, <2>1, OtherSlot DEF ClearSlot, IInv, TypeOK
  <2>3. LoadedSlot = ramSlot /\ LoadedSlot' = ramSlot
    BY <2>1, <2>2, OtherSlot DEF LoadedSlot, RequestedSlot, RollbackPending
  <2>. QED
    BY <2>2, <2>3 DEF BootConfig
<1>14. CASE ClearSlotFails
  BY <1>14 DEF ClearSlotFails, Fail, IInv, TypeOK
<1>15. CASE WriteFields
  <2>1. pending /\ target = Other(ramSlot) /\ ramSlot \in Slots
    BY <1>15 DEF WriteFields, IInv, Sound, MarkFollowsSave, TypeOK, SavePhases
  <2>2. pending' /\ target' = target /\ slot'[ramSlot] = slot[ramSlot] /\ legacy' = legacy
    BY <1>15, <2>1, OtherSlot DEF WriteFields, IInv, TypeOK
  <2>3. LoadedSlot = ramSlot /\ LoadedSlot' = ramSlot
    BY <2>1, <2>2, OtherSlot DEF LoadedSlot, RequestedSlot, RollbackPending
  <2>. QED
    BY <2>2, <2>3 DEF BootConfig
<1>16. CASE WriteFieldsFails
  BY <1>16 DEF WriteFieldsFails, IInv, TypeOK
<1>17. CASE Validate
  <2>1. pending /\ target = Other(ramSlot) /\ ramSlot \in Slots
    BY <1>17 DEF Validate, SaveFails, IInv, Sound, MarkFollowsSave, TypeOK, SavePhases
  <2>2. pending' /\ target' = target /\ slot'[ramSlot] = slot[ramSlot] /\ legacy' = legacy
    BY <1>17, <2>1, OtherSlot DEF Validate, SaveFails, IInv, TypeOK
  <2>3. LoadedSlot = ramSlot /\ LoadedSlot' = ramSlot
    BY <2>1, <2>2, OtherSlot DEF LoadedSlot, RequestedSlot, RollbackPending
  <2>. QED
    BY <2>2, <2>3 DEF BootConfig
<1>18. CASE ValidateFails
  BY <1>18 DEF ValidateFails, Abort, SaveFails, IInv, TypeOK
<1>19. CASE CommitActive
  <2>1. pending /\ target = Other(ramSlot) /\ ramSlot \in Slots
    BY <1>19 DEF CommitActive, IInv, Sound, MarkFollowsSave, TypeOK, SavePhases
  <2>2. pending' /\ target' = target /\ slot'[ramSlot] = slot[ramSlot] /\ legacy' = legacy
    BY <1>19, <2>1, OtherSlot DEF CommitActive, IInv, TypeOK
  <2>3. LoadedSlot = ramSlot /\ LoadedSlot' = ramSlot
    BY <2>1, <2>2, OtherSlot DEF LoadedSlot, RequestedSlot, RollbackPending
  <2>. QED
    BY <2>2, <2>3 DEF BootConfig
<1>20. CASE CommitActiveFails
  BY <1>20 DEF CommitActiveFails, Fail, IInv, TypeOK
<1>21. CASE CommitPending
  <2>1. pc = "commit_pending" /\ ok /\ active = Other(ramSlot) /\ ramSlot \in Slots
    BY <1>21 DEF CommitPending, IInv, Sound, MarkFollowsSave, TypeOK, SavePhases, Rewriting
  <2>2. slot[active].valid /\ slot[active].val = candidate
    BY <2>1 DEF IInv, Rewriting
  <2>3. ~pending' /\ active' = active /\ slot' = slot
    BY <1>21 DEF CommitPending
  <2>4. LoadedSlot' = active
    BY <2>2, <2>3 DEF LoadedSlot, RequestedSlot, RollbackPending
  <2>. QED
    BY <2>1, <2>2, <2>3, <2>4 DEF BootConfig
<1>22. CASE CommitPendingFails
  BY <1>22 DEF CommitPendingFails, Abort, SaveFails, IInv, TypeOK
<1>23. CASE BeginReset
  BY <1>23 DEF BeginReset, nvs, BootConfig, LoadedSlot, RequestedSlot, RollbackPending
<1>24. CASE ResetLegacy
  BY <1>24 DEF ResetLegacy, ResetPhases
<1>25. CASE ResetLegacyFails
  BY <1>25 DEF ResetLegacyFails, Fail, IInv, TypeOK
<1>26. CASE ResetSlot0
  BY <1>26 DEF ResetSlot0, ResetSlot, ResetPhases
<1>27. CASE ResetSlot0Fails
  BY <1>27 DEF ResetSlot0Fails, Fail, IInv, TypeOK
<1>28. CASE ResetSlot1
  BY <1>28 DEF ResetSlot1, ResetSlot, ResetPhases
<1>29. CASE ResetSlot1Fails
  BY <1>29 DEF ResetSlot1Fails, Fail, IInv, TypeOK
<1>30. CASE ResetMeta
  BY <1>30 DEF ResetMeta, ResetPhases
<1>31. CASE ResetMetaFails
  BY <1>31 DEF ResetMetaFails, Fail, IInv, TypeOK
<1>32. CASE PowerLoss
  BY <1>32 DEF PowerLoss, nvs, BootConfig, LoadedSlot, RequestedSlot, RollbackPending
<1>33. CASE UNCHANGED vars
  BY <1>33 DEF vars, nvs, BootConfig, LoadedSlot, RequestedSlot, RollbackPending
<1>. QED
  BY <1>1, <1>2, <1>3, <1>4, <1>5, <1>6, <1>7, <1>8, <1>9, <1>10, <1>11, <1>12, <1>13,
     <1>14, <1>15, <1>16, <1>17, <1>18, <1>19, <1>20, <1>21, <1>22, <1>23, <1>24, <1>25,
     <1>26, <1>27, <1>28, <1>29, <1>30, <1>31, <1>32, <1>33 DEF Next, BootNext,
     SaveNext, ResetNext

\* A commit is atomic under power loss, for every configuration.
THEOREM ConfigPowerLossAtomic == Spec => PowerLossAtomic
<1>1. IInv /\ [Next]_vars =>
        [failures' = 0 /\ BootConfig' # BootConfig =>
            \/ pc = "commit_pending" /\ BootConfig' = candidate
            \/ pc \in ResetPhases
            \/ ~slot[ramSlot].valid]_vars
  BY AtomicStep
<1>. QED
  BY <1>1, ConfigInvariant, PTL DEF Spec, PowerLossAtomic

-----------------------------------------------------------------------------
\* The counter: remainders of values in its range and just outside it.
LEMMA ModFacts ==
    ASSUME NEW W \in Nat \ {0}
    PROVE  /\ \A a \in Int : a % W \in 0..W - 1
           /\ \A a \in 0..W - 1 : a % W = a
           /\ \A a \in -W..-1 : a % W = a + W
           /\ W % W = 0
<1>1. \A a \in Int : a % W \in 0..W - 1
  OBVIOUS
<1>2. ASSUME NEW a \in 0..W - 1 PROVE a % W = a
  OBVIOUS
<1>3. ASSUME NEW a \in -W..-1 PROVE a % W = a + W
  OBVIOUS
<1>4. W % W = 0
  OBVIOUS
<1> QED
  BY <1>1, <1>2, <1>3, <1>4

\* What an unsigned difference measures.
Elapsed(t, s) == (t - s) % Wrap

\* A tick adds one to it until it has gone all the way around.
LEMMA ElapsedTick ==
    ASSUME NEW t \in 0..Wrap - 1, NEW s \in 0..Wrap - 1,
           Elapsed(t, s) + 1 < Wrap
    PROVE  /\ (t + 1) % Wrap \in 0..Wrap - 1
           /\ Elapsed(t, s) \in 0..Wrap - 1 /\ Elapsed(t, t) = 0
           /\ Elapsed((t + 1) % Wrap, s) = Elapsed(t, s) + 1
<1>1. Wrap \in Nat \ {0}
  BY WifiAssumption DEF WifiAssumption
<1>2. \A a \in 0..Wrap - 1 : a % Wrap = a
  BY <1>1, ModFacts
<1>3. \A a \in -Wrap..-1 : a % Wrap = a + Wrap
  BY <1>1, ModFacts
<1>4. Wrap % Wrap = 0
  BY <1>1, ModFacts
<1>5. t - s \in -Wrap..Wrap - 1
  BY <1>1
<1>6. Elapsed(t, s) = IF t >= s THEN t - s ELSE t - s + Wrap
  BY <1>1, <1>2, <1>3 DEF Elapsed
<1>7. (t + 1) % Wrap = IF t = Wrap - 1 THEN 0 ELSE t + 1
  <2>1. CASE t = Wrap - 1
    BY <1>1, <1>4, <2>1
  <2>2. CASE t # Wrap - 1
    <3>1. t + 1 \in 0..Wrap - 1
      BY <1>1, <2>2
    <3> QED
      BY <1>2, <2>2, <3>1
  <2> QED
    BY <2>1, <2>2
<1>8. (t + 1) % Wrap \in 0..Wrap - 1
  BY <1>1, <1>7
<1>9. \A u \in 0..Wrap - 1 : Elapsed(u, s) = IF u >= s THEN u - s ELSE u - s + Wrap
  BY <1>1, <1>2, <1>3 DEF Elapsed
<1>10. Elapsed((t + 1) % Wrap, s) = Elapsed(t, s) + 1
  BY <1>1, <1>6, <1>7, <1>8, <1>9
<1>11. Elapsed(t, t) = 0
  BY <1>1, <1>2 DEF Elapsed
<1> QED
  BY <1>1, <1>6, <1>8, <1>10, <1>11

\* r has the profiles of S up to n, in their priority.
Prepared(r, S, n) ==
    /\ r \in Seq(Profiles) /\ Len(r) <= n
    /\ \A p \in S : p <= n => \E j \in 1..Len(r) : r[j] = p
    /\ \A i \in 1..Len(r) :
          /\ r[i] \in S /\ r[i] <= n
          /\ \A p \in S : p < r[i] <=> \E j \in 1..i - 1 : r[j] = p

\* The append of prepare_round, called for one profile after the other.
LEMMA AppendFacts ==
    ASSUME NEW S \in SUBSET Profiles, NEW n \in Profiles, NEW r, Prepared(r, S, n - 1)
    PROVE  Prepared(AppendProfile(r, n, S), S, n)
<1> USE DEF Prepared, Profiles
<1>1. CASE n \notin S
  <2>1. \A p \in S : p <= n => p <= n - 1
    BY <1>1
  <2>2. AppendProfile(r, n, S) = r
    BY <1>1 DEF AppendProfile
  <2> QED
    BY <2>1, <2>2
<1>2. CASE n \in S
  <2> DEFINE R == Append(r, n)
  <2>1. AppendProfile(r, n, S) = R
    BY <1>2 DEF AppendProfile
  <2>2. /\ R \in Seq(Profiles) /\ Len(R) = Len(r) + 1 /\ R[Len(R)] = n /\ Len(r) \in Nat
        /\ \A i \in 1..Len(r) : R[i] = r[i]
    OBVIOUS
  <2>3. \A p \in S : p < n <=> \E j \in 1..Len(r) : r[j] = p
    OBVIOUS
  <2> HIDE DEF R
  <2>4. \A p \in S : p <= n => \E j \in 1..Len(R) : R[j] = p
    <3> SUFFICES ASSUME NEW p \in S, p <= n PROVE \E j \in 1..Len(R) : R[j] = p
      OBVIOUS
    <3>1. CASE p = n
      BY <2>2, <3>1
    <3>2. CASE p < n
      BY <2>2, <2>3, <3>2
    <3> QED
      BY <3>1, <3>2
  <2>5. ASSUME NEW i \in 1..Len(R)
        PROVE  /\ R[i] \in S /\ R[i] <= n
               /\ \A p \in S : p < R[i] <=> \E j \in 1..i - 1 : R[j] = p
    <3>1. CASE i = Len(R)
      BY <1>2, <2>2, <2>3, <3>1
    <3>2. CASE i # Len(R)
      BY <2>2, <2>5, <3>2
    <3> QED
      BY <3>1, <3>2
  <2> QED
    BY <2>1, <2>2, <2>4, <2>5
<1> QED
  BY <1>1, <1>2

\* What prepare_round produces: all available profiles, in their priority,
\* whichever was the last good one.
LEMMA RoundFacts ==
    ASSUME NEW S \in SUBSET Profiles, NEW lastGood
    PROVE  /\ Round(S, lastGood) = Round(S, None)
           /\ Prepared(Round(S, None), S, 3)
           /\ S # {} => Len(Round(S, None)) >= 1
<1>1. Round(S, lastGood) = Round(S, None)
  BY DEF Round
<1>2. Prepared(<<>>, S, 0)
  BY DEF Prepared, Profiles
<1>3. Prepared(Round(S, None), S, 3)
  <2>1. Prepared(AppendProfile(<<>>, 1, S), S, 1)
    BY <1>2, AppendFacts DEF Profiles
  <2>2. Prepared(AppendProfile(AppendProfile(<<>>, 1, S), 2, S), S, 2)
    BY <2>1, AppendFacts DEF Profiles
  <2> QED
    BY <2>2, AppendFacts DEF Profiles, Round
<1>4. S # {} => Len(Round(S, None)) >= 1
  <2> SUFFICES ASSUME S # {} PROVE Len(Round(S, None)) >= 1
    OBVIOUS
  <2>1. PICK p \in S : TRUE
    OBVIOUS
  <2>2. \E j \in 1..Len(Round(S, None)) : TRUE
    BY <1>3, <2>1 DEF Prepared, Profiles
  <2> QED
    BY <1>3, <2>2 DEF Prepared
<1> QED
  BY <1>1, <1>3, <1>4

-----------------------------------------------------------------------------
Policies == [phase : {"idle", "attempting", "waiting", "connected"},
             order : Seq(Profiles), index : 1..3,
             active : Profiles \cup {None}, lastGood : Profiles \cup {None},
             started : 0..Wrap - 1, nextRound : 0..Wrap - 1,
             backoff : FirstBackoff..MaxBackoff]

WifiTypes ==
    /\ now \in 0..Wrap - 1 /\ ssids \subseteq Profiles
    /\ policy \in Policies
    /\ tried \in Seq(Profiles) /\ age \in Nat /\ gap \in 0..MaxGap

\* The policy is waiting for a profile, and service_wifi asks it.
Trying == policy.phase = "attempting" /\ ~Suspended

\* The round under way is one over the current configuration.
RoundInv ==
    Trying =>
       /\ policy.active \in ssids
       /\ policy.order = Round(ssids, None)
       /\ policy.index \in 1..Len(policy.order)
       /\ Len(tried) = policy.index
       /\ \A i \in 1..policy.index : tried[i] = policy.order[i]

\* The counter's difference is the age of the attempt, up to the cap on age,
\* and service_wifi has not missed the time-out for longer than MaxGap.
ClockInv ==
    Trying =>
       /\ age < Timeout + MaxBackoff => Elapsed(now, policy.started) = age
       /\ age >= Timeout + MaxBackoff => Elapsed(now, policy.started) >= Timeout
       /\ Elapsed(now, policy.started) < Timeout + gap

WifiInv == WifiTypes /\ RoundInv /\ ClockInv

\* configure leaves an attempt alone whose profile is still there.
LEMMA CurrentFacts ==
    ASSUME WifiTypes, RoundInv
    PROVE  /\ Current \in Policies
           /\ policy.phase = "attempting" /\ ~Suspended => Current.phase = "attempting"
           /\ Current.phase = "attempting" =>
                 policy.phase = "attempting" /\ Current.active \in ssids
           /\ Current.order = policy.order /\ Current.index = policy.index
           /\ Current.started = policy.started /\ Current.backoff = policy.backoff
<1>1. policy \in Policies
  BY DEF WifiTypes
<1>2. CASE policy.active \in ssids
  BY <1>1, <1>2 DEF Current, Configured, Policies
<1>3. CASE policy.active \notin ssids
  BY <1>1, <1>3 DEF Current, Configured, Policies, RoundInv, Trying
<1> QED
  BY <1>2, <1>3

\* The wait that update goes on with.
LEMMA StartStep ==
    ASSUME WifiInv, Service, NEW p \in Policies,
           NEW index \in 1..3, index <= Len(Round(ssids, None)),
           Start(p, Round(ssids, None), index),
           tried' \in Seq(Profiles), Len(tried') = index,
           \A i \in 1..index : tried'[i] = Round(ssids, None)[i]
    PROVE  WifiInv'
<1> USE DEF WifiInv, WifiTypes
<1>1. /\ now' = now /\ ssids' = ssids /\ gap' = 0 /\ age' = 0
      /\ policy' = [p EXCEPT !.order = Round(ssids, None), !.index = index,
                             !.active = Round(ssids, None)[index],
                             !.started = now, !.phase = "attempting"]
  BY DEF Service, Start, envVars
<1>2. Prepared(Round(ssids, None), ssids, 3)
  BY RoundFacts
<1>3. Round(ssids, None)[index] \in ssids /\ Round(ssids, None) \in Seq(Profiles)
  BY <1>2 DEF Prepared
<1>4. /\ policy' \in Policies /\ policy'.order = Round(ssids, None) /\ policy'.index = index
      /\ policy'.active \in ssids /\ policy'.started = now
  BY <1>1, <1>3 DEF Policies
<1>5. WifiTypes'
  BY <1>1, <1>4, WifiAssumption DEF WifiAssumption
<1>6. RoundInv'
  BY <1>1, <1>3, <1>4 DEF RoundInv
<1>7. ClockInv'
  <2>1. Elapsed(now, now) = 0
    BY ModFacts, WifiAssumption DEF Elapsed, WifiAssumption
  <2>2. Elapsed(now', policy'.started) = 0
    BY <1>1, <1>4, <2>1
  <2>3. Timeout \in Nat \ {0} /\ MaxBackoff \in Nat
    BY WifiAssumption DEF WifiAssumption
  <2> QED
    BY <1>1, <2>2, <2>3 DEF ClockInv
<1> QED
  BY <1>5, <1>6, <1>7

\* The policy is asked and starts nothing.
LEMMA ServiceStep ==
    ASSUME WifiInv, ServiceWifi
    PROVE  WifiInv'
<1> USE DEF WifiInv
<1>1. /\ Current \in Policies
      /\ Current.phase = "attempting" =>
            policy.phase = "attempting" /\ Current.active \in ssids
      /\ Current.order = policy.order /\ Current.index = policy.index
      /\ Current.started = policy.started /\ Current.backoff = policy.backoff
  BY CurrentFacts
<1>2. /\ ~Suspended /\ gap' = 0 /\ now' = now /\ ssids' = ssids /\ ~Suspended'
  BY DEF ServiceWifi, ServiceJoined, ServiceUnconfigured, StartRound, NextProfile,
     RoundFails, ServiceWaits, Service, Suspended, envVars
<1>3. 0 \in 0..MaxGap /\ ssids \in SUBSET Profiles
  BY WifiAssumption DEF WifiAssumption, WifiTypes
<1>4. ASSUME policy' \in Policies, policy'.phase # "attempting",
             tried' \in Seq(Profiles), age' \in Nat
      PROVE  WifiInv'
  BY <1>2, <1>3, <1>4 DEF WifiTypes, RoundInv, ClockInv, Trying
<1>5. CASE ServiceJoined
  <2>1. policy' \in Policies /\ policy'.phase = "connected"
    <3>1. FirstBackoff \in FirstBackoff..MaxBackoff
      BY WifiAssumption DEF WifiAssumption
    <3>2. NoteConnected(Current, station, ssids) \in Policies
      BY <1>1, <1>3, <3>1 DEF NoteConnected, Policies
    <3> DEFINE noted == NoteConnected(Current, station, ssids)
    <3> HIDE DEF noted
    <3>3. policy' = [noted EXCEPT !.lastGood = IF noted.active \in ssids THEN noted.active ELSE @,
                                  !.phase = "connected", !.backoff = FirstBackoff]
      BY <1>5 DEF ServiceJoined, noted
    <3>4. noted \in Policies
      BY <3>2 DEF noted
    <3> QED
      BY <3>1, <3>3, <3>4 DEF Policies
  <2> QED
    BY <1>4, <1>5, <2>1 DEF ServiceJoined, WifiTypes
<1>6. CASE ServiceUnconfigured
  <2>1. policy' \in Policies /\ policy'.phase = "idle"
    BY <1>1, <1>6 DEF ServiceUnconfigured, Policies
  <2> QED
    BY <1>4, <1>6, <2>1 DEF ServiceUnconfigured, WifiTypes
<1>7. CASE StartRound
  <2>1. /\ Round(ssids, Current.lastGood) = Round(ssids, None)
        /\ Prepared(Round(ssids, None), ssids, 3)
        /\ Len(Round(ssids, None)) >= 1
    BY <1>3, <1>7, RoundFacts DEF StartRound
  <2>2. Service /\ Start(Current, Round(ssids, None), 1) /\ tried' = <<Round(ssids, None)[1]>>
    BY <1>7, <2>1 DEF StartRound
  <2>3. Round(ssids, None)[1] \in Profiles
    BY <1>3, <2>1 DEF Prepared
  <2>4. /\ tried' \in Seq(Profiles) /\ Len(tried') = 1
        /\ \A i \in 1..1 : tried'[i] = Round(ssids, None)[i]
    BY <2>2, <2>3
  <2> QED
    BY <1>1, <2>1, <2>2, <2>4, StartStep
<1>8. CASE NextProfile
  <2>1. /\ Service /\ Current.phase = "attempting" /\ Current.index < Len(Current.order)
        /\ Start(Current, Current.order, Current.index + 1)
        /\ tried' = Append(tried, Current.order[Current.index + 1])
    BY <1>8 DEF NextProfile, Abandon
  <2>2. /\ policy.order = Round(ssids, None) /\ policy.index \in 1..Len(policy.order)
        /\ Len(tried) = policy.index
        /\ \A i \in 1..policy.index : tried[i] = policy.order[i]
    BY <1>1, <1>2, <2>1 DEF RoundInv, Trying
  <2>3. Prepared(Round(ssids, None), ssids, 3)
    BY <1>3, RoundFacts
  <2>4. policy.index + 1 \in 1..3 /\ policy.index + 1 <= Len(Round(ssids, None))
    BY <1>1, <2>1, <2>2, <2>3 DEF Prepared
  <2>5. Round(ssids, None)[policy.index + 1] \in Profiles
    BY <1>3, <2>3, <2>4 DEF Prepared
  <2>6. tried \in Seq(Profiles)
    BY DEF WifiTypes
  <2>7. /\ tried' \in Seq(Profiles) /\ Len(tried') = policy.index + 1
        /\ \A i \in 1..policy.index + 1 : tried'[i] = Round(ssids, None)[i]
    BY <1>1, <2>1, <2>2, <2>4, <2>5, <2>6
  <2> QED
    BY <1>1, <2>1, <2>2, <2>4, <2>7, StartStep
<1>9. CASE RoundFails
  <2>1. (now + Current.backoff) % Wrap \in 0..Wrap - 1
    <3>1. Current.backoff \in Int /\ now \in Int /\ Wrap \in Nat \ {0}
      BY <1>1, WifiAssumption DEF WifiAssumption, WifiTypes, Policies
    <3>2. now + Current.backoff \in Int
      BY <3>1
    <3> QED
      BY <3>1, <3>2, ModFacts
  <2>2. Doubled(Current.backoff) \in FirstBackoff..MaxBackoff
    <3>1. Current.backoff \in FirstBackoff..MaxBackoff
      BY <1>1 DEF Policies
    <3>2. FirstBackoff \in Nat /\ MaxBackoff \in Nat
      BY WifiAssumption DEF WifiAssumption
    <3> QED
      BY <3>1, <3>2 DEF Doubled
  <2>3. policy' \in Policies /\ policy'.phase = "waiting"
    BY <1>1, <1>9, <2>1, <2>2 DEF RoundFails, Policies
  <2> QED
    BY <1>4, <1>9, <2>3 DEF RoundFails
<1>10. CASE ServiceWaits
  <2>1. policy' = Current /\ UNCHANGED <<tried, age>>
    BY <1>10 DEF ServiceWaits
  <2>2. CASE Current.phase # "attempting"
    BY <1>1, <1>4, <2>1, <2>2 DEF WifiTypes
  <2>3. CASE Current.phase = "attempting"
    <3>1. Elapsed(now, policy.started) < Timeout
      <4>1. ~TimedOut(now, Current.started)
        BY <1>10, <2>3 DEF ServiceWaits, Abandon
      <4>2. Elapsed(now, policy.started) \in Int
        <5>1. now \in Int /\ policy.started \in Int /\ Wrap \in Nat \ {0}
          BY WifiAssumption DEF WifiTypes, Policies, WifiAssumption
        <5>2. now - policy.started \in Int
          BY <5>1
        <5>3. (now - policy.started) % Wrap \in 0..Wrap - 1
          BY <5>1, <5>2, ModFacts
        <5> QED
          BY <5>3 DEF Elapsed
      <4> QED
        BY <1>1, <4>1, <4>2, WifiAssumption DEF TimedOut, Elapsed, WifiAssumption
    <3>2. Trying
      BY <1>1, <1>2, <2>3 DEF Trying
    <3>3. WifiTypes' /\ RoundInv'
      BY <1>1, <1>2, <1>3, <2>1, <2>3, <3>2 DEF WifiTypes, RoundInv
    <3>4. Elapsed(now', policy'.started) = Elapsed(now, policy.started) /\ age' = age
      BY <1>1, <1>2, <2>1
    <3>5. Timeout + gap' = Timeout
      BY <1>2, WifiAssumption DEF WifiAssumption
    <3> QED
      BY <3>1, <3>2, <3>3, <3>4, <3>5 DEF ClockInv
  <2> QED
    BY <2>2, <2>3
<1> QED
  BY <1>5, <1>6, <1>7, <1>8, <1>9, <1>10 DEF ServiceWifi

\* request_wifi_now ends every attempt.
LEMMA ResetStep ==
    ASSUME WifiInv, RequestWifiNow(ssids), now' = now, ssids' = ssids
    PROVE  WifiInv'
<1>1. policy \in Policies /\ ssids \subseteq Profiles /\ now \in 0..Wrap - 1
  BY DEF WifiInv, WifiTypes
<1>2. /\ 0 \in 0..Wrap - 1 /\ 0 \in 0..MaxGap
      /\ FirstBackoff \in FirstBackoff..MaxBackoff
  BY WifiAssumption DEF WifiAssumption
<1>3. Configured(policy, ssids).lastGood \in Profiles \cup {None}
  BY <1>1 DEF Configured, Policies
<1>4. policy' = [phase |-> "idle", order |-> <<>>, index |-> 1, active |-> None,
                 lastGood |-> Configured(policy, ssids).lastGood, started |-> 0,
                 nextRound |-> 0, backoff |-> FirstBackoff]
  BY DEF RequestWifiNow, ManualReset, NewPolicy
<1>5. policy' \in Policies /\ policy'.phase = "idle"
  BY <1>2, <1>3, <1>4 DEF Policies
<1> QED
  BY <1>1, <1>2, <1>5 DEF RequestWifiNow, WifiInv, WifiTypes, RoundInv, ClockInv, Trying

\* Time goes on.
LEMMA TickStep ==
    ASSUME WifiInv, Tick
    PROVE  WifiInv'
<1> USE DEF WifiInv
<1>1. /\ now \in 0..Wrap - 1 /\ policy \in Policies /\ age \in Nat /\ gap \in 0..MaxGap
      /\ Wrap \in Nat \ {0} /\ Timeout \in Nat \ {0} /\ MaxBackoff \in Nat /\ MaxGap \in Nat
  BY WifiAssumption DEF WifiTypes, WifiAssumption
<1>2. /\ now' = (now + 1) % Wrap /\ policy' = policy /\ tried' = tried /\ ssids' = ssids
      /\ Suspended' = Suspended
      /\ age' = IF age < Timeout + MaxBackoff THEN age + 1 ELSE age
  BY DEF Tick, envVars, Suspended
<1>3. now' \in 0..Wrap - 1
  BY <1>1, <1>2, ModFacts
<1>4. /\ gap' \in 0..MaxGap /\ age' \in Nat
      /\ ~Suspended => gap' = gap + 1
  BY <1>1, <1>2 DEF Tick
<1>5. WifiTypes'
  BY <1>2, <1>3, <1>4 DEF WifiTypes
<1>6. RoundInv'
  BY <1>2 DEF RoundInv, Trying
<1>7. ASSUME Trying PROVE ClockInv'
  <2> DEFINE e == Elapsed(now, policy.started)
  <2>1. policy.started \in 0..Wrap - 1
    BY <1>1 DEF Policies
  <2>2. e \in 0..Wrap - 1
    <3>1. now - policy.started \in Int
      BY <1>1, <2>1
    <3> QED
      BY <1>1, <3>1, ModFacts DEF Elapsed
  <2>3. e < Timeout + gap /\ gap <= MaxGap /\ Timeout + MaxGap < Wrap
    <3>1. e < Timeout + gap
      BY <1>7 DEF ClockInv
    <3> QED
      BY <1>1, <3>1, WifiAssumption DEF WifiAssumption
  <2>4. Elapsed(now', policy'.started) = e + 1
    <3>1. e + 1 < Wrap
      BY <1>1, <2>2, <2>3
    <3> QED
      BY <1>1, <1>2, <2>1, <3>1, ElapsedTick
  <2>5. /\ age < Timeout + MaxBackoff => e = age
        /\ age >= Timeout + MaxBackoff => e >= Timeout
    BY <1>7 DEF ClockInv
  <2> HIDE DEF e
  <2>6. gap' = gap + 1
    BY <1>4, <1>7 DEF Trying
  <2> QED
    BY <1>1, <1>2, <2>2, <2>3, <2>4, <2>5, <2>6 DEF ClockInv
<1>8. ~Trying => ClockInv'
  BY <1>2 DEF ClockInv, Trying
<1> QED
  BY <1>5, <1>6, <1>7, <1>8

\* A policy that has not been asked for anything.
LEMMA InitWifiInv == WifiInit => WifiInv
<1> SUFFICES ASSUME WifiInit PROVE WifiInv
  OBVIOUS
<1>1. /\ 0 \in 0..Wrap - 1 /\ 0 \in 0..MaxGap
      /\ FirstBackoff \in FirstBackoff..MaxBackoff
  BY WifiAssumption DEF WifiAssumption
<1>2. policy \in Policies /\ policy.phase = "idle"
  BY <1>1 DEF WifiInit, NewPolicy, Policies, None
<1>3. ssids \subseteq Profiles
  BY DEF WifiInit, Profiles
<1> QED
  BY <1>1, <1>2, <1>3 DEF WifiInit, WifiInv, WifiTypes, RoundInv, ClockInv, Trying

\* The invariant is inductive.
LEMMA NextWifiInv == WifiInv /\ [WifiNext]_wifiVars => WifiInv'
<1> SUFFICES ASSUME WifiInv, [WifiNext]_wifiVars PROVE WifiInv'
  OBVIOUS
<1>1. CASE ServiceWifi
  BY <1>1, ServiceStep
<1>2. CASE ManualRefresh \/ Save \/ ClosePortal
  BY <1>2, ResetStep DEF ManualRefresh, Save, ClosePortal
<1>3. CASE StageNetwork \/ OpenPortal
  BY <1>3 DEF StageNetwork, OpenPortal, WifiInv, WifiTypes, RoundInv, ClockInv, Trying,
     Suspended
<1>4. CASE Tick
  BY <1>4, TickStep
<1>5. CASE Join \/ Roam \/ UNCHANGED wifiVars
  BY <1>5 DEF Join, Roam, wifiVars, envVars, WifiInv, WifiTypes, RoundInv, ClockInv,
     Trying, Suspended
<1> QED
  BY <1>1, <1>2, <1>3, <1>4, <1>5 DEF WifiNext

\* The round under way and its clock, in every reachable state.
THEOREM WifiInvariant == WifiSpec => []WifiInv
<1> QED
  BY InitWifiInv, NextWifiInv, PTL DEF WifiSpec

\* Every round tries the configured networks from the primary on.
THEOREM WifiRoundInPriority == WifiSpec => []RoundInPriority
<1>1. WifiInv => RoundInPriority
  <2> SUFFICES ASSUME WifiInv, Trying PROVE
        \A i \in 1..Len(tried) :
            /\ tried[i] \in ssids
            /\ \A p \in ssids : p < tried[i] <=> \E j \in 1..i - 1 : tried[j] = p
    BY DEF RoundInPriority, Trying
  <2> DEFINE r == Round(ssids, None)
  <2>1. /\ policy.order = r /\ policy.index \in 1..Len(r) /\ Len(tried) = policy.index
        /\ \A i \in 1..policy.index : tried[i] = r[i]
    BY DEF WifiInv, RoundInv
  <2>2. Prepared(r, ssids, 3)
    BY RoundFacts DEF WifiInv, WifiTypes
  <2> HIDE DEF r
  <2>3. Len(tried) \in Nat /\ Len(r) \in Nat /\ Len(tried) <= Len(r)
    BY <2>1, <2>2 DEF Prepared
  <2> SUFFICES ASSUME NEW i \in 1..Len(tried)
               PROVE  /\ tried[i] \in ssids
                      /\ \A p \in ssids : p < tried[i] <=> \E j \in 1..i - 1 : tried[j] = p
    OBVIOUS
  <2>4. tried[i] = r[i] /\ \A j \in 1..i - 1 : tried[j] = r[j]
    BY <2>1, <2>3
  <2>5. /\ r[i] \in ssids
        /\ \A p \in ssids : p < r[i] <=> \E j \in 1..i - 1 : r[j] = p
    BY <2>2, <2>3 DEF Prepared
  <2> QED
    BY <2>4, <2>5
<1> QED
  BY <1>1, WifiInvariant, PTL

\* An attempt ends by the time-out exactly when its true time is up.
THEOREM WifiAttemptLastsTimeout == WifiSpec => AttemptLastsTimeout
<1> DEFINE Ends == ServiceWifi /\ ~joined /\ policy.phase = "attempting" =>
                      (age >= Timeout <=> tried' # tried)
<1>1. WifiInv /\ [WifiNext]_wifiVars => [Ends]_wifiVars
  <2> SUFFICES ASSUME WifiInv, ServiceWifi, ~joined, policy.phase = "attempting"
               PROVE  age >= Timeout <=> tried' # tried
    OBVIOUS
  <2>1. ~Suspended
    BY DEF ServiceWifi, ServiceJoined, ServiceUnconfigured, StartRound, NextProfile,
       RoundFails, ServiceWaits, Service, Suspended
  <2>2. Trying
    BY <2>1 DEF Trying
  <2>3. /\ Current.phase = "attempting" /\ Current.started = policy.started
        /\ ssids # {}
    BY <2>1, <2>2, CurrentFacts DEF WifiInv, RoundInv
  <2>4. Abandon <=> age >= Timeout
    <3>1. /\ age \in Nat /\ Timeout \in Nat /\ MaxBackoff \in Nat
          /\ age < Timeout + MaxBackoff => Elapsed(now, policy.started) = age
          /\ age >= Timeout + MaxBackoff => Elapsed(now, policy.started) >= Timeout
      BY <2>2, WifiAssumption DEF WifiInv, WifiTypes, ClockInv, WifiAssumption
    <3>2. Abandon <=> Elapsed(now, policy.started) >= Timeout
      BY <2>3 DEF Abandon, TimedOut, Elapsed
    <3> QED
      BY <3>1, <3>2
  <2>5. tried \in Seq(Profiles) /\ Len(tried) >= 1
    BY <2>2 DEF WifiInv, WifiTypes, RoundInv
  <2>6. ~RoundDue
    BY <2>3 DEF RoundDue
  <2>7. CASE NextProfile
    <3>1. Abandon /\ tried' = Append(tried, Current.order[Current.index + 1])
      BY <2>7 DEF NextProfile
    <3>2. Len(tried') = Len(tried) + 1
      BY <2>5, <3>1
    <3> QED
      BY <2>4, <2>5, <3>1, <3>2
  <2>8. CASE RoundFails
    BY <2>4, <2>5, <2>8 DEF RoundFails
  <2>9. CASE ServiceWaits
    BY <2>4, <2>9 DEF ServiceWaits
  <2> QED
    BY <2>3, <2>6, <2>7, <2>8, <2>9 DEF ServiceWifi, ServiceJoined, ServiceUnconfigured,
       StartRound
<1> QED
  BY <1>1, WifiInvariant, PTL DEF WifiSpec, AttemptLastsTimeout

\* The station joins profiles, and the flags are flags.
StationInv == reach \subseteq Profiles /\ station \in Profiles \cup {None}

SwitchInv == dirty \in BOOLEAN /\ portal \in BOOLEAN /\ joined \in BOOLEAN

\* The station is told to join the profile the policy has made active.
LEMMA StationStep ==
    ASSUME WifiInv, StationInv, [WifiNext]_wifiVars
    PROVE  StationInv'
<1>1. policy'.active \in Profiles \cup {None}
  BY NextWifiInv DEF WifiInv, WifiTypes, Policies
<1>2. policy \in Policies /\ Current \in Policies
  BY CurrentFacts DEF WifiInv, WifiTypes
<1> USE DEF StationInv
<1>3. CASE StartRound \/ NextProfile
  <2>1. UNCHANGED reach
    BY <1>3 DEF StartRound, NextProfile, Service, envVars
  <2>2. PICK order, index :
           /\ policy' = [Current EXCEPT !.order = order, !.index = index,
                                        !.active = order[index], !.started = now,
                                        !.phase = "attempting"]
           /\ station' = order[index]
    BY <1>3 DEF StartRound, NextProfile, Start
  <2>3. policy'.active = order[index]
    BY <1>2, <2>2 DEF Policies
  <2> QED
    BY <1>1, <2>1, <2>2, <2>3
<1>4. CASE RoundFails
  BY <1>4 DEF RoundFails, Service, envVars
<1>5. CASE ServiceJoined \/ ServiceUnconfigured \/ ServiceWaits
  BY <1>5 DEF ServiceJoined, ServiceUnconfigured, ServiceWaits, Service, envVars
<1>6. CASE ManualRefresh \/ Save \/ ClosePortal
  BY <1>6 DEF ManualRefresh, Save, ClosePortal, RequestWifiNow
<1>7. CASE StageNetwork \/ OpenPortal \/ Tick \/ Join \/ UNCHANGED wifiVars
  BY <1>7 DEF StageNetwork, OpenPortal, Tick, Join, envVars, wifiVars
<1>8. CASE Roam
  BY <1>8 DEF Roam
<1> QED
  BY <1>3, <1>4, <1>5, <1>6, <1>7, <1>8 DEF WifiNext, ServiceWifi

\* The flags stay flags.
LEMMA SwitchStep ==
    ASSUME SwitchInv, [WifiNext]_wifiVars
    PROVE  SwitchInv'
<1> USE DEF SwitchInv
<1>1. CASE ServiceWifi
  <2>1. UNCHANGED <<dirty, portal>> /\ (joined' = FALSE \/ UNCHANGED joined)
    BY <1>1, Zenon
    DEF ServiceWifi, ServiceJoined, ServiceUnconfigured, StartRound, NextProfile, RoundFails,
        ServiceWaits, Start, Service, envVars
  <2> QED
    BY <2>1, Zenon
<1>2. CASE ManualRefresh \/ Save \/ ClosePortal
  BY <1>2, Zenon DEF ManualRefresh, Save, ClosePortal, RequestWifiNow
<1>3. CASE StageNetwork \/ OpenPortal
  BY <1>3, Zenon DEF StageNetwork, OpenPortal
<1>4. CASE Tick \/ Join
  BY <1>4, Zenon DEF Tick, Join, envVars
<1>5. CASE Roam
  <2>1. UNCHANGED <<dirty, portal>> /\ joined' \in BOOLEAN
    BY <1>5, Zenon DEF Roam
  <2> QED
    BY <2>1, Zenon
<1>6. CASE UNCHANGED wifiVars
  BY <1>6, Zenon DEF wifiVars
<1> QED
  BY <1>1, <1>2, <1>3, <1>4, <1>5, <1>6 DEF WifiNext

\* The policy and the station keep their types: the counters stay in their
\* range, the pause between the smallest and the largest, and the station is
\* only ever told to join a profile.
THEOREM WifiTypeCorrect == WifiSpec => []WifiTypeOK
<1>1. WifiInit => StationInv /\ SwitchInv
  <2> SUFFICES ASSUME WifiInit PROVE StationInv /\ SwitchInv
    OBVIOUS
  <2>1. reach \subseteq Profiles /\ station = None
    BY DEF WifiInit
  <2>2. dirty = FALSE /\ portal = FALSE /\ joined = FALSE
    BY DEF WifiInit
  <2>3. SwitchInv
    BY <2>2 DEF SwitchInv
  <2> QED
    BY <2>1, <2>3 DEF StationInv
<1>2. WifiInv /\ StationInv /\ [WifiNext]_wifiVars => StationInv'
  BY StationStep
<1>3. SwitchInv /\ [WifiNext]_wifiVars => SwitchInv'
  BY SwitchStep
<1>4. WifiInv /\ StationInv /\ SwitchInv => WifiTypeOK
  <2> SUFFICES ASSUME WifiInv, StationInv, SwitchInv PROVE WifiTypeOK
    OBVIOUS
  <2>1. {dirty, portal, joined} \subseteq BOOLEAN
    BY Zenon DEF SwitchInv
  <2>2. /\ now \in 0..Wrap - 1 /\ ssids \subseteq Profiles
        /\ policy \in Policies
    BY DEF WifiInv, WifiTypes
  <2>3. reach \subseteq Profiles /\ station \in Profiles \cup {None}
    BY DEF StationInv
  <2> QED
    BY <2>1, <2>2, <2>3, Zenon DEF WifiTypeOK, Policies
<1> QED
  BY <1>1, <1>2, <1>3, <1>4, WifiInvariant, PTL DEF WifiSpec
=============================================================================
