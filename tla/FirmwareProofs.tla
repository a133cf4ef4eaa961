--------------------------- MODULE FirmwareProofs ---------------------------
(***************************************************************************)
(* Theorems about firmware publication, for any number of publishers,      *)
(* downloads, images and versions.                                         *)
(*                                                                         *)
(* The argument is about what may be on disk: every manifest that could    *)
(* survive a power loss must name an image that is certain to survive it.  *)
(* The sync between the two renames establishes this before the manifest   *)
(* is committed, and the publish lock keeps any other publisher from       *)
(* undoing it.                                                             *)
(*                                                                         *)
(* The second half is about the other end, the display that downloads and  *)
(* starts an image (DeviceJobs): for any number of configurations,         *)
(* requests, versions and power losses and any capacity of its queue.      *)
(***************************************************************************)
EXTENDS FirmwarePublish, DeviceJobs, TLAPS

Uncommitted == {"staging", "staged"} \cup Installed

\* Whoever is past the lock holds it.
LockInv == \A p \in Publishers : pc[p] # "idle" => lock = p

LocalsInv ==
    \A p \in Publishers :
        pc[p] # "idle" => version[p] \in Versions /\ image[p] \in Images

\* Every manifest that may survive names an image that certainly survives.
DiskInv ==
    /\ manifest \in diskManifest
    /\ \A v \in Versions : files[v] \in diskFiles[v]
    /\ \A m \in diskManifest : m # None => diskFiles[m.version] = {m.sha256}

\* A version being published is newer than the manifest and is named by no
\* manifest that may survive.
ClaimInv ==
    \A p \in Publishers :
        /\ pc[p] \in Uncommitted =>
              /\ manifest # None => manifest.version < version[p]
              /\ \A m \in diskManifest : m # None => m.version # version[p]
        /\ pc[p] \in {"staging", "staged"} => files[version[p]] = None
        /\ pc[p] \in Installed => files[version[p]] = image[p]
        /\ pc[p] = "durable" => diskFiles[version[p]] = {image[p]}
        /\ pc[p] = "committed" =>
              manifest = [version |-> version[p], sha256 |-> image[p]]

\* What was acknowledged survives.
AckInv ==
    \A v \in acked : \A m \in diskManifest : m # None /\ m.version >= v

\* A download holds a manifest whose image is there and whose version no
\* publisher is about to install or remove.
ReaderInv ==
    \A r \in Readers :
        reader[r] # None =>
            /\ files[reader[r].version] = reader[r].sha256
            /\ \A p \in Publishers :
                  pc[p] \in Uncommitted => version[p] # reader[r].version

\* Without a fault, an unpublished image belongs to a publisher at work.
OrphanInv ==
    ~faulty =>
        \A v \in Versions :
            files[v] # None =>
                \/ manifest # None /\ v <= manifest.version
                \/ \E p \in Publishers : pc[p] \in Installed /\ version[p] = v

FirmwareInv ==
    /\ TypeOK /\ LockInv /\ LocalsInv /\ DiskInv /\ ClaimInv /\ AckInv
    /\ ReaderInv /\ DownloadsSucceed /\ OrphanInv
-----------------------------------------------------------------------------
\* An empty directory satisfies the invariant.
LEMMA InitFirmwareInv == Init => FirmwareInv
<1> SUFFICES ASSUME Init PROVE FirmwareInv
  OBVIOUS
<1> USE DEF Init
<1>1. TypeOK
  BY DEF TypeOK, PublisherStates, Manifests, MaybeImage
<1>2. LockInv /\ LocalsInv /\ ClaimInv /\ DiskInv
  BY DEF LockInv, LocalsInv, ClaimInv, DiskInv, Uncommitted, Installed
<1>3. AckInv /\ ReaderInv /\ DownloadsSucceed /\ OrphanInv
  BY DEF AckInv, ReaderInv, DownloadsSucceed, OrphanInv
<1> QED
  BY <1>1, <1>2, <1>3 DEF FirmwareInv

\* The holder of the lock is the only publisher at work.
LEMMA OnlyHolder ==
    ASSUME LockInv, NEW p \in Publishers, pc[p] # "idle"
    PROVE  \A q \in Publishers : q # p => pc[q] = "idle"
BY DEF LockInv

\* A manifest on the disk is a manifest, never a partial one.
LEMMA DiskManifestType ==
    ASSUME TypeOK, NEW m \in diskManifest, m # None
    PROVE  m \in Manifest /\ m.version \in Versions /\ m.version \in Int
           /\ m.sha256 \in Images /\ m.sha256 # None
BY FirmwareAssumption DEF TypeOK, Manifests, Manifest, Versions

\* Syncing the directory keeps what may survive consistent.
LEMMA SyncKeepsDisk ==
    ASSUME TypeOK, DiskInv, SyncDirectory
    PROVE  /\ DiskInv'
           /\ diskManifest' = {manifest}
           /\ \A v \in Versions : diskFiles'[v] = {files[v]}
           /\ diskManifest' \in SUBSET Manifests
           /\ diskFiles' \in [Versions -> SUBSET MaybeImage]
           /\ UNCHANGED <<manifest, files>>
<1>1. /\ diskManifest' = {manifest}
      /\ \A v \in Versions : diskFiles'[v] = {files[v]}
      /\ UNCHANGED <<manifest, files>>
  BY DEF SyncDirectory
<1>2. /\ diskManifest' \in SUBSET Manifests
      /\ diskFiles' \in [Versions -> SUBSET MaybeImage]
  BY DEF SyncDirectory, TypeOK
<1>3. ASSUME manifest # None
      PROVE  diskFiles'[manifest.version] = {manifest.sha256}
  <2>1. manifest \in diskManifest /\ manifest.version \in Versions
    BY <1>3, DiskManifestType DEF DiskInv
  <2>2. files[manifest.version] = manifest.sha256
    BY <1>3, <2>1 DEF DiskInv
  <2> QED
    BY <1>1, <2>1, <2>2
<1>4. DiskInv'
  BY <1>1, <1>3 DEF DiskInv
<1> QED
  BY <1>1, <1>2, <1>4
-----------------------------------------------------------------------------
\* The lock is free only when no publisher is at work.
LEMMA AcquireLockInv ==
    ASSUME FirmwareInv, NEW p \in Publishers, AcquireLock(p)
    PROVE  FirmwareInv'
<1> USE DEF FirmwareInv
<1>1. PICK v \in Versions, i \in Images :
        /\ version' = [version EXCEPT ![p] = v]
        /\ image' = [image EXCEPT ![p] = i]
  BY DEF AcquireLock
<1>2. \A q \in Publishers : pc[q] = "idle"
  BY FirmwareAssumption DEF AcquireLock, LockInv
<1>3. /\ lock' = p /\ pc' = [pc EXCEPT ![p] = "locked"]
      /\ UNCHANGED <<dirVars, readerVars, acked, faulty>>
  BY DEF AcquireLock, Goto
<1>4. TypeOK'
  BY <1>1, <1>3 DEF TypeOK, dirVars, readerVars, PublisherStates, MaybeImage
<1>5. \A q \in Publishers : pc'[q] = IF q = p THEN "locked" ELSE "idle"
  BY <1>2, <1>3 DEF TypeOK
<1>6. LockInv' /\ LocalsInv' /\ ClaimInv'
  BY <1>1, <1>3, <1>5 DEF LockInv, LocalsInv, ClaimInv, Uncommitted, Installed,
        TypeOK
<1>7. DiskInv' /\ AckInv' /\ DownloadsSucceed'
  BY <1>3 DEF DiskInv, AckInv, DownloadsSucceed, dirVars, readerVars
<1>8. ReaderInv' /\ OrphanInv'
  BY <1>2, <1>3, <1>5 DEF ReaderInv, OrphanInv, dirVars, readerVars,
        Uncommitted, Installed
<1> QED
  BY <1>4, <1>6, <1>7, <1>8

\* Under the lock, a version that passes the check is claimed by no manifest,
\* on the disk or in a download.
LEMMA CheckVersionInv ==
    ASSUME FirmwareInv, NEW p \in Publishers, CheckVersion(p)
    PROVE  FirmwareInv'
<1> USE DEF FirmwareInv
<1> DEFINE v == version[p]
<1>1. /\ pc[p] = "locked" /\ pc' = [pc EXCEPT ![p] = "staging"]
      /\ manifest # None => v > manifest.version
      /\ files[v] = None
      /\ UNCHANGED <<lock, version, image, dirVars, readerVars, acked, faulty>>
  BY DEF CheckVersion, Goto, MayPublish
<1>2. \A q \in Publishers : pc'[q] = IF q = p THEN "staging" ELSE "idle"
  BY <1>1, OnlyHolder DEF TypeOK
<1>3. \A q \in Publishers : q # p => pc[q] = "idle"
  BY <1>1, OnlyHolder
<1>4. v \in Versions /\ v \in Int
  BY <1>1, FirmwareAssumption DEF LocalsInv, Versions
<1>5. TypeOK'
  BY <1>1 DEF TypeOK, dirVars, readerVars, PublisherStates
<1>6. LockInv' /\ LocalsInv'
  BY <1>1, <1>2 DEF LockInv, LocalsInv
<1>7. \A m \in diskManifest : m # None => m.version # v
  BY <1>1, <1>4, DiskManifestType DEF DiskInv
<1>8. manifest # None => manifest.version < v
  BY <1>1, <1>4, DiskManifestType DEF DiskInv
<1>9. ClaimInv'
  BY <1>1, <1>2, <1>7, <1>8 DEF ClaimInv, Uncommitted, Installed, dirVars
<1>10. DiskInv' /\ AckInv' /\ DownloadsSucceed'
  BY <1>1 DEF DiskInv, AckInv, DownloadsSucceed, dirVars, readerVars
<1>11. ReaderInv'
  <2> SUFFICES ASSUME NEW r \in Readers, reader[r] # None
               PROVE  reader[r].version # v
    BY <1>1, <1>2 DEF ReaderInv, dirVars, readerVars, Uncommitted, Installed
  <2>1. reader[r].sha256 \in Images
    BY DEF TypeOK, Manifests, Manifest
  <2> QED
    BY <1>1, <2>1, FirmwareAssumption DEF ReaderInv
<1>12. OrphanInv'
  BY <1>1, <1>2, <1>3 DEF OrphanInv, dirVars, Installed
<1> QED
  BY <1>5, <1>6, <1>9, <1>10, <1>11, <1>12

\* Staging touches nothing readers or the disk see.
LEMMA StageInv ==
    ASSUME FirmwareInv, NEW p \in Publishers, Stage(p)
    PROVE  FirmwareInv'
<1> USE DEF FirmwareInv
<1>1. /\ pc[p] = "staging" /\ pc' = [pc EXCEPT ![p] = "staged"]
      /\ UNCHANGED <<lock, version, image, dirVars, readerVars, acked, faulty>>
  BY DEF Stage, Goto
<1>2. \A q \in Publishers : pc'[q] = IF q = p THEN "staged" ELSE "idle"
  BY <1>1, OnlyHolder DEF TypeOK
<1>3. \A q \in Publishers : q # p => pc[q] = "idle"
  BY <1>1, OnlyHolder
<1>4. TypeOK'
  BY <1>1 DEF TypeOK, dirVars, readerVars, PublisherStates
<1>5. LockInv' /\ LocalsInv'
  BY <1>1, <1>2 DEF LockInv, LocalsInv
<1>6. ClaimInv'
  BY <1>1, <1>2 DEF ClaimInv, Uncommitted, Installed, dirVars
<1>7. DiskInv' /\ AckInv' /\ DownloadsSucceed'
  BY <1>1 DEF DiskInv, AckInv, DownloadsSucceed, dirVars, readerVars
<1>8. ReaderInv'
  BY <1>1, <1>2 DEF ReaderInv, Uncommitted, Installed, dirVars, readerVars
<1>9. OrphanInv'
  BY <1>1, <1>2, <1>3 DEF OrphanInv, Installed, dirVars
<1> QED
  BY <1>4, <1>5, <1>6, <1>7, <1>8, <1>9

\* The image is renamed to a name that no manifest and no download refers to.
LEMMA InstallImageInv ==
    ASSUME FirmwareInv, NEW p \in Publishers, InstallImage(p)
    PROVE  FirmwareInv'
<1> USE DEF FirmwareInv
<1> DEFINE v == version[p]
           i == image[p]
<1>1. /\ pc[p] = "staged" /\ pc' = [pc EXCEPT ![p] = "installed"]
      /\ files' = [files EXCEPT ![v] = i]
      /\ diskFiles' = [diskFiles EXCEPT ![v] = @ \cup {i}]
      /\ UNCHANGED <<lock, version, image, manifest, diskManifest, readerVars,
                     acked, faulty>>
  BY DEF InstallImage, Goto
<1>2. \A q \in Publishers : pc'[q] = IF q = p THEN "installed" ELSE "idle"
  BY <1>1, OnlyHolder DEF TypeOK
<1>3. \A q \in Publishers : q # p => pc[q] = "idle"
  BY <1>1, OnlyHolder
<1>4. v \in Versions /\ i \in Images
  BY <1>1 DEF LocalsInv
<1>5. TypeOK'
  BY <1>1, <1>4 DEF TypeOK, readerVars, PublisherStates, Installed, MaybeImage
<1>6. /\ files'[v] = i
      /\ \A w \in Versions : w # v => files'[w] = files[w] /\ diskFiles'[w] = diskFiles[w]
      /\ diskFiles'[v] = diskFiles[v] \cup {i}
  BY <1>1, <1>4 DEF TypeOK
<1>7. /\ manifest # None => manifest.version < v
      /\ \A m \in diskManifest : m # None => m.version # v
  BY <1>1 DEF ClaimInv, Uncommitted
<1>8. LockInv' /\ LocalsInv'
  BY <1>1, <1>2 DEF LockInv, LocalsInv
<1>9. DiskInv'
  <2>1. \A w \in Versions : files'[w] \in diskFiles'[w]
    BY <1>4, <1>6 DEF DiskInv
  <2>2. \A m \in diskManifest : m # None => diskFiles'[m.version] = {m.sha256}
    BY <1>6, <1>7, DiskManifestType DEF DiskInv
  <2> QED
    BY <1>1, <2>1, <2>2 DEF DiskInv
<1>10. ClaimInv'
  BY <1>1, <1>2, <1>6, <1>7 DEF ClaimInv, Uncommitted, Installed
<1>11. AckInv' /\ DownloadsSucceed'
  BY <1>1 DEF AckInv, DownloadsSucceed, readerVars
<1>12. ReaderInv'
  <2> SUFFICES ASSUME NEW r \in Readers, reader[r] # None
               PROVE  /\ files'[reader[r].version] = reader[r].sha256
                      /\ reader[r].version # v
    BY <1>1, <1>2 DEF ReaderInv, readerVars, Uncommitted, Installed
  <2>1. reader[r].version \in Versions
    BY DEF TypeOK, Manifests, Manifest
  <2>2. reader[r].version # v
    BY <1>1 DEF ReaderInv, Uncommitted
  <2> QED
    BY <1>6, <2>1, <2>2 DEF ReaderInv
<1>13. OrphanInv'
  BY <1>1, <1>2, <1>3, <1>6 DEF OrphanInv, Installed
<1> QED
  BY <1>5, <1>8, <1>9, <1>10, <1>11, <1>12, <1>13

\* After the first sync the image is certain to survive.
LEMMA SyncImageInv ==
    ASSUME FirmwareInv, NEW p \in Publishers, SyncImage(p)
    PROVE  FirmwareInv'
<1> USE DEF FirmwareInv
<1>1. /\ pc[p] = "installed" /\ pc' = [pc EXCEPT ![p] = "durable"]
      /\ SyncDirectory
      /\ UNCHANGED <<lock, version, image, readerVars, acked, faulty>>
  BY DEF SyncImage, Goto
<1>2. \A q \in Publishers : pc'[q] = IF q = p THEN "durable" ELSE "idle"
  BY <1>1, OnlyHolder DEF TypeOK
<1>3. \A q \in Publishers : q # p => pc[q] = "idle"
  BY <1>1, OnlyHolder
<1>4. /\ DiskInv'
      /\ diskManifest' = {manifest}
      /\ \A v \in Versions : diskFiles'[v] = {files[v]}
      /\ diskManifest' \in SUBSET Manifests
      /\ diskFiles' \in [Versions -> SUBSET MaybeImage]
      /\ UNCHANGED <<manifest, files>>
  BY <1>1, SyncKeepsDisk
<1>5. TypeOK'
  BY <1>1, <1>4 DEF TypeOK, readerVars, PublisherStates, Installed
<1>6. LockInv' /\ LocalsInv'
  BY <1>1, <1>2 DEF LockInv, LocalsInv
<1>7. version[p] \in Versions
  BY <1>1 DEF LocalsInv
<1>8. manifest \in diskManifest
  BY DEF DiskInv
<1>9. ClaimInv'
  BY <1>1, <1>2, <1>4, <1>7, <1>8 DEF ClaimInv, Uncommitted, Installed
<1>10. AckInv' /\ DownloadsSucceed'
  BY <1>1, <1>4, <1>8 DEF AckInv, DownloadsSucceed, readerVars
<1>11. ReaderInv'
  BY <1>1, <1>2, <1>4 DEF ReaderInv, Uncommitted, Installed, readerVars
<1>12. OrphanInv'
  BY <1>1, <1>2, <1>3, <1>4 DEF OrphanInv, Installed
<1> QED
  BY <1>4, <1>5, <1>6, <1>9, <1>10, <1>11, <1>12

\* The manifest that is committed names an image that already survives, so
\* whichever of the two manifests a power loss leaves is sound.
LEMMA CommitManifestInv ==
    ASSUME FirmwareInv, NEW p \in Publishers, CommitManifest(p)
    PROVE  FirmwareInv'
<1> USE DEF FirmwareInv
<1> DEFINE v == version[p]
           i == image[p]
           m0 == [version |-> v, sha256 |-> i]
<1>1. /\ pc[p] = "durable" /\ pc' = [pc EXCEPT ![p] = "committed"]
      /\ manifest' = m0
      /\ diskManifest' = diskManifest \cup {m0}
      /\ UNCHANGED <<lock, version, image, files, diskFiles, readerVars, acked,
                     faulty>>
  BY DEF CommitManifest, Goto
<1>2. \A q \in Publishers : pc'[q] = IF q = p THEN "committed" ELSE "idle"
  BY <1>1, OnlyHolder DEF TypeOK
<1>3. \A q \in Publishers : q # p => pc[q] = "idle"
  BY <1>1, OnlyHolder
<1>4. v \in Versions /\ v \in Int /\ i \in Images
  BY <1>1, FirmwareAssumption DEF LocalsInv, Versions
<1>5. /\ manifest # None => manifest.version < v
      /\ files[v] = i /\ diskFiles[v] = {i}
  BY <1>1 DEF ClaimInv, Uncommitted, Installed
<1>6. m0 \in Manifest /\ m0 # None /\ m0.version = v /\ m0.sha256 = i
  BY <1>4, FirmwareAssumption DEF Manifest
<1>7. TypeOK'
  BY <1>1, <1>6 DEF TypeOK, readerVars, PublisherStates, Manifests
<1>8. LockInv' /\ LocalsInv'
  BY <1>1, <1>2 DEF LockInv, LocalsInv
<1>9. DiskInv'
  BY <1>1, <1>5, <1>6 DEF DiskInv
<1>10. ClaimInv'
  BY <1>1, <1>2 DEF ClaimInv, Uncommitted, Installed
<1>11. AckInv'
  <2> SUFFICES ASSUME NEW w \in acked
               PROVE  v >= w
    BY <1>1, <1>6 DEF AckInv
  <2>1. manifest # None /\ manifest.version >= w
    BY DEF AckInv, DiskInv
  <2>3. w \in Int
    BY FirmwareAssumption DEF TypeOK, Versions
  <2>2. manifest.version \in Int
    BY <2>1, DiskManifestType DEF DiskInv
  <2> QED
    BY <1>4, <1>5, <2>1, <2>2, <2>3
<1>12. ReaderInv' /\ DownloadsSucceed'
  BY <1>1, <1>2 DEF ReaderInv, DownloadsSucceed, Uncommitted, Installed,
        readerVars
<1>13. OrphanInv'
  <2> SUFFICES ASSUME ~faulty, NEW w \in Versions, files[w] # None
               PROVE  w <= v
    BY <1>1, <1>6 DEF OrphanInv
  <2>1. w \in Int
    BY FirmwareAssumption DEF Versions
  <2>2. CASE manifest # None /\ w <= manifest.version
    BY <1>4, <1>5, <2>1, <2>2, DiskManifestType DEF DiskInv
  <2>3. CASE \E q \in Publishers : pc[q] \in Installed /\ version[q] = w
    BY <1>3, <1>4, <2>3 DEF Installed
  <2> QED
    BY <2>2, <2>3 DEF OrphanInv
<1> QED
  BY <1>7, <1>8, <1>9, <1>10, <1>11, <1>12, <1>13

\* After the last sync the manifest is the only one that may survive.
LEMMA SyncManifestInv ==
    ASSUME FirmwareInv, NEW p \in Publishers, SyncManifest(p)
    PROVE  FirmwareInv'
<1> USE DEF FirmwareInv
<1> DEFINE v == version[p]
<1>1. /\ pc[p] = "committed" /\ pc' = [pc EXCEPT ![p] = "idle"]
      /\ SyncDirectory
      /\ acked' = acked \cup {v}
      /\ lock' = None
      /\ version' = [version EXCEPT ![p] = None]
      /\ image' = [image EXCEPT ![p] = None]
      /\ UNCHANGED <<readerVars, faulty>>
  BY DEF SyncManifest, Return
<1>2. \A q \in Publishers : q # p => pc[q] = "idle"
  BY <1>1, OnlyHolder
<1>3. \A q \in Publishers : pc'[q] = "idle"
  BY <1>1, <1>2 DEF TypeOK
<1>4. /\ DiskInv'
      /\ diskManifest' = {manifest}
      /\ diskManifest' \in SUBSET Manifests
      /\ diskFiles' \in [Versions -> SUBSET MaybeImage]
      /\ UNCHANGED <<manifest, files>>
  BY <1>1, SyncKeepsDisk
<1>5. v \in Versions /\ v \in Int
  BY <1>1, FirmwareAssumption DEF LocalsInv, Versions
<1>6. manifest \in diskManifest /\ manifest # None /\ manifest.version = v
  <2>1. manifest = [version |-> v, sha256 |-> image[p]]
    BY <1>1 DEF ClaimInv
  <2>2. manifest \in Manifest
    BY <1>1, <1>5, <2>1 DEF LocalsInv, Manifest
  <2> QED
    BY <2>1, <2>2, FirmwareAssumption DEF DiskInv
<1>7. TypeOK'
  BY <1>1, <1>4, <1>5 DEF TypeOK, readerVars, PublisherStates, MaybeImage
<1>8. LockInv' /\ LocalsInv' /\ ClaimInv'
  BY <1>3 DEF LockInv, LocalsInv, ClaimInv, Uncommitted, Installed
<1>9. AckInv'
  BY <1>1, <1>4, <1>5, <1>6 DEF AckInv
<1>10. ReaderInv' /\ DownloadsSucceed'
  BY <1>1, <1>3, <1>4 DEF ReaderInv, DownloadsSucceed, readerVars, Uncommitted,
        Installed
<1>11. OrphanInv'
  BY <1>1, <1>2, <1>4 DEF OrphanInv, Installed
<1> QED
  BY <1>4, <1>7, <1>8, <1>9, <1>10, <1>11

\* A publisher that returns and leaves the directory as it is disturbs
\* nothing, except that an image it installed is left behind.
LEMMA ReturnInv ==
    ASSUME FirmwareInv, NEW p \in Publishers, pc[p] # "idle", Return(p),
           UNCHANGED <<dirVars, readerVars, acked>>,
           faulty' \in BOOLEAN, faulty => faulty',
           pc[p] \in Installed => faulty'
    PROVE  FirmwareInv'
<1> USE DEF FirmwareInv
<1>1. /\ lock' = None /\ pc' = [pc EXCEPT ![p] = "idle"]
      /\ version' = [version EXCEPT ![p] = None]
      /\ image' = [image EXCEPT ![p] = None]
  BY DEF Return
<1>2. \A q \in Publishers : q # p => pc[q] = "idle"
  BY OnlyHolder
<1>3. \A q \in Publishers : pc'[q] = "idle"
  BY <1>1, <1>2 DEF TypeOK
<1>4. TypeOK'
  BY <1>1 DEF TypeOK, dirVars, readerVars, PublisherStates, MaybeImage
<1>5. LockInv' /\ LocalsInv' /\ ClaimInv'
  BY <1>3 DEF LockInv, LocalsInv, ClaimInv, Uncommitted, Installed
<1>6. DiskInv' /\ AckInv' /\ DownloadsSucceed'
  BY DEF DiskInv, AckInv, DownloadsSucceed, dirVars, readerVars
<1>7. ReaderInv'
  BY <1>3 DEF ReaderInv, dirVars, readerVars, Uncommitted, Installed
<1>8. OrphanInv'
  <2> SUFFICES ASSUME ~faulty' PROVE OrphanInv'
    BY DEF OrphanInv
  <2>1. \A q \in Publishers : pc[q] \notin Installed
    BY <1>2 DEF Installed
  <2> QED
    BY <2>1 DEF OrphanInv, dirVars
<1> QED
  BY <1>4, <1>5, <1>6, <1>7, <1>8

\* The returns of Publish that change nothing on disk preserve the invariant.
LEMMA PlainReturnsInv ==
    ASSUME FirmwareInv, NEW p \in Publishers,
           \/ RefuseVersion(p) \/ SyncManifestFails(p) \/ FailStaging(p)
           \/ FailRemove(p) \/ Kill(p)
    PROVE  FirmwareInv'
<1>1. /\ pc[p] # "idle" /\ Return(p)
      /\ UNCHANGED <<dirVars, readerVars, acked>>
  BY DEF RefuseVersion, SyncManifestFails, FailStaging, FailRemove, Kill,
         Installed
<1>2. /\ faulty' \in BOOLEAN /\ (faulty => faulty')
      /\ pc[p] \in Installed => faulty'
  BY DEF RefuseVersion, SyncManifestFails, FailStaging, FailRemove, Kill,
         Installed, FirmwareInv, TypeOK
<1> QED
  BY <1>1, <1>2, ReturnInv
-----------------------------------------------------------------------------

\* The cleanup removes an image that no manifest and no download refers to.
LEMMA FailInstalledInv ==
    ASSUME FirmwareInv, NEW p \in Publishers, FailInstalled(p)
    PROVE  FirmwareInv'
<1> USE DEF FirmwareInv
<1> DEFINE v == version[p]
<1>1. /\ pc[p] \in Installed /\ pc' = [pc EXCEPT ![p] = "idle"]
      /\ files' = [files EXCEPT ![v] = None]
      /\ lock' = None
      /\ version' = [version EXCEPT ![p] = None]
      /\ image' = [image EXCEPT ![p] = None]
      /\ UNCHANGED <<manifest, readerVars, acked, faulty>>
  BY DEF FailInstalled, RemoveImage, Return
<1>2. \A q \in Publishers : q # p => pc[q] = "idle"
  BY <1>1, OnlyHolder DEF Installed
<1>3. \A q \in Publishers : pc'[q] = "idle"
  BY <1>1, <1>2 DEF TypeOK
<1>4. v \in Versions
  BY <1>1 DEF LocalsInv, Installed
<1>5. files' \in [Versions -> MaybeImage]
  BY <1>1 DEF TypeOK, MaybeImage
<1>6. /\ files'[v] = None
      /\ \A w \in Versions : w # v => files'[w] = files[w]
  BY <1>1, <1>4 DEF TypeOK
<1>7. \A m \in diskManifest : m # None => m.version # v
  BY <1>1 DEF ClaimInv, Uncommitted
<1>8. /\ DiskInv' /\ diskManifest' \subseteq diskManifest
      /\ diskFiles' \in [Versions -> SUBSET MaybeImage]
  <2>1. CASE /\ diskManifest' = {manifest}
             /\ diskFiles' = [w \in Versions |-> {files'[w]}]
    <3>1. \A w \in Versions : diskFiles'[w] = {files'[w]}
      BY <2>1
    <3>2. ASSUME manifest # None
          PROVE  diskFiles'[manifest.version] = {manifest.sha256}
      <4>1. manifest \in diskManifest
        BY DEF DiskInv
      <4>2. manifest.version \in Versions /\ manifest.version # v
        BY <3>2, <4>1, <1>7, DiskManifestType
      <4>3. files[manifest.version] = manifest.sha256
        BY <3>2, <4>1, <4>2 DEF DiskInv
      <4> QED
        BY <3>1, <4>2, <4>3, <1>6
    <3>3. DiskInv'
      BY <1>1, <2>1, <3>1, <3>2 DEF DiskInv
    <3> QED
      BY <2>1, <3>3, <1>5 DEF DiskInv
  <2>2. CASE /\ diskFiles' = [diskFiles EXCEPT ![v] = @ \cup {None}]
             /\ UNCHANGED diskManifest
    <3>1. /\ diskFiles'[v] = diskFiles[v] \cup {None}
          /\ \A w \in Versions : w # v => diskFiles'[w] = diskFiles[w]
      BY <1>4, <2>2 DEF TypeOK
    <3>2. \A w \in Versions : files'[w] \in diskFiles'[w]
      BY <3>1, <1>6 DEF DiskInv
    <3>3. \A m \in diskManifest : m # None => diskFiles'[m.version] = {m.sha256}
      BY <3>1, <1>7, DiskManifestType DEF DiskInv
    <3>4. diskFiles' \in [Versions -> SUBSET MaybeImage]
      BY <2>2 DEF TypeOK, MaybeImage
    <3> QED
      BY <1>1, <2>2, <3>2, <3>3, <3>4 DEF DiskInv
  <2> QED
    BY <2>1, <2>2 DEF FailInstalled, RemoveImage
<1>9. TypeOK'
  BY <1>1, <1>5, <1>8 DEF TypeOK, readerVars, PublisherStates, MaybeImage
<1>10. LockInv' /\ LocalsInv' /\ ClaimInv'
  BY <1>3 DEF LockInv, LocalsInv, ClaimInv, Uncommitted, Installed
<1>11. AckInv' /\ DownloadsSucceed'
  BY <1>1, <1>8 DEF AckInv, DownloadsSucceed, readerVars
<1>12. ReaderInv'
  <2> SUFFICES ASSUME NEW r \in Readers, reader[r] # None
               PROVE  files'[reader[r].version] = reader[r].sha256
    BY <1>1, <1>3 DEF ReaderInv, readerVars, Uncommitted, Installed
  <2>1. reader[r].version \in Versions
    BY DEF TypeOK, Manifests, Manifest
  <2>2. reader[r].version # v
    BY <1>1 DEF ReaderInv, Uncommitted
  <2> QED
    BY <1>6, <2>1, <2>2 DEF ReaderInv
<1>13. OrphanInv'
  <2> SUFFICES ASSUME ~faulty, NEW w \in Versions, files'[w] # None
               PROVE  manifest # None /\ w <= manifest.version
    BY <1>1 DEF OrphanInv
  <2>1. w # v /\ files[w] # None
    BY <1>6
  <2>2. \A q \in Publishers : ~(pc[q] \in Installed /\ version[q] = w)
    BY <1>2, <2>1 DEF Installed
  <2> QED
    BY <2>1, <2>2 DEF OrphanInv
<1> QED
  BY <1>8, <1>9, <1>10, <1>11, <1>12, <1>13

\* Whatever power loss leaves is sound: this is what DiskInv is for.
LEMMA PowerLossInv ==
    ASSUME FirmwareInv, PowerLoss
    PROVE  FirmwareInv'
<1> USE DEF FirmwareInv
<1>1. /\ manifest' \in diskManifest /\ diskManifest' = {manifest'}
      /\ files' \in [Versions -> MaybeImage]
      /\ \A v \in Versions : files'[v] \in diskFiles[v]
      /\ diskFiles' = [v \in Versions |-> {files'[v]}]
      /\ lock' = None /\ faulty'
      /\ pc' = [p \in Publishers |-> "idle"]
      /\ version' = [p \in Publishers |-> None]
      /\ image' = [p \in Publishers |-> None]
      /\ reader' = [r \in Readers |-> None]
      /\ UNCHANGED <<result, acked>>
  BY DEF PowerLoss
<1>2. TypeOK'
  BY <1>1 DEF PowerLoss, TypeOK, PublisherStates, Manifests, MaybeImage
<1>3. LockInv' /\ LocalsInv' /\ ClaimInv' /\ ReaderInv' /\ OrphanInv'
  BY <1>1 DEF LockInv, LocalsInv, ClaimInv, ReaderInv, OrphanInv, Uncommitted,
        Installed
<1>4. AckInv' /\ DownloadsSucceed'
  BY <1>1 DEF AckInv, DownloadsSucceed
<1>5. ASSUME manifest' # None
      PROVE  diskFiles'[manifest'.version] = {manifest'.sha256}
  <2>1. manifest'.version \in Versions
    BY <1>1, <1>5, DiskManifestType
  <2>2. diskFiles[manifest'.version] = {manifest'.sha256}
    BY <1>1, <1>5 DEF DiskInv
  <2> QED
    BY <1>1, <2>1, <2>2
<1>6. DiskInv'
  BY <1>1, <1>5 DEF DiskInv
<1> QED
  BY <1>2, <1>3, <1>4, <1>6

\* Reading the manifest (LoadManifest) preserves the invariant.
LEMMA LoadManifestInv ==
    ASSUME FirmwareInv, NEW r \in Readers, LoadManifest(r)
    PROVE  FirmwareInv'
<1> USE DEF FirmwareInv
<1>1. /\ manifest # None /\ reader' = [reader EXCEPT ![r] = manifest]
      /\ UNCHANGED <<publisherVars, dirVars, result, acked, faulty>>
  BY DEF LoadManifest
<1>2. TypeOK'
  BY <1>1 DEF TypeOK, publisherVars, dirVars
<1>3. LockInv' /\ LocalsInv' /\ ClaimInv'
  BY <1>1 DEF LockInv, LocalsInv, ClaimInv, publisherVars, dirVars
<1>4. DiskInv' /\ AckInv' /\ DownloadsSucceed' /\ OrphanInv'
  BY <1>1 DEF DiskInv, AckInv, DownloadsSucceed, OrphanInv, publisherVars,
        dirVars
<1>5. files[manifest.version] = manifest.sha256
  <2>1. manifest \in diskManifest /\ manifest.version \in Versions
    BY <1>1, DiskManifestType DEF DiskInv
  <2> QED
    BY <1>1, <2>1 DEF DiskInv
<1>6. \A p \in Publishers :
        pc[p] \in Uncommitted => version[p] # manifest.version
  BY <1>1 DEF ClaimInv, DiskInv
<1>7. ReaderInv'
  BY <1>1, <1>5, <1>6 DEF ReaderInv, TypeOK, publisherVars, dirVars
<1> QED
  BY <1>2, <1>3, <1>4, <1>7

\* Opening the image of a manifest (OpenVerifiedImage) preserves the invariant.
LEMMA OpenImageInv ==
    ASSUME FirmwareInv, NEW r \in Readers, OpenImage(r)
    PROVE  FirmwareInv'
<1> USE DEF FirmwareInv
<1>1. /\ reader[r] # None /\ reader' = [reader EXCEPT ![r] = None]
      /\ UNCHANGED <<publisherVars, dirVars, acked, faulty>>
  BY DEF OpenImage
<1>2. result' = [result EXCEPT ![r] = "served"]
  <2>1. reader[r].sha256 \in Images
    BY <1>1 DEF TypeOK, Manifests, Manifest
  <2>2. files[reader[r].version] = reader[r].sha256
    BY <1>1 DEF ReaderInv
  <2> QED
    BY <2>1, <2>2, FirmwareAssumption DEF OpenImage
<1>3. TypeOK' /\ DownloadsSucceed'
  BY <1>1, <1>2 DEF TypeOK, DownloadsSucceed, publisherVars, dirVars, Manifests
<1>4. LockInv' /\ LocalsInv' /\ ClaimInv'
  BY <1>1 DEF LockInv, LocalsInv, ClaimInv, publisherVars, dirVars
<1>5. DiskInv' /\ AckInv' /\ OrphanInv'
  BY <1>1 DEF DiskInv, AckInv, OrphanInv, publisherVars, dirVars
<1>6. ReaderInv'
  BY <1>1 DEF ReaderInv, TypeOK, publisherVars, dirVars
<1> QED
  BY <1>3, <1>4, <1>5, <1>6
-----------------------------------------------------------------------------
\* Every step of publishers, downloads and faults preserves the invariant.
LEMMA NextFirmwareInv ==
    FirmwareInv /\ [Next]_vars => FirmwareInv'
<1> SUFFICES ASSUME FirmwareInv, [Next]_vars PROVE FirmwareInv'
  OBVIOUS
<1>1. ASSUME NEW p \in Publishers, PublisherNext(p) PROVE FirmwareInv'
  BY <1>1, AcquireLockInv, CheckVersionInv, StageInv, InstallImageInv,
     SyncImageInv, CommitManifestInv, SyncManifestInv, PlainReturnsInv,
     FailInstalledInv DEF PublisherNext
<1>2. CASE UNCHANGED vars
  <2> USE <1>2 DEF vars, FirmwareInv
  <2>1. TypeOK' /\ LockInv' /\ LocalsInv' /\ DiskInv' /\ ClaimInv'
    BY DEF TypeOK, LockInv, LocalsInv, DiskInv, ClaimInv
  <2>2. AckInv' /\ ReaderInv' /\ DownloadsSucceed' /\ OrphanInv'
    BY DEF AckInv, ReaderInv, DownloadsSucceed, OrphanInv
  <2> QED
    BY <2>1, <2>2
<1> QED
  BY <1>1, <1>2, PowerLossInv, LoadManifestInv, OpenImageInv DEF Next

\* The inductive invariant holds in every reachable state.
THEOREM FirmwareInvariant == Spec => []FirmwareInv
BY InitFirmwareInv, NextFirmwareInv, PTL DEF Spec

\* The variables of firmware publication keep their types.
THEOREM FirmwareTypeCorrect == Spec => []TypeOK
<1>1. FirmwareInv => TypeOK
  BY DEF FirmwareInv
<1> QED
  BY <1>1, FirmwareInvariant, PTL

\* However publications interleave, fail, are killed or lose power, the
\* manifest names a complete image with its hash.
THEOREM FirmwareManifestHasImage == Spec => []ManifestHasImage
<1>1. FirmwareInv => ManifestHasImage
  <2> SUFFICES ASSUME FirmwareInv, manifest # None
               PROVE  files[manifest.version] = manifest.sha256
    BY DEF ManifestHasImage
  <2>1. manifest \in diskManifest /\ manifest.version \in Versions
    BY DiskManifestType DEF FirmwareInv, DiskInv
  <2> QED
    BY <2>1 DEF FirmwareInv, DiskInv
<1> QED
  BY <1>1, FirmwareInvariant, PTL

\* No download is caught between the manifest and its image.
THEOREM FirmwareDownloadsSucceed == Spec => []DownloadsSucceed
<1>1. FirmwareInv => DownloadsSucceed
  BY DEF FirmwareInv
<1> QED
  BY <1>1, FirmwareInvariant, PTL

\* A publication reported as successful is never taken back.
THEOREM FirmwarePublicationDurable == Spec => []PublicationDurable
<1>1. FirmwareInv => PublicationDurable
  BY DEF FirmwareInv, AckInv, DiskInv, PublicationDurable
<1> QED
  BY <1>1, FirmwareInvariant, PTL

\* A publication that fails without a kill leaves its version publishable.
THEOREM FirmwareNoOrphanImage == Spec => []NoOrphanImage
<1>1. FirmwareInv => NoOrphanImage
  <2> SUFFICES ASSUME FirmwareInv, ~faulty, lock = None
               PROVE  \A p \in Publishers : pc[p] \notin Installed
    BY DEF FirmwareInv, OrphanInv, NoOrphanImage
  <2> QED
    BY FirmwareAssumption DEF FirmwareInv, LockInv, Installed
<1> QED
  BY <1>1, FirmwareInvariant, PTL

-----------------------------------------------------------------------------
\* The steps of worker_install_ota.
InstallSteps == {"install", "download", "installed", "failed"}

At(q, job) == {i \in 1..Len(q) : q[i] = job}

\* At most one job of the kind is queued.
Once(q, job) == \A i, j \in At(q, job) : i = j

\* What the network task is doing.
Workers == [at : Jobs \cup {"idle", "checked", "download", "installed", "failed"},
            config : Configs \cup {NoConfig}, version : Int]

\* pending_candidate and its result; the fields of ota_status.
Candidates == [pending : Configs \cup {NoConfig}, ready : BOOLEAN,
               success : BOOLEAN, inFlight : BOOLEAN]

OtaStatus == [checking : BOOLEAN, available : BOOLEAN, version : Int,
              installing : BOOLEAN, resultReady : BOOLEAN, success : BOOLEAN]

DeviceTypes ==
    /\ loopPc \in Loop
    /\ jobs \in Seq(Jobs)
    /\ worker \in Workers
    /\ candidate \in Candidates
    /\ ota \in OtaStatus
    /\ part \in [Partitions -> [version : Int, whole : BOOLEAN]]
    /\ running \in Partitions /\ bootNext \in Partitions
    /\ latest \in Int /\ config \in Configs \cup {NoConfig}

\* installing is reserved from the request to the result, and keeps the
\* portal open; there is one install at a time.
ReservedInv ==
    /\ Once(jobs, "install")
    /\ At(jobs, "install") # {} => ota.installing /\ worker.at \notin InstallSteps
    /\ worker.at \in InstallSteps => ota.installing
    /\ ota.installing => portal

\* A partition that is selected is intact, and the loop is going to restart
\* for it; nothing is installed meanwhile.
SelectInv ==
    /\ SelectedIsIntact
    /\ At(jobs, "install") # {} \/ worker.at \in {"install", "download", "failed"} =>
          bootNext = running
    /\ bootNext # running =>
          \/ worker.at = "installed"
          \/ /\ ota.resultReady /\ ota.success
             /\ portal \/ loopPc \in {"fetched", "candidate", "ota"}
          \/ restartOta

\* What is offered, copied and downloaded is newer than what runs.
NewerInv ==
    /\ ota.available => ota.version > part[running].version
    /\ worker.at = "install" /\ worker.version > 0 => worker.version > part[running].version
    /\ worker.at = "download" =>
          /\ worker.version > part[running].version
          /\ part[Other(running)].version = worker.version

\* One test at a time, of the pending candidate, which stays what it is until
\* there is a result; the result is about it.
TestInv ==
    /\ Once(jobs, "test")
    /\ At(jobs, "test") # {} => candidate.inFlight /\ ~candidate.ready /\ worker.at # "test"
    /\ worker.at = "test" =>
          candidate.inFlight /\ ~candidate.ready /\ worker.config = candidate.pending
    /\ candidate.ready /\ candidate.success => tested = candidate.pending

DeviceInv == DeviceTypes /\ ReservedInv /\ SelectInv /\ NewerInv /\ TestInv

\* Jobs that are appended, and that fit or not.
LEMMA EnqueueFacts ==
    ASSUME NEW q \in Seq(Jobs), NEW job \in Jobs
    PROVE  /\ Enqueue(q, job) \in Seq(Jobs)
           /\ \A k \in Jobs : k # job => At(Enqueue(q, job), k) = At(q, k)
           /\ At(q, job) = {} => Once(Enqueue(q, job), job)
           /\ \A k \in Jobs \ {job} : Once(q, k) => Once(Enqueue(q, job), k)
<1>1. CASE Enqueue(q, job) = q
  BY <1>1 DEF Once
<1>2. CASE Enqueue(q, job) = Append(q, job)
  <2> DEFINE r == Append(q, job)
  <2>1. /\ r \in Seq(Jobs) /\ Len(r) = Len(q) + 1 /\ r[Len(r)] = job
        /\ Len(q) \in Nat
        /\ \A i \in 1..Len(q) : r[i] = q[i]
    OBVIOUS
  <2>2. \A k \in Jobs : k # job => At(r, k) = At(q, k)
    BY <2>1 DEF At
  <2>3. At(q, job) = {} => At(r, job) \subseteq {Len(r)}
    BY <2>1 DEF At
  <2> QED
    BY <1>2, <2>1, <2>2, <2>3 DEF Once
<1> QED
  BY <1>1, <1>2 DEF Enqueue

\* Jobs of another kind are not affected.
LEMMA OtherJobs ==
    ASSUME NEW q \in Seq(Jobs), NEW job \in Jobs, NEW k \in Jobs, k # job
    PROVE  /\ Enqueue(q, job) \in Seq(Jobs)
           /\ At(Enqueue(q, job), k) = At(q, k)
           /\ Once(q, k) => Once(Enqueue(q, job), k)
BY EnqueueFacts

\* The job that the network task takes.
LEMMA TailFacts ==
    ASSUME NEW q \in Seq(Jobs), q # <<>>
    PROVE  /\ Tail(q) \in Seq(Jobs) /\ Head(q) \in Jobs
           /\ At(q, Head(q)) # {}
           /\ \A k \in Jobs : At(Tail(q), k) # {} => At(q, k) # {}
           /\ \A k \in Jobs : Once(q, k) => Once(Tail(q), k)
           /\ Once(q, Head(q)) => At(Tail(q), Head(q)) = {}
<1>1. /\ Tail(q) \in Seq(Jobs) /\ Head(q) \in Jobs /\ Len(q) \in Nat /\ Len(q) > 0
      /\ Len(Tail(q)) = Len(q) - 1 /\ q[1] = Head(q)
      /\ \A i \in 1..Len(Tail(q)) : Tail(q)[i] = q[i + 1]
  OBVIOUS
<1>2. \A k : \A i \in At(Tail(q), k) : i \in Nat /\ i > 0 /\ i + 1 \in At(q, k)
  BY <1>1 DEF At
<1>3. 1 \in At(q, Head(q))
  BY <1>1 DEF At
<1>4. ASSUME NEW k \in Jobs, Once(q, k) PROVE Once(Tail(q), k)
  BY <1>2, <1>4 DEF Once
<1>5. ASSUME Once(q, Head(q)) PROVE At(Tail(q), Head(q)) = {}
  <2> SUFFICES ASSUME NEW i \in At(Tail(q), Head(q)) PROVE FALSE
    OBVIOUS
  <2>1. i + 1 = 1
    BY <1>2, <1>3, <1>5 DEF Once
  <2> QED
    BY <1>2, <2>1
<1> QED
  BY <1>1, <1>2, <1>3, <1>4, <1>5

\* The jobs of a display that was just started.
LEMMA FirstJobs ==
    \A q \in {<<>>, Enqueue(Enqueue(<<>>, "scan"), "check")} :
       q \in Seq(Jobs) /\ At(q, "install") = {} /\ At(q, "test") = {}
<1>1. <<>> \in Seq(Jobs) /\ \A k : At(<<>>, k) = {}
  BY DEF At
<1>2. /\ "scan" \in Jobs /\ "check" \in Jobs /\ "install" \in Jobs /\ "test" \in Jobs
  BY DEF Jobs
<1> DEFINE q == Enqueue(<<>>, "scan")
           r == Enqueue(q, "check")
<1>3. q \in Seq(Jobs)
  BY <1>1, <1>2, EnqueueFacts
<1>4. At(q, "install") = At(<<>>, "install") /\ At(q, "test") = At(<<>>, "test")
  BY <1>1, <1>2, OtherJobs
<1> HIDE DEF q
<1>5. r \in Seq(Jobs)
  BY <1>2, <1>3, EnqueueFacts
<1>6. At(r, "install") = At(q, "install") /\ At(r, "test") = At(q, "test")
  BY <1>2, <1>3, OtherJobs
<1> QED
  BY <1>1, <1>4, <1>5, <1>6 DEF q

\* A new start finds nothing in memory and boots what was selected.
LEMMA BootStep ==
    ASSUME DeviceInv, NEW stored \in {config, NoConfig}, Boot(stored)
    PROVE  DeviceInv' /\ bootNext' = running' /\ config' = stored
<1> USE DEF DeviceInv, DeviceTypes, Workers, Candidates, OtaStatus
<1>0. PICK open \in {FALSE, stored = NoConfig} :
         /\ jobs' = IF open THEN Enqueue(Enqueue(<<>>, "scan"), "check") ELSE <<>>
         /\ ota' = [NoOta EXCEPT !.checking = open]
  BY DEF Boot
<1>1. jobs' \in {<<>>, Enqueue(Enqueue(<<>>, "scan"), "check")}
  BY <1>0
<1>2. jobs' \in Seq(Jobs) /\ At(jobs', "install") = {} /\ At(jobs', "test") = {}
  <2>1. \A q \in {<<>>, Enqueue(Enqueue(<<>>, "scan"), "check")} :
           q \in Seq(Jobs) /\ At(q, "install") = {} /\ At(q, "test") = {}
    BY FirstJobs
  <2> QED
    BY <1>1, <2>1
<1>3. /\ worker' = IdleWorker /\ candidate' = NoCandidate
      /\ bootNext' = running' /\ running' \in Partitions /\ loopPc' = "serial"
      /\ config' = stored /\ part' = part /\ latest' = latest
  BY DEF Boot, BootPartition, Other, Partitions
<1>4. \/ ota' = [NoOta EXCEPT !.checking = TRUE]
      \/ ota' = [NoOta EXCEPT !.checking = FALSE]
  <2>1. CASE open
    BY <1>0, <2>1
  <2>2. CASE ~open
    BY <1>0, <2>2
  <2> QED
    BY <2>1, <2>2
<1>5. /\ ota' \in OtaStatus
      /\ ~ota'.available /\ ~ota'.installing
  <2> DEFINE fresh(x) == [checking |-> x, available |-> FALSE, version |-> 0,
                          installing |-> FALSE, resultReady |-> FALSE, success |-> FALSE]
  <2>1. ota' = fresh(TRUE) \/ ota' = fresh(FALSE)
    BY <1>4 DEF NoOta
  <2>2. ~ota'.available /\ ~ota'.installing
    BY <2>1
  <2>3. CASE ota' = fresh(TRUE)
    BY <2>3
  <2>4. CASE ota' = fresh(FALSE)
    BY <2>4
  <2> QED
    BY <2>1, <2>2, <2>3, <2>4
<1>6. DeviceTypes'
  <2>1. worker' \in Workers
    BY <1>3 DEF IdleWorker
  <2>2. candidate' \in Candidates
    BY <1>3 DEF NoCandidate
  <2>3. loopPc' \in Loop /\ config' \in Configs \cup {NoConfig}
    BY <1>3 DEF Loop
  <2> QED
    BY <1>2, <1>3, <1>5, <2>1, <2>2, <2>3, Zenon
<1>7. ReservedInv' /\ SelectInv'
  BY <1>2, <1>3, <1>5 DEF ReservedInv, SelectInv, Once, IdleWorker, InstallSteps,
     SelectedIsIntact
<1>8. NewerInv' /\ TestInv'
  BY <1>2, <1>3, <1>5 DEF NewerInv, TestInv, Once, IdleWorker, NoCandidate
<1> QED
  BY <1>3, <1>6, <1>7, <1>8

\* A step that starts the display anew.
Restarts == \E stored \in {config, NoConfig} : Boot(stored)

\* The actions that do so.
NoBoot ==
    /\ ~RestartConfig /\ ~RestartOta /\ ~SelfTestFails
    /\ ~FactoryReset /\ ~Crash

\* A step that is no restart is none of these.
LEMMA NoBootFacts == ~Restarts => NoBoot
BY DEF NoBoot, Restarts, RestartConfig, RestartOta, SelfTestFails, FactoryReset, Crash

\* Every step keeps the types.
LEMMA TypesStep ==
    ASSUME DeviceTypes, [DeviceNext]_deviceVars, ~Restarts
    PROVE  DeviceTypes'
<1> USE DEF DeviceTypes, Workers, Candidates, OtaStatus, deviceVars, ramVars, flashVars,
   boundVars, mainVars
<1> DEFINE CandidateOK == candidate' \in Candidates
           OtaOK == ota' \in OtaStatus
<1>1. CASE SerialPortal \/ ButtonPortal
  <2>1. OtaOK
    <3> DEFINE fresh == [checking |-> TRUE, available |-> FALSE, version |-> 0,
                         installing |-> FALSE, resultReady |-> FALSE, success |-> FALSE]
    <3>1. ota' = ota \/ ota' = fresh
      BY <1>1 DEF SerialPortal, ButtonPortal, OpenPortal, StartPortal, NoOta
    <3>2. CASE ota' = ota
      BY <3>2
    <3>3. CASE ota' = fresh
      BY <3>3
    <3> QED
      BY <3>1, <3>2, <3>3
  <2>2. jobs' \in Seq(Jobs)
    <3>1. "scan" \in Jobs /\ "check" \in Jobs
      BY DEF Jobs
    <3>2. Enqueue(Enqueue(jobs, "scan"), "check") \in Seq(Jobs)
      BY <3>1, EnqueueFacts
    <3> QED
      BY <1>1, <3>2 DEF SerialPortal, ButtonPortal, OpenPortal, StartPortal
  <2>3. loopPc' \in Loop
    BY <1>1 DEF SerialPortal, ButtonPortal, OpenPortal, Loop
  <2> QED
    BY <1>1, <2>1, <2>2, <2>3 DEF SerialPortal, ButtonPortal, OpenPortal
<1>2. CASE NoRequest \/ ClosePortal \/ KeepPortal \/ NoCommand
           \/ NoPress \/ TakeFetch \/ NoCommit \/ NoFetchDue
           \/ SelfTestPasses \/ NoSelfTest \/ NoRestart
  BY <1>2 DEF NoRequest, ClosePortal, KeepPortal, NoCommand, NoPress, TakeFetch, NoCommit,
     NoFetchDue, SelfTestPasses, NoSelfTest, NoRestart, Pass, Loop
<1>3. CASE PostConfig
  <2>1. jobs' \in Seq(Jobs)
    BY <1>3, EnqueueFacts DEF PostConfig, Jobs
  <2>2. CandidateOK
    <3>1. CASE jobs' # jobs
      BY <1>3, <3>1 DEF PostConfig, NoCandidate
    <3>2. CASE jobs' = jobs
      BY <1>3, <3>2 DEF PostConfig, NoCandidate
    <3> QED
      BY <3>1, <3>2
  <2> QED
    BY <1>3, <2>1, <2>2 DEF PostConfig, Request, Loop
<1>4. CASE PostInstall
  <2>1. jobs' \in Seq(Jobs)
    BY <1>4, EnqueueFacts DEF PostInstall, Jobs
  <2>2. OtaOK
    <3>1. CASE jobs' # jobs
      BY <1>4, <3>1 DEF PostInstall
    <3>2. CASE jobs' = jobs
      BY <1>4, <3>2 DEF PostInstall
    <3> QED
      BY <3>1, <3>2
  <2> QED
    BY <1>4, <2>1, <2>2 DEF PostInstall, Request, Loop
<1>5. CASE CommitCandidate \/ CommitFails \/ TakeOta
  BY <1>5 DEF CommitCandidate, CommitFails, TakeOta, Loop
<1>6. CASE QueueFetch
  <2>1. jobs' \in Seq(Jobs)
    BY <1>6, EnqueueFacts DEF QueueFetch, Jobs
  <2> QED
    BY <1>6, <2>1 DEF QueueFetch, Loop
<1>7. CASE TakeJob
  BY <1>7, TailFacts DEF TakeJob
<1>8. CASE FetchDone \/ ScanDone \/ ManifestRead \/ ManifestFails
           \/ CheckDone \/ InstallFails
  <2>1. CASE FetchDone \/ ScanDone
    BY <2>1 DEF FetchDone, ScanDone, IdleWorker
  <2>2. CASE ManifestRead
    BY <2>2 DEF ManifestRead
  <2>3. CASE ManifestFails \/ InstallFails
    BY <2>3 DEF ManifestFails, InstallFails
  <2>4. CASE CheckDone
    <3>1. OtaOK
      BY <2>4 DEF CheckDone
    <3> QED
      BY <2>4, <3>1 DEF CheckDone, IdleWorker
  <2> QED
    BY <1>8, <2>1, <2>2, <2>3, <2>4
<1>9. CASE TestDone(TRUE) \/ TestDone(FALSE)
  <2>1. CandidateOK
    <3>1. CASE TestDone(TRUE)
      BY <3>1 DEF TestDone
    <3>2. CASE TestDone(FALSE)
      BY <3>2 DEF TestDone
    <3> QED
      BY <1>9, <3>1, <3>2
  <2> QED
    BY <1>9, <2>1 DEF TestDone, IdleWorker
<1>10. CASE EraseSlot \/ Select
  <2>1. Other(running) \in Partitions
    BY DEF Other, Partitions
  <2>2. CASE EraseSlot
    BY <2>1, <2>2 DEF EraseSlot
  <2>3. CASE Select
    BY <2>1, <2>3 DEF Select
  <2> QED
    BY <1>10, <2>2, <2>3
<1>11. CASE InstallDone
  <2>1. OtaOK
    <3>1. CASE worker.at = "installed"
      BY <1>11, <3>1 DEF InstallDone
    <3>2. CASE worker.at # "installed"
      BY <1>11, <3>2 DEF InstallDone
    <3> QED
      BY <3>1, <3>2
  <2> QED
    BY <1>11, <2>1 DEF InstallDone, IdleWorker
<1>12. CASE Publish \/ UNCHANGED deviceVars
  BY <1>12 DEF Publish
<1>13. NoBoot
  BY NoBootFacts
<1> QED
  BY <1>1, <1>2, <1>3, <1>4, <1>5, <1>6, <1>7, <1>8, <1>9, <1>10, <1>11, <1>12, <1>13
  DEF NoBoot, DeviceNext, LoopNext, WorkerNext

\* Who has asked for an install, and how far it is.
LEMMA ReservedStep ==
    ASSUME DeviceTypes, ReservedInv, [DeviceNext]_deviceVars, ~Restarts
    PROVE  ReservedInv'
<1> USE DEF DeviceTypes, Workers, Candidates, OtaStatus, ReservedInv, deviceVars,
   ramVars, flashVars, boundVars, mainVars
<1>0. /\ "install" \in Jobs
      /\ \A job \in {"scan", "check", "test", "fetch"} : job \in Jobs /\ job # "install"
  BY DEF Jobs
<1>1. CASE SerialPortal \/ ButtonPortal
  <2>1. portal' /\ worker' = worker
    BY <1>1 DEF SerialPortal, ButtonPortal, OpenPortal, StartPortal
  <2>2. CASE portal
    BY <1>1, <2>1, <2>2 DEF SerialPortal, ButtonPortal, OpenPortal, StartPortal
  <2>3. CASE ~portal
    <3>1. At(jobs, "install") = {} /\ worker.at \notin InstallSteps
      BY <2>3
    <3>2. jobs' = Enqueue(Enqueue(jobs, "scan"), "check")
      BY <1>1, <2>3 DEF SerialPortal, ButtonPortal, OpenPortal, StartPortal
    <3>3. At(jobs', "install") = {}
      <4>1. /\ Enqueue(jobs, "scan") \in Seq(Jobs)
            /\ At(Enqueue(jobs, "scan"), "install") = {}
        BY <1>0, <3>1, OtherJobs
      <4> QED
        BY <1>0, <3>2, <4>1, OtherJobs
    <3> QED
      BY <2>1, <3>1, <3>3 DEF Once
  <2> QED
    BY <2>2, <2>3
<1>2. CASE /\ UNCHANGED <<portal, jobs, worker, ota>>
  BY <1>2
<1>3. CASE NoRequest \/ KeepPortal \/ NoCommand \/ NoPress
           \/ TakeFetch \/ CommitCandidate \/ CommitFails \/ NoCommit
           \/ NoFetchDue \/ SelfTestPasses \/ NoSelfTest \/ NoRestart
           \/ Publish
  BY <1>2, <1>3 DEF NoRequest, KeepPortal, NoCommand, NoPress, TakeFetch, NoCommit,
     CommitCandidate, CommitFails, NoFetchDue, SelfTestPasses, NoSelfTest, NoRestart,
     Pass, Publish
<1>4. CASE ClosePortal
  BY <1>4 DEF ClosePortal
<1>5. CASE TakeOta
  BY <1>5 DEF TakeOta
<1>6. CASE PostConfig \/ QueueFetch
  <2>1. At(jobs', "install") = At(jobs, "install") /\ Once(jobs', "install")
    <3>1. PICK job \in {"test", "fetch"} : jobs' = Enqueue(jobs, job)
      BY <1>6 DEF PostConfig, QueueFetch
    <3> QED
      BY <1>0, <3>1, OtherJobs
  <2> QED
    BY <1>6, <2>1 DEF PostConfig, QueueFetch
<1>7. CASE PostInstall
  <2>1. At(jobs, "install") = {} /\ worker.at \notin InstallSteps
    BY <1>7 DEF PostInstall, Installable
  <2>2. Once(jobs', "install")
    BY <1>0, <1>7, <2>1, EnqueueFacts DEF PostInstall
  <2>3. jobs' # jobs <=> ota'.installing
    BY <1>7 DEF PostInstall
  <2>4. portal' /\ worker' = worker
    BY <1>7 DEF PostInstall, Request
  <2> QED
    BY <2>1, <2>2, <2>3, <2>4
<1>8. CASE TakeJob
  <2>1. /\ Once(jobs', "install") /\ worker'.at = Head(jobs) /\ Head(jobs) \in Jobs
        /\ At(jobs, Head(jobs)) # {}
        /\ At(jobs', "install") # {} => At(jobs, "install") # {}
        /\ Head(jobs) = "install" => At(jobs', "install") = {}
    BY <1>0, <1>8, TailFacts DEF TakeJob
  <2>2. Head(jobs) \in InstallSteps => Head(jobs) = "install"
    BY <2>1 DEF Jobs, InstallSteps
  <2>3. ota' = ota /\ portal' = portal
    BY <1>8 DEF TakeJob
  <2> QED
    BY <2>1, <2>2, <2>3
<1>9. CASE FetchDone \/ ScanDone \/ TestDone(TRUE)
           \/ TestDone(FALSE) \/ CheckDone
  BY <1>9 DEF FetchDone, ScanDone, TestDone, CheckDone, IdleWorker, InstallSteps
<1>10. CASE ManifestRead \/ ManifestFails
  BY <1>10 DEF ManifestRead, ManifestFails, InstallSteps
<1>11. CASE EraseSlot \/ Select \/ InstallFails
  BY <1>11 DEF EraseSlot, Select, InstallFails, InstallSteps
<1>12. CASE InstallDone
  <2>1. worker.at \in InstallSteps /\ worker'.at \notin InstallSteps
    BY <1>12 DEF InstallDone, IdleWorker, InstallSteps
  <2> QED
    BY <1>12, <2>1 DEF InstallDone
<1>13. NoBoot
  BY NoBootFacts
<1> QED
  BY <1>1, <1>2, <1>3, <1>4, <1>5, <1>6, <1>7, <1>8, <1>9, <1>10, <1>11, <1>12, <1>13
  DEF NoBoot, DeviceNext, LoopNext, WorkerNext

\* Versions: a manifest is accepted, copied and downloaded only if it is newer.
LEMMA NewerStep ==
    ASSUME DeviceTypes, ReservedInv, NewerInv, [DeviceNext]_deviceVars, ~Restarts
    PROVE  NewerInv' /\ running' = running /\ part'[running] = part[running]
<1> USE DEF DeviceTypes, Workers, Candidates, OtaStatus, NewerInv, deviceVars, ramVars,
   flashVars, boundVars, mainVars
<1>1. CASE UNCHANGED <<worker, ota, part, running>>
  BY <1>1
<1>2. CASE NoRequest \/ ClosePortal \/ KeepPortal \/ NoCommand
           \/ NoPress \/ TakeFetch \/ CommitCandidate \/ CommitFails
           \/ PostConfig \/ QueueFetch \/ NoCommit \/ NoFetchDue
           \/ SelfTestPasses \/ NoSelfTest \/ NoRestart \/ Publish
  BY <1>1, <1>2 DEF NoRequest, ClosePortal, KeepPortal, NoCommand, NoPress, TakeFetch,
     NoCommit,
     CommitCandidate, CommitFails, PostConfig, QueueFetch, NoFetchDue, SelfTestPasses,
     NoSelfTest, NoRestart, Pass, Publish
<1>3. CASE SerialPortal \/ ButtonPortal
  BY <1>3 DEF SerialPortal, ButtonPortal, OpenPortal, StartPortal, NoOta
<1>4. CASE PostInstall \/ TakeOta
  BY <1>4 DEF PostInstall, TakeOta
<1>5. CASE TakeJob
  <2>1. /\ worker'.at = Head(jobs) /\ Head(jobs) \in Jobs
        /\ worker'.at = "install" /\ worker'.version > 0 =>
              ota.available /\ worker'.version = ota.version
    BY <1>5, TailFacts DEF TakeJob
  <2> QED
    BY <1>5, <2>1 DEF TakeJob, Jobs
<1>6. CASE FetchDone \/ ScanDone \/ TestDone(TRUE)
           \/ TestDone(FALSE)
  BY <1>6 DEF FetchDone, ScanDone, TestDone, IdleWorker
<1>7. CASE ManifestRead
  BY <1>7 DEF ManifestRead, Acceptable
<1>8. CASE ManifestFails \/ CheckDone \/ InstallFails
  BY <1>8 DEF ManifestFails, CheckDone, InstallFails, IdleWorker
<1>9. CASE EraseSlot \/ Select
  <2>1. Other(running) \in Partitions /\ Other(running) # running
    BY DEF Other, Partitions
  <2> QED
    BY <1>9, <2>1 DEF EraseSlot, Select
<1>10. CASE InstallDone
  BY <1>10 DEF InstallDone, IdleWorker
<1>11. NoBoot
  BY NoBootFacts
<1> QED
  BY <1>1, <1>2, <1>3, <1>4, <1>5, <1>6, <1>7, <1>8, <1>9, <1>10, <1>11
  DEF NoBoot, DeviceNext, LoopNext, WorkerNext

\* The selected partition, and why the loop is going to boot it.
LEMMA SelectStep ==
    ASSUME DeviceTypes, ReservedInv, NewerInv, SelectInv, [DeviceNext]_deviceVars, ~Restarts
    PROVE  SelectInv'
<1> USE DEF DeviceTypes, Workers, Candidates, OtaStatus, SelectInv, SelectedIsIntact,
   deviceVars, ramVars, flashVars, boundVars, mainVars
<1>0. /\ "install" \in Jobs
      /\ \A job \in {"scan", "check", "test", "fetch"} : job \in Jobs /\ job # "install"
  BY DEF Jobs
<1>1. CASE UNCHANGED <<loopPc, portal, jobs, worker, ota, restartOta, part, running, bootNext>>
  BY <1>1
<1>2. CASE NoRequest \/ ClosePortal \/ KeepPortal \/ NoCommand
           \/ NoPress \/ TakeFetch \/ CommitCandidate \/ CommitFails
           \/ NoCommit \/ NoFetchDue \/ SelfTestPasses \/ NoSelfTest
           \/ NoRestart \/ Publish
  BY <1>2 DEF NoRequest, ClosePortal, KeepPortal, NoCommand, NoPress, TakeFetch, NoCommit,
     CommitCandidate, CommitFails, NoFetchDue, SelfTestPasses,
     NoSelfTest, NoRestart, Pass, Publish
<1>3. CASE SerialPortal \/ ButtonPortal
  <2>1. /\ portal' /\ loopPc \in {"serial", "button"}
        /\ UNCHANGED <<worker, restartOta, part, running, bootNext>>
    BY <1>3 DEF SerialPortal, ButtonPortal, OpenPortal, StartPortal
  <2>2. CASE portal
    BY <1>3, <2>1, <2>2 DEF SerialPortal, ButtonPortal, OpenPortal, StartPortal
  <2>3. CASE ~portal
    <3>1. At(jobs, "install") = {} /\ worker.at \notin InstallSteps
      BY <2>3 DEF ReservedInv
    <3>2. jobs' = Enqueue(Enqueue(jobs, "scan"), "check")
      BY <1>3, <2>3 DEF SerialPortal, ButtonPortal, OpenPortal, StartPortal
    <3>3. At(jobs', "install") = {}
      <4>1. /\ Enqueue(jobs, "scan") \in Seq(Jobs)
            /\ At(Enqueue(jobs, "scan"), "install") = {}
        BY <1>0, <3>1, OtherJobs
      <4> QED
        BY <1>0, <3>2, <4>1, OtherJobs
    <3> QED
      BY <2>1, <2>3, <3>1, <3>3 DEF InstallSteps
  <2> QED
    BY <2>2, <2>3
<1>4. CASE PostConfig \/ QueueFetch
  <2>1. At(jobs', "install") = At(jobs, "install")
    <3>1. PICK job \in {"test", "fetch"} : jobs' = Enqueue(jobs, job)
      BY <1>4 DEF PostConfig, QueueFetch
    <3> QED
      BY <1>0, <3>1, OtherJobs
  <2> QED
    BY <1>4, <2>1 DEF PostConfig, QueueFetch, Request
<1>5. CASE PostInstall
  <2>1. worker.at \notin InstallSteps /\ ~ota.resultReady /\ ~restartOta
    BY <1>5 DEF PostInstall, Installable, ReservedInv
  <2>2. bootNext = running
    BY <2>1 DEF InstallSteps
  <2> QED
    BY <1>5, <2>2 DEF PostInstall
<1>6. CASE TakeOta
  BY <1>6 DEF TakeOta
<1>7. CASE TakeJob
  <2>1. /\ worker'.at = Head(jobs) /\ Head(jobs) \in Jobs
        /\ At(jobs, Head(jobs)) # {}
        /\ At(jobs', "install") # {} => At(jobs, "install") # {}
        /\ worker.at = "idle"
    BY <1>0, <1>7, TailFacts DEF TakeJob
  <2>2. Head(jobs) \in {"install", "download", "failed"} => Head(jobs) = "install"
    BY <2>1 DEF Jobs
  <2> QED
    BY <1>7, <2>1, <2>2 DEF TakeJob
<1>8. CASE FetchDone \/ ScanDone \/ TestDone(TRUE)
           \/ TestDone(FALSE) \/ ManifestFails
  BY <1>8 DEF FetchDone, ScanDone, TestDone, ManifestFails, IdleWorker
<1>9. CASE ManifestRead \/ CheckDone
  <2>1. /\ worker.at \in {"check", "checked"} /\ worker'.at \in {"idle", "checked"}
        /\ UNCHANGED <<loopPc, portal, jobs, restartOta, part, running, bootNext>>
    BY <1>9 DEF ManifestRead, CheckDone, IdleWorker
  <2>2. UNCHANGED <<ota.resultReady, ota.success>>
    BY <1>9 DEF ManifestRead, CheckDone
  <2> QED
    BY <2>1, <2>2
<1>10. CASE InstallFails
  BY <1>10 DEF InstallFails
<1>11. CASE EraseSlot
  <2>1. bootNext = running /\ Other(running) # running
    BY <1>11 DEF EraseSlot, Other, Partitions
  <2> QED
    BY <1>11, <2>1 DEF EraseSlot
<1>12. CASE Select
  <2>1. Other(running) \in Partitions /\ Other(running) # running
    BY DEF Other, Partitions
  <2>2. At(jobs, "install") = {}
    BY <1>12 DEF Select, ReservedInv, InstallSteps
  <2>3. /\ part'[bootNext'].whole /\ part'[bootNext'].version = worker.version
        /\ part'[running'] = part[running] /\ worker'.at = "installed" /\ jobs' = jobs
    BY <1>12, <2>1 DEF Select, NewerInv
  <2> QED
    BY <1>12, <2>2, <2>3 DEF Select, NewerInv
<1>13. CASE InstallDone
  <2>1. /\ portal /\ portal' = portal /\ At(jobs, "install") = {}
        /\ UNCHANGED <<jobs, restartOta, part, running, bootNext>>
    BY <1>13 DEF InstallDone, ReservedInv, InstallSteps
  <2>2. CASE worker.at = "installed"
    BY <1>13, <2>1, <2>2 DEF InstallDone, IdleWorker
  <2>3. CASE worker.at = "failed"
    BY <1>13, <2>1, <2>3 DEF InstallDone, IdleWorker
  <2> QED
    BY <1>13, <2>2, <2>3 DEF InstallDone
<1>14. NoBoot
  BY NoBootFacts
<1> QED
  BY <1>1, <1>2, <1>3, <1>4, <1>5, <1>6, <1>7, <1>8, <1>9, <1>10, <1>11, <1>12, <1>13, <1>14
  DEF NoBoot, DeviceNext, LoopNext, WorkerNext

\* One test at a time, and its result is about what is pending.
LEMMA TestStep ==
    ASSUME DeviceTypes, TestInv, [DeviceNext]_deviceVars, ~Restarts
    PROVE  TestInv'
<1> USE DEF DeviceTypes, Workers, Candidates, OtaStatus, TestInv, deviceVars, ramVars,
   flashVars, boundVars, mainVars
<1>0. /\ "test" \in Jobs
      /\ \A job \in {"scan", "check", "install", "fetch"} : job \in Jobs /\ job # "test"
  BY DEF Jobs
<1>1. ASSUME UNCHANGED <<worker, candidate, tested>>,
             At(jobs', "test") = At(jobs, "test"), Once(jobs', "test")
      PROVE  TestInv'
  BY <1>1
<1>2. CASE NoRequest \/ ClosePortal \/ KeepPortal \/ NoCommand
           \/ NoPress \/ TakeFetch \/ CommitCandidate \/ NoCommit
           \/ NoFetchDue \/ TakeOta \/ SelfTestPasses \/ NoSelfTest
           \/ NoRestart \/ Publish \/ UNCHANGED deviceVars
  BY <1>1, <1>2 DEF NoRequest, ClosePortal, KeepPortal, NoCommand, NoPress, TakeFetch,
     NoCommit, CommitCandidate, NoFetchDue, TakeOta, SelfTestPasses, NoSelfTest,
     NoRestart, Pass, Publish
<1>3. CASE SerialPortal \/ ButtonPortal
  <2>1. UNCHANGED <<worker, candidate, tested>>
    BY <1>3 DEF SerialPortal, ButtonPortal, OpenPortal
  <2>2. jobs' = jobs \/ jobs' = Enqueue(Enqueue(jobs, "scan"), "check")
    BY <1>3 DEF SerialPortal, ButtonPortal, OpenPortal, StartPortal
  <2>3. /\ Enqueue(jobs, "scan") \in Seq(Jobs)
        /\ At(Enqueue(jobs, "scan"), "test") = At(jobs, "test")
        /\ Once(Enqueue(jobs, "scan"), "test")
    BY <1>0, OtherJobs
  <2>4. At(jobs', "test") = At(jobs, "test") /\ Once(jobs', "test")
    BY <1>0, <2>2, <2>3, OtherJobs
  <2> QED
    BY <1>1, <2>1, <2>4
<1>4. CASE PostInstall \/ QueueFetch
  <2>1. PICK job \in {"install", "fetch"} : jobs' = Enqueue(jobs, job)
    BY <1>4 DEF PostInstall, QueueFetch
  <2>2. At(jobs', "test") = At(jobs, "test") /\ Once(jobs', "test")
    BY <1>0, <2>1, OtherJobs
  <2> QED
    BY <1>1, <1>4, <2>2 DEF PostInstall, QueueFetch
<1>5. CASE PostConfig
  <2>1. At(jobs, "test") = {} /\ worker.at # "test" /\ worker' = worker
    BY <1>5 DEF PostConfig
  <2>2. Once(jobs', "test")
    BY <1>0, <1>5, <2>1, EnqueueFacts DEF PostConfig
  <2>3. ~candidate'.ready /\ (candidate'.inFlight <=> jobs' # jobs)
    BY <1>5 DEF PostConfig, NoCandidate
  <2> QED
    BY <2>1, <2>2, <2>3
<1>6. CASE CommitFails
  BY <1>6 DEF CommitFails
<1>7. CASE TakeJob
  <2>1. /\ Once(jobs', "test") /\ Head(jobs) \in Jobs
        /\ At(jobs, Head(jobs)) # {}
        /\ At(jobs', "test") # {} => At(jobs, "test") # {}
        /\ Head(jobs) = "test" => At(jobs', "test") = {}
    BY <1>0, <1>7, TailFacts DEF TakeJob
  <2>2. /\ worker'.at = Head(jobs) /\ (Head(jobs) = "test" => worker'.config = candidate.pending)
        /\ UNCHANGED <<candidate, tested>>
    BY <1>7 DEF TakeJob
  <2> QED
    BY <2>1, <2>2
<1>8. CASE FetchDone \/ ScanDone \/ ManifestFails \/ ManifestRead
           \/ CheckDone \/ EraseSlot \/ Select \/ InstallFails
           \/ InstallDone
  <2>1. worker'.at # "test" /\ UNCHANGED <<jobs, candidate, tested>>
    BY <1>8 DEF FetchDone, ScanDone, ManifestFails, ManifestRead, CheckDone, EraseSlot,
       Select, InstallFails, InstallDone, IdleWorker
  <2> QED
    BY <2>1
<1>9. ASSUME NEW ok \in {TRUE, FALSE}, TestDone(ok) PROVE TestInv'
  <2>1. worker'.at # "test" /\ jobs' = jobs /\ At(jobs, "test") = {}
    BY <1>9 DEF TestDone, IdleWorker
  <2>2. candidate'.pending = worker.config /\ (candidate'.success => ok)
    BY <1>9 DEF TestDone
  <2>3. ok => tested' = worker.config
    BY <1>9 DEF TestDone
  <2> QED
    BY <2>1, <2>2, <2>3
<1>10. NoBoot
  BY NoBootFacts
<1> QED
  BY <1>2, <1>3, <1>4, <1>5, <1>6, <1>7, <1>8, <1>9, <1>10
  DEF NoBoot, DeviceNext, LoopNext, WorkerNext

\* A display on its first image, with nothing to do.
LEMMA InitDeviceInv == DeviceInit => DeviceInv
<1> SUFFICES ASSUME DeviceInit PROVE DeviceInv
  OBVIOUS
<1> USE DEF DeviceInit
<1>1. jobs \in Seq(Jobs) /\ \A k : At(jobs, k) = {}
  BY DEF At
<1>2. /\ running = 0 /\ bootNext = 0 /\ worker.at = "idle" /\ latest = 1
      /\ loopPc = "serial" /\ ~ota.installing /\ ~ota.available /\ ~candidate.ready
  BY DEF IdleWorker, NoOta, NoCandidate
<1>3. DeviceTypes
  <2>1. worker \in Workers
    BY DEF IdleWorker, Workers
  <2>2. candidate \in Candidates
    BY DEF NoCandidate, Candidates
  <2>3. ota \in OtaStatus
    BY DEF NoOta, OtaStatus
  <2>4. part \in [Partitions -> [version : Int, whole : BOOLEAN]]
    OBVIOUS
  <2>5. config \in Configs
    OBVIOUS
  <2> QED
    BY <1>1, <1>2, <2>1, <2>2, <2>3, <2>4, <2>5 DEF DeviceTypes, Loop, Partitions
<1> QED
  BY <1>1, <1>2, <1>3 DEF DeviceInv, ReservedInv, SelectInv, SelectedIsIntact, NewerInv,
     TestInv, Once, InstallSteps

\* The invariant is inductive.
LEMMA NextDeviceInv == DeviceInv /\ [DeviceNext]_deviceVars => DeviceInv'
<1> SUFFICES ASSUME DeviceInv, [DeviceNext]_deviceVars PROVE DeviceInv'
  OBVIOUS
<1>1. CASE Restarts
  BY <1>1, BootStep DEF Restarts
<1>2. CASE ~Restarts
  BY <1>2, TypesStep, ReservedStep, NewerStep, SelectStep, TestStep DEF DeviceInv
<1> QED
  BY <1>1, <1>2

\* Requests, jobs, results and restarts of the display agree at every step.
THEOREM DeviceInvariant == DeviceSpec => []DeviceInv
BY InitDeviceInv, NextDeviceInv, PTL DEF DeviceSpec

\* However often the portal is opened and the install requested, the partition
\* that was selected stays whole until it is booted, and is newer than what runs.
THEOREM DeviceSelectedIsIntact == DeviceSpec => []SelectedIsIntact
<1>1. DeviceInv => SelectedIsIntact
  BY DEF DeviceInv, SelectInv
<1> QED
  BY <1>1, DeviceInvariant, PTL

\* The portal commits exactly the configuration that passed its test.
THEOREM DeviceCommittedWasTested == DeviceSpec => CommittedWasTested
<1> DEFINE Tested == config' # config /\ config' # NoConfig => config' = tested
<1>1. DeviceInv /\ [DeviceNext]_deviceVars => [Tested]_deviceVars
  <2> SUFFICES ASSUME DeviceInv, DeviceNext, config' # config, config' # NoConfig
               PROVE  config' = tested
    OBVIOUS
  <2>1. CASE Restarts
    BY <2>1, BootStep DEF Restarts
  <2>2. CASE ~Restarts
    <3>1. NoBoot
      BY <2>2, NoBootFacts
    <3>2. CASE CommitCandidate
      BY <3>2 DEF CommitCandidate, CandidateReady, DeviceInv, TestInv
    <3>3. CASE LoopNext /\ ~CommitCandidate
      BY <3>1, <3>3 DEF NoBoot, LoopNext, SerialPortal, ButtonPortal, OpenPortal,
         NoRequest, PostConfig,
         PostInstall, ClosePortal, KeepPortal, NoCommand, NoPress, TakeFetch, CommitFails,
         NoCommit, NoFetchDue, TakeOta, QueueFetch, SelfTestPasses, NoSelfTest, NoRestart,
         Pass, flashVars
    <3>4. CASE WorkerNext \/ Publish
      BY <3>4 DEF WorkerNext, TakeJob, FetchDone, ScanDone, TestDone, ManifestRead,
         ManifestFails, CheckDone, EraseSlot, Select, InstallFails, InstallDone, Publish,
         mainVars, flashVars
    <3> QED
      BY <3>1, <3>2, <3>3, <3>4 DEF NoBoot, DeviceNext
  <2> QED
    BY <2>1, <2>2
<1> QED
  BY <1>1, DeviceInvariant, PTL DEF DeviceSpec, CommittedWasTested

\* The queue holds no more than it can.
QueueInv == Len(jobs) <= QueueCap

\* Versions that are read, copied and written are versions that were published.
Releases == 0..MaxRelease

ReleaseInv ==
    /\ latest \in Releases /\ worker.version \in Releases /\ ota.version \in Releases
    /\ \A p \in Partitions : part[p].version \in Releases

\* Queueing respects the capacity, whatever the queue holds.
LEMMA QueueFacts ==
    ASSUME NEW q \in Seq(Jobs), Len(q) <= QueueCap, NEW job \in Jobs
    PROVE  Enqueue(q, job) \in Seq(Jobs) /\ Len(Enqueue(q, job)) <= QueueCap
<1>1. QueueCap \in Nat /\ Len(q) \in Nat
  BY DeviceJobsAssumption DEF DeviceJobsAssumption
<1>2. CASE Len(q) < QueueCap
  <2>1. Enqueue(q, job) = Append(q, job)
    BY <1>2 DEF Enqueue
  <2>2. Append(q, job) \in Seq(Jobs) /\ Len(Append(q, job)) = Len(q) + 1
    OBVIOUS
  <2> QED
    BY <1>1, <1>2, <2>1, <2>2
<1>3. CASE ~(Len(q) < QueueCap)
  BY <1>3 DEF Enqueue
<1> QED
  BY <1>2, <1>3

\* Also when an unconfigured display queues its first two jobs at boot.
LEMMA QueueStep ==
    ASSUME DeviceTypes, QueueInv, [DeviceNext]_deviceVars
    PROVE  QueueInv'
<1> USE DEF QueueInv
<1>1. jobs \in Seq(Jobs) /\ Len(jobs) \in Nat /\ QueueCap \in Nat
  BY DeviceJobsAssumption DEF DeviceTypes, DeviceJobsAssumption
<1>2. Jobs = {"fetch", "test", "scan", "check", "install"}
  BY DEF Jobs
<1>3. ASSUME NEW q \in Seq(Jobs), Len(q) <= QueueCap
      PROVE  Len(Enqueue(Enqueue(q, "scan"), "check")) <= QueueCap
  <2>1. Enqueue(q, "scan") \in Seq(Jobs) /\ Len(Enqueue(q, "scan")) <= QueueCap
    BY <1>2, <1>3, QueueFacts
  <2> QED
    BY <1>2, <2>1, QueueFacts
<1>4. CASE Restarts
  <2>1. jobs' = <<>> \/ jobs' = Enqueue(Enqueue(<<>>, "scan"), "check")
    BY <1>4 DEF Restarts, Boot
  <2>2. <<>> \in Seq(Jobs) /\ Len(<<>>) <= QueueCap
    BY <1>1
  <2> QED
    BY <1>3, <2>1, <2>2
<1>5. CASE SerialPortal \/ ButtonPortal
  <2>1. jobs' = jobs \/ jobs' = Enqueue(Enqueue(jobs, "scan"), "check")
    BY <1>5 DEF SerialPortal, ButtonPortal, OpenPortal, StartPortal
  <2> QED
    BY <1>1, <1>3, <2>1
<1>6. CASE PostConfig \/ PostInstall \/ QueueFetch
  <2>1. \E job \in Jobs : jobs' = Enqueue(jobs, job)
    BY <1>2, <1>6 DEF PostConfig, PostInstall, QueueFetch
  <2> QED
    BY <1>1, <2>1, QueueFacts
<1>7. CASE TakeJob
  <2>1. jobs # <<>> /\ jobs' = Tail(jobs)
    BY <1>7 DEF TakeJob
  <2>2. Len(Tail(jobs)) = Len(jobs) - 1
    BY <1>1, <2>1
  <2> QED
    BY <1>1, <2>1, <2>2
<1>8. CASE LoopNext /\ ~Restarts
  <2>1. NoBoot
    BY <1>8, NoBootFacts
  <2>2. CASE UNCHANGED jobs
    BY <2>2
  <2> QED
    BY <1>5, <1>6, <1>8, <2>1, <2>2
    DEF NoBoot, LoopNext, NoRequest, ClosePortal, KeepPortal, NoCommand, NoPress, TakeFetch,
        CommitCandidate, CommitFails, NoCommit, NoFetchDue, TakeOta, SelfTestPasses,
        NoSelfTest, NoRestart, Pass
<1>9. CASE WorkerNext \/ Publish \/ UNCHANGED deviceVars
  <2>1. CASE UNCHANGED jobs
    BY <2>1
  <2> QED
    BY <1>7, <1>9, <2>1
    DEF WorkerNext, FetchDone, ScanDone, TestDone, ManifestRead, ManifestFails, CheckDone,
        EraseSlot, Select, InstallFails, InstallDone, Publish, deviceVars, ramVars
<1>10. FactoryReset \/ Crash => Restarts
  BY DEF FactoryReset, Crash, Restarts
<1> QED
  BY <1>4, <1>8, <1>9, <1>10 DEF DeviceNext

\* A version only travels from the manifest to a partition.
LEMMA ReleaseStep ==
    ASSUME DeviceTypes, ReleaseInv, [DeviceNext]_deviceVars
    PROVE  ReleaseInv'
<1> USE DEF ReleaseInv
<1>1. /\ 0 \in Releases /\ (latest < MaxRelease => latest + 1 \in Releases)
      /\ Other(running) \in Partitions
  BY DeviceJobsAssumption
  DEF DeviceTypes, DeviceJobsAssumption, Releases, Other, Partitions
<1>2. /\ worker \in Workers /\ ota \in OtaStatus
      /\ part \in [Partitions -> [version : Int, whole : BOOLEAN]]
  BY DEF DeviceTypes
<1>3. IdleWorker.version = 0 /\ NoOta.version = 0
  BY DEF IdleWorker, NoOta
<1>4. CASE /\ UNCHANGED <<latest, part>>
           /\ worker'.version \in Releases /\ ota'.version \in Releases
  BY <1>4
<1>5. CASE Restarts
  <2>1. \E c : ota' = [NoOta EXCEPT !.checking = c]
    BY <1>5 DEF Restarts, Boot
  <2>2. ota'.version = 0
    BY <2>1 DEF NoOta
  <2>3. UNCHANGED <<latest, part>> /\ worker' = IdleWorker
    BY <1>5 DEF Restarts, Boot
  <2> QED
    BY <1>1, <1>3, <1>4, <2>2, <2>3
<1>6. CASE SerialPortal \/ ButtonPortal
  <2>1. ota' = ota \/ ota' = [NoOta EXCEPT !.checking = TRUE]
    BY <1>6 DEF SerialPortal, ButtonPortal, OpenPortal, StartPortal
  <2>2. ota'.version \in {ota.version, 0}
    BY <2>1 DEF NoOta
  <2>3. UNCHANGED <<latest, part, worker>>
    BY <1>6 DEF SerialPortal, ButtonPortal, OpenPortal, flashVars
  <2> QED
    BY <1>1, <1>4, <2>2, <2>3
<1>7. CASE PostInstall \/ TakeOta \/ CheckDone \/ InstallDone
  <2>1. /\ ota'.version = ota.version /\ UNCHANGED <<latest, part>>
        /\ worker' = worker \/ worker' = IdleWorker
    BY <1>2, <1>7
    DEF PostInstall, TakeOta, CheckDone, InstallDone, OtaStatus, flashVars, boundVars, mainVars
  <2> QED
    BY <1>1, <1>3, <1>4, <2>1
<1>8. CASE ManifestRead
  <2>1. ota'.version = latest /\ worker'.version = worker.version /\ UNCHANGED <<latest, part>>
    BY <1>2, <1>8 DEF ManifestRead, OtaStatus, Workers, mainVars, boundVars
  <2> QED
    BY <1>4, <2>1
<1>9. CASE TakeJob
  <2>1. UNCHANGED <<latest, part, ota>> /\ worker'.version \in {ota.version, 0}
    BY <1>9 DEF TakeJob, mainVars, boundVars
  <2> QED
    BY <1>1, <1>4, <2>1
<1>10. CASE ManifestFails \/ InstallFails
  <2>1. UNCHANGED <<latest, part, ota>> /\ worker'.version = worker.version
    BY <1>2, <1>10 DEF ManifestFails, InstallFails, Workers, mainVars, boundVars
  <2> QED
    BY <1>4, <2>1
<1>11. CASE EraseSlot \/ Select
  <2>1. UNCHANGED <<latest, ota>> /\ worker'.version = worker.version
    BY <1>2, <1>11 DEF EraseSlot, Select, Workers, mainVars, boundVars
  <2>2. ASSUME NEW p \in Partitions
        PROVE  part'[p].version \in {part[p].version, worker.version}
    <3>1. CASE EraseSlot
      BY <1>1, <1>2, <3>1 DEF EraseSlot
    <3>2. CASE Select
      BY <1>1, <1>2, <3>2 DEF Select
    <3> QED
      BY <1>11, <3>1, <3>2
  <2> QED
    BY <2>1, <2>2
<1>12. CASE FetchDone \/ ScanDone \/ TestDone(TRUE) \/ TestDone(FALSE)
  <2>1. UNCHANGED <<latest, part, ota>> /\ worker' = IdleWorker
    BY <1>12 DEF FetchDone, ScanDone, TestDone, mainVars, boundVars
  <2> QED
    BY <1>1, <1>3, <1>4, <2>1
<1>13. CASE Publish
  <2>1. /\ latest < MaxRelease /\ latest' = latest + 1
        /\ UNCHANGED <<part, worker, ota>>
    BY <1>13 DEF Publish, ramVars, flashVars
  <2> QED
    BY <1>1, <2>1
<1>14. CASE \/ NoRequest \/ PostConfig \/ ClosePortal \/ KeepPortal \/ NoCommand \/ NoPress
            \/ TakeFetch \/ CommitCandidate \/ CommitFails \/ NoCommit \/ QueueFetch
            \/ NoFetchDue \/ SelfTestPasses \/ NoSelfTest \/ NoRestart
            \/ UNCHANGED deviceVars
  <2>1. UNCHANGED <<latest, part, worker, ota>>
    BY <1>14
    DEF NoRequest, PostConfig, ClosePortal, KeepPortal, NoCommand, NoPress, TakeFetch,
        CommitCandidate, CommitFails, NoCommit, QueueFetch, NoFetchDue, SelfTestPasses,
        NoSelfTest, NoRestart, Pass, deviceVars, ramVars, flashVars, boundVars
  <2> QED
    BY <1>4, <2>1
<1>15. CASE ~Restarts
  <2>1. NoBoot
    BY <1>15, NoBootFacts
  <2> QED
    BY <1>6, <1>7, <1>8, <1>9, <1>10, <1>11, <1>12, <1>13, <1>14, <2>1
    DEF NoBoot, DeviceNext, LoopNext, WorkerNext
<1> QED
  BY <1>5, <1>15

\* The two flags that DeviceInv leaves out.
FlagsInv == portal \in BOOLEAN /\ pendingVerify \in BOOLEAN

\* They stay flags.
LEMMA FlagsStep ==
    ASSUME FlagsInv, [DeviceNext]_deviceVars
    PROVE  FlagsInv'
<1> USE DEF FlagsInv
<1>1. CASE Restarts
  BY <1>1 DEF Restarts, Boot
<1>2. CASE SerialPortal \/ ButtonPortal
  BY <1>2 DEF SerialPortal, ButtonPortal, OpenPortal, StartPortal, flashVars
<1>3. CASE ClosePortal
  BY <1>3 DEF ClosePortal, flashVars
<1>4. CASE SelfTestPasses
  BY <1>4 DEF SelfTestPasses
<1>5. CASE \/ NoRequest \/ PostConfig \/ PostInstall \/ KeepPortal \/ NoCommand \/ NoPress
           \/ TakeFetch \/ CommitCandidate \/ CommitFails \/ NoCommit \/ TakeOta
           \/ QueueFetch \/ NoFetchDue \/ NoSelfTest \/ NoRestart \/ UNCHANGED deviceVars
  <2>1. UNCHANGED <<portal, pendingVerify>>
    BY <1>5
    DEF NoRequest, PostConfig, PostInstall, KeepPortal, NoCommand, NoPress, TakeFetch,
        CommitCandidate, CommitFails, NoCommit, TakeOta, QueueFetch, NoFetchDue, NoSelfTest,
        NoRestart, Pass, deviceVars, ramVars, flashVars
  <2> QED
    BY <2>1
<1>6. CASE WorkerNext \/ Publish
  <2>1. UNCHANGED <<portal, pendingVerify>>
    BY <1>6
    DEF WorkerNext, TakeJob, FetchDone, ScanDone, TestDone, ManifestRead, ManifestFails,
        CheckDone, EraseSlot, Select, InstallFails, InstallDone, Publish, mainVars, ramVars,
        flashVars
  <2> QED
    BY <2>1
<1>7. CASE ~Restarts
  <2>1. NoBoot
    BY <1>7, NoBootFacts
  <2> QED
    BY <1>2, <1>3, <1>4, <1>5, <1>6, <2>1 DEF NoBoot, DeviceNext, LoopNext
<1> QED
  BY <1>1, <1>7

\* Every variable keeps its type. The queue never holds more jobs than it can,
\* for every capacity, and only published versions reach a partition.
THEOREM DeviceTypeCorrect == DeviceSpec => []DeviceTypeOK
<1>1. MaxRelease \in Nat \ {0} /\ QueueCap \in Nat
  BY DeviceJobsAssumption DEF DeviceJobsAssumption
<1>2. DeviceInit => QueueInv /\ ReleaseInv /\ FlagsInv
  <2> SUFFICES ASSUME DeviceInit PROVE QueueInv /\ ReleaseInv /\ FlagsInv
    OBVIOUS
  <2>1. Len(jobs) = 0
    BY DEF DeviceInit
  <2>2. latest = 1 /\ worker.version = 0 /\ ota.version = 0
    BY DEF DeviceInit, IdleWorker, NoOta
  <2>3. \A p \in Partitions : part[p].version \in {0, 1}
    BY DEF DeviceInit
  <2>4. portal = FALSE /\ pendingVerify = FALSE
    BY DEF DeviceInit
  <2>5. FlagsInv
    BY <2>4 DEF FlagsInv
  <2> QED
    BY <1>1, <2>1, <2>2, <2>3, <2>5 DEF QueueInv, ReleaseInv, Releases
<1>3. DeviceInv /\ QueueInv /\ [DeviceNext]_deviceVars => QueueInv'
  BY QueueStep DEF DeviceInv
<1>4. DeviceInv /\ ReleaseInv /\ [DeviceNext]_deviceVars => ReleaseInv'
  BY ReleaseStep DEF DeviceInv
<1>5. FlagsInv /\ [DeviceNext]_deviceVars => FlagsInv'
  BY FlagsStep
<1>6. DeviceInv /\ QueueInv /\ ReleaseInv /\ FlagsInv => DeviceTypeOK
  <2> SUFFICES ASSUME DeviceInv, QueueInv, ReleaseInv, FlagsInv PROVE DeviceTypeOK
    OBVIOUS
  <2>1. part \in [Partitions -> Image]
    BY DEF DeviceInv, DeviceTypes, ReleaseInv, Releases, Image
  <2>2. /\ worker.at \in Jobs \cup {"idle", "checked", "download", "installed", "failed"}
        /\ candidate.pending \in Configs \cup {NoConfig}
    BY DEF DeviceInv, DeviceTypes, Workers, Candidates
  <2> QED
    BY <2>1, <2>2 DEF DeviceTypeOK, DeviceInv, DeviceTypes, QueueInv, FlagsInv
<1> QED
  BY <1>2, <1>3, <1>4, <1>5, <1>6, DeviceInvariant, PTL DEF DeviceSpec
=============================================================================
