--------------------------- MODULE FirmwarePublish ---------------------------
(***************************************************************************)
(* Publication and download of display firmware                            *)
(* (internal/firmware/firmware.go and its lock and rename helpers).        *)
(*                                                                         *)
(* A publisher is one run of "quota-monitor firmware publish".  It installs*)
(* the image under its versioned name and then replaces the manifest, with *)
(* a directory sync after each rename.  It may fail at any call, be killed *)
(* (the kernel drops its lock, its deferred cleanup does not run) or lose  *)
(* power.  After power loss each directory entry holds its value at the    *)
(* last sync or any value written since: renames reach the disk in any     *)
(* order.  Readers are downloads served by the running service.            *)
(***************************************************************************)
EXTENDS Integers

CONSTANTS
    Publishers,     \* concurrent publishing processes
    Readers,        \* concurrent downloads
    Images,         \* image contents; an image stands for its size and hash
    None,           \* no such directory entry
    MaxVersion      \* bound: versions are 1..MaxVersion

VARIABLES
    lock,       \* holder of .publish.lock
    pc,         \* where each publisher is in Publish
    version,    \* options.Version of each publisher
    image,      \* the bytes each publisher staged
    manifest,   \* manifest.json as readers see it
    files,      \* the versioned image files as readers see them
    diskManifest, \* values manifest.json may have after power loss
    diskFiles,    \* values each image file may have after power loss
    reader,     \* the manifest each download in progress has loaded
    result,     \* how each reader's last download ended
    acked,      \* versions whose Publish returned without an error
    faulty      \* a publisher was killed, power was lost or a removal failed

vars == <<lock, pc, version, image, manifest, files, diskManifest, diskFiles,
          reader, result, acked, faulty>>

publisherVars == <<lock, pc, version, image>>
dirVars == <<manifest, files, diskManifest, diskFiles>>
readerVars == <<reader, result>>

-----------------------------------------------------------------------------
Versions == 1..MaxVersion

Manifest == [version : Versions, sha256 : Images]

ASSUME FirmwareAssumption ==
    /\ MaxVersion \in Nat
    /\ None \notin Images /\ None \notin Publishers /\ None \notin Manifest

MaybeImage == Images \cup {None}

Manifests == Manifest \cup {None}

Installed == {"installed", "durable"}     \* imageInstalled, not yet committed

PublisherStates == {"idle", "locked", "staging", "staged", "committed"}
                   \cup Installed

Init ==
    /\ lock = None
    /\ pc = [p \in Publishers |-> "idle"]
    /\ version = [p \in Publishers |-> None]
    /\ image = [p \in Publishers |-> None]
    /\ manifest = None
    /\ files = [v \in Versions |-> None]
    /\ diskManifest = {None}
    /\ diskFiles = [v \in Versions |-> {None}]
    /\ reader = [r \in Readers |-> None]
    /\ result = [r \in Readers |-> "none"]
    /\ acked = {}
    /\ faulty = FALSE

-----------------------------------------------------------------------------
Goto(p, from, to) ==
    /\ pc[p] = from
    /\ pc' = [pc EXCEPT ![p] = to]

\* The options are validated, then acquirePublishLock waits for an exclusive
\* flock.
AcquireLock(p) ==
    /\ lock = None
    /\ lock' = p
    /\ Goto(p, "idle", "locked")
    /\ \E v \in Versions, i \in Images :
          /\ version' = [version EXCEPT ![p] = v]
          /\ image' = [image EXCEPT ![p] = i]
    /\ UNCHANGED <<dirVars, readerVars, acked, faulty>>

\* Mutant of MayPublish: republishing the current version is let through.
MayRepublish(v) == manifest # None => v >= manifest.version

\* The version must be newer than the manifest's, its file must not exist.
MayPublish(v) ==
    /\ manifest # None => v > manifest.version
    /\ files[v] = None

CheckVersion(p) ==
    /\ Goto(p, "locked", "staging")
    /\ MayPublish(version[p])
    /\ UNCHANGED <<lock, version, image, dirVars, readerVars, acked, faulty>>

\* Return from Publish with the lock released by the last deferred call.
Return(p) ==
    /\ lock' = None
    /\ pc' = [pc EXCEPT ![p] = "idle"]
    /\ version' = [version EXCEPT ![p] = None]
    /\ image' = [image EXCEPT ![p] = None]

RefuseVersion(p) ==
    /\ pc[p] = "locked"
    /\ ~MayPublish(version[p])
    /\ Return(p)
    /\ UNCHANGED <<dirVars, readerVars, acked, faulty>>

\* Copy, hash, sync and verify the image, then write and sync the manifest,
\* both in temporary files that no reader opens.
Stage(p) ==
    /\ Goto(p, "staging", "staged")
    /\ UNCHANGED <<lock, version, image, dirVars, readerVars, acked, faulty>>

\* os.Rename of the staged image to its versioned name.
InstallImage(p) ==
    /\ Goto(p, "staged", "installed")
    /\ files' = [files EXCEPT ![version[p]] = image[p]]
    /\ diskFiles' = [diskFiles EXCEPT ![version[p]] = @ \cup {image[p]}]
    /\ UNCHANGED <<lock, version, image, manifest, diskManifest, readerVars,
                   acked, faulty>>

\* syncDirectory: what readers see is what survives.
SyncDirectory ==
    /\ diskManifest' = {manifest}
    /\ diskFiles' = [v \in Versions |-> {files[v]}]
    /\ UNCHANGED <<manifest, files>>

\* Mutant of SyncImage: no directory sync between the two renames.
SyncImageSkipped(p) ==
    /\ Goto(p, "installed", "durable")
    /\ UNCHANGED <<lock, version, image, dirVars, readerVars, acked, faulty>>

SyncImage(p) ==
    /\ Goto(p, "installed", "durable")
    /\ SyncDirectory
    /\ UNCHANGED <<lock, version, image, readerVars, acked, faulty>>

\* atomicReplace of manifest.json; publicationCommitted is set.
CommitManifest(p) ==
    /\ Goto(p, "durable", "committed")
    /\ manifest' = [version |-> version[p], sha256 |-> image[p]]
    /\ diskManifest' = diskManifest \cup {manifest'}
    /\ UNCHANGED <<lock, version, image, files, diskFiles, readerVars, acked,
                   faulty>>

\* Mutant of SyncManifest: success is returned without the last sync.
SyncManifestSkipped(p) ==
    /\ pc[p] = "committed"
    /\ acked' = acked \cup {version[p]}
    /\ Return(p)
    /\ UNCHANGED <<dirVars, readerVars, faulty>>

\* The last sync succeeds and Publish returns the manifest.
SyncManifest(p) ==
    /\ pc[p] = "committed"
    /\ SyncDirectory
    /\ acked' = acked \cup {version[p]}
    /\ Return(p)
    /\ UNCHANGED <<readerVars, faulty>>

\* The last sync fails: an error is returned, the publication stands.
SyncManifestFails(p) ==
    /\ pc[p] = "committed"
    /\ Return(p)
    /\ UNCHANGED <<dirVars, readerVars, acked, faulty>>

\* An error while staging: only temporary files are removed.
FailStaging(p) ==
    /\ pc[p] \in {"staging", "staged"}
    /\ Return(p)
    /\ UNCHANGED <<dirVars, readerVars, acked, faulty>>

\* Mutant of RemoveImage: the deferred cleanup only removes temporary files.
RemoveNothing(p) == UNCHANGED dirVars

\* The deferred cleanup removes the installed image; its sync may fail.
RemoveImage(p) ==
    /\ files' = [files EXCEPT ![version[p]] = None]
    /\ \/ /\ diskManifest' = {manifest}
          /\ diskFiles' = [v \in Versions |-> {files'[v]}]
       \/ /\ diskFiles' = [diskFiles EXCEPT ![version[p]] = @ \cup {None}]
          /\ UNCHANGED diskManifest
    /\ UNCHANGED manifest

\* The first sync or the manifest's rename fails after the image is in place.
FailInstalled(p) ==
    /\ pc[p] \in Installed
    /\ RemoveImage(p)
    /\ Return(p)
    /\ UNCHANGED <<readerVars, acked, faulty>>

\* As FailInstalled, and os.Remove fails too.
FailRemove(p) ==
    /\ pc[p] \in Installed
    /\ faulty' = TRUE
    /\ Return(p)
    /\ UNCHANGED <<dirVars, readerVars, acked>>

Kill(p) ==
    /\ pc[p] # "idle"
    /\ faulty' = TRUE
    /\ Return(p)
    /\ UNCHANGED <<dirVars, readerVars, acked>>

PowerLoss ==
    /\ manifest' \in diskManifest
    /\ files' \in [Versions -> MaybeImage]
    /\ \A v \in Versions : files'[v] \in diskFiles[v]
    /\ diskManifest' = {manifest'}
    /\ diskFiles' = [v \in Versions |-> {files'[v]}]
    /\ lock' = None
    /\ pc' = [p \in Publishers |-> "idle"]
    /\ version' = [p \in Publishers |-> None]
    /\ image' = [p \in Publishers |-> None]
    /\ reader' = [r \in Readers |-> None]
    /\ faulty' = TRUE
    /\ UNCHANGED <<result, acked>>

-----------------------------------------------------------------------------
(* OpenVerifiedImage: load the manifest, then open and verify its image.   *)

LoadManifest(r) ==
    /\ reader[r] = None
    /\ manifest # None
    /\ reader' = [reader EXCEPT ![r] = manifest]
    /\ UNCHANGED <<publisherVars, dirVars, result, acked, faulty>>

\* ErrInvalidManifest for a missing image, ErrHashMismatch for a wrong one.
OpenImage(r) ==
    /\ reader[r] # None
    /\ result' = [result EXCEPT ![r] =
                    IF files[reader[r].version] = None THEN "missing"
                    ELSE IF files[reader[r].version] # reader[r].sha256
                         THEN "mismatch" ELSE "served"]
    /\ reader' = [reader EXCEPT ![r] = None]
    /\ UNCHANGED <<publisherVars, dirVars, acked, faulty>>

-----------------------------------------------------------------------------
PublisherNext(p) ==
    \/ AcquireLock(p) \/ CheckVersion(p) \/ RefuseVersion(p) \/ Stage(p)
    \/ InstallImage(p) \/ SyncImage(p) \/ CommitManifest(p)
    \/ SyncManifest(p) \/ SyncManifestFails(p)
    \/ FailStaging(p) \/ FailInstalled(p) \/ FailRemove(p) \/ Kill(p)

Next ==
    \/ \E p \in Publishers : PublisherNext(p)
    \/ PowerLoss
    \/ \E r \in Readers : LoadManifest(r)
    \/ \E r \in Readers : OpenImage(r)

Spec == Init /\ [][Next]_vars
-----------------------------------------------------------------------------
\* Every variable has the shape of what it stands for.
TypeOK ==
    /\ lock \in Publishers \cup {None}
    /\ pc \in [Publishers -> PublisherStates]
    /\ version \in [Publishers -> Versions \cup {None}]
    /\ image \in [Publishers -> MaybeImage]
    /\ manifest \in Manifests
    /\ files \in [Versions -> MaybeImage]
    /\ diskManifest \in SUBSET Manifests
    /\ diskFiles \in [Versions -> SUBSET MaybeImage]
    /\ reader \in [Readers -> Manifests]
    /\ result \in [Readers -> {"none", "served", "missing", "mismatch"}]
    /\ acked \in SUBSET Versions
    /\ faulty \in BOOLEAN

\* "An interrupted publication cannot make readers observe a manifest that
\* points at a partial file" (comment on Publish): at every moment, and after
\* every power loss, the manifest names a complete image with its hash.
ManifestHasImage ==
    manifest # None => files[manifest.version] = manifest.sha256

\* A download never ends in ErrInvalidManifest or ErrHashMismatch, also when
\* publications, their failures and their cleanup come between reading the
\* manifest and opening the image.
DownloadsSucceed == \A r \in Readers : result[r] \in {"none", "served"}

\* A version whose publication was reported as successful is never taken
\* back, not even by power loss: the manifest is at that version or newer.
PublicationDurable ==
    \A v \in acked : manifest # None /\ manifest.version >= v

\* Without a kill, a power loss or a failed removal, no image stays behind
\* that was not published: the same version can be published again.
NoOrphanImage ==
    ~faulty /\ lock = None =>
        \A v \in Versions :
            files[v] # None => manifest # None /\ v <= manifest.version
=============================================================================
