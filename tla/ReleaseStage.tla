----------------------------- MODULE ReleaseStage -----------------------------
(***************************************************************************)
(* A release from its sources to the handles a deployment uses             *)
(* (release_stage_set, release_staged and its proof and hash parts,        *)
(* release).  The builder hashes each role's source, creates the release   *)
(* directory, copies the sources and writes the manifest.  The catalog     *)
(* opens a release without following links, checks the manifest against    *)
(* the digest the owner approved, checks and holds every role, and checks  *)
(* everything once more at the end and before it hands a role out.         *)
(*                                                                         *)
(* The owner of the catalog changes modes, writes files that are writable, *)
(* and replaces files and directories between any two calls, at most       *)
(* MaxEdits times.  One directory stands for the catalog's root and its    *)
(* ancestors, one for the release and those below it.                      *)
(***************************************************************************)
EXTENDS FiniteSets, Naturals

CONSTANTS
    RoleCount,   \* the fixed roles
    MaxEdits     \* bound on the changes of sources, files and directories

ASSUME StageAssumption == RoleCount \in Nat \ {0} /\ MaxEdits \in Nat

VARIABLES
    sources,   \* the bytes of each role's source
    catalog,   \* where the paths of the catalog lead
    blob,      \* the role files: bytes and mode
    builder,   \* stage_release_set
    stager,    \* the call in progress and the capability it makes or uses
    deployed   \* the owner's configuration and approval

stageVars == <<sources, catalog, blob, builder, stager, deployed>>

Role    == 1..RoleCount
Version == {1, 2}
Spare   == RoleCount + 1
Blob    == 1..Spare

\* A manifest, with the inode it is in: its digests of the roles and of the
\* configuration, the greatest store schema it supports, and whether it is
\* well formed.
ManifestIn(inode, roles, config, schema, valid) ==
    [inode |-> inode, roles |-> roles, config |-> config, schema |-> schema, valid |-> valid]

NoCapability == [root |-> 0, release |-> 0, manifest |-> {}, held |-> [r \in {} |-> 0]]

\* What may be deployed before the first call: nothing is approved yet.
Deployments ==
    [config : {1}, roles : {[r \in R |-> v] : R \in SUBSET Role, v \in Version},
     schema : {1}, approved : {{}}]

\* deployed: the configuration with the digests of the roles it starts, the
\* schema of the stores, and the manifest whose digest the owner gives to stage.
\* stager.written: the files written since the call in progress began.
StageInit ==
    /\ sources = [r \in Role |-> 1]
    /\ catalog = [root |-> 1, release |-> 0, writable |-> TRUE, entry |-> [r \in Role |-> {}],
                  manifest |-> {}, second |-> FALSE, edits |-> 0]
    /\ blob = [b \in Blob |-> [text |-> 2, writable |-> b # Spare]]
    /\ builder = [pc |-> "hash", r |-> 1, hashes |-> [r \in Role |-> 0]]
    /\ stager = [pc |-> "idle", call |-> "none", r |-> 1, digest |-> 0, cap |-> NoCapability,
                 written |-> {}]
    /\ deployed \in Deployments

-----------------------------------------------------------------------------
(* stage_release_set. *)

BuilderGoes(pc, r) == builder' = [builder EXCEPT !.pc = pc, !.r = r]

\* The sources are not admitted, a call fails or the process ends; what was
\* written stays.
BuilderFails ==
    /\ builder.pc \notin {"done", "failed"}
    /\ BuilderGoes("failed", 1)
    /\ UNCHANGED <<sources, catalog, blob, stager, deployed>>

\* hash_file_bounded.
HashSource ==
    /\ builder.pc = "hash"
    /\ builder' = [builder EXCEPT !.hashes[builder.r] = sources[builder.r],
                                  !.pc = IF builder.r = RoleCount THEN "mkdir" ELSE @,
                                  !.r = IF @ = RoleCount THEN 1 ELSE @ + 1]
    /\ UNCHANGED <<sources, catalog, blob, stager, deployed>>

\* The assembled manifest is validated, and the directory must be new.
MakeRelease ==
    /\ builder.pc = "mkdir" /\ catalog.release = 0
    /\ catalog' = [catalog EXCEPT !.release = 1]
    /\ BuilderGoes("copy", 1)
    /\ UNCHANGED <<sources, blob, stager, deployed>>

\* copy_bounded: the source is opened again; the file must be new.
CopySource ==
    /\ builder.pc = "copy" /\ catalog.release = 1 /\ catalog.entry[builder.r] = {}
    /\ blob' = [blob EXCEPT ![builder.r] = [text |-> sources[builder.r], writable |-> TRUE]]
    /\ catalog' = [catalog EXCEPT !.entry[builder.r] = {builder.r}]
    /\ IF builder.r = RoleCount THEN BuilderGoes("manifest", 1) ELSE BuilderGoes("copy", builder.r + 1)
    /\ UNCHANGED <<sources, stager, deployed>>

\* write_new of the manifest; the owner approves the digest that is reported.
WriteManifest ==
    /\ builder.pc = "manifest" /\ catalog.release = 1 /\ catalog.manifest = {}
    /\ LET m == ManifestIn(1, builder.hashes, deployed.config, deployed.schema, TRUE)
       IN  /\ catalog' = [catalog EXCEPT !.manifest = {m}]
           /\ deployed' = [deployed EXCEPT !.approved = {m}]
    /\ BuilderGoes("done", 1)
    /\ UNCHANGED <<sources, blob, stager>>

-----------------------------------------------------------------------------
(* The owner. *)

Edits(new) == catalog.edits < MaxEdits /\ catalog' = [new EXCEPT !.edits = @ + 1]

\* The built tree is made read-only.
Protect ==
    /\ builder.pc = "done" /\ catalog.writable
    /\ catalog' = [catalog EXCEPT !.writable = FALSE]
    /\ blob' = [b \in Blob |-> [blob[b] EXCEPT !.writable = FALSE]]
    /\ UNCHANGED <<sources, builder, stager, deployed>>

EditSource ==
    /\ builder.pc \in {"hash", "mkdir", "copy"} /\ Edits(catalog)
    /\ \E r \in Role : sources' = [sources EXCEPT ![r] = 3 - @]
    /\ UNCHANGED <<blob, builder, stager, deployed>>

Chmod ==
    /\ ~catalog.writable /\ Edits(catalog)
    /\ \E b \in Role : blob' = [blob EXCEPT ![b].writable = ~@]
    /\ UNCHANGED <<sources, builder, stager, deployed>>

WriteBlob ==
    /\ Edits(catalog)
    /\ \E b \in Role :
          /\ blob[b].writable
          /\ blob' = [blob EXCEPT ![b].text = 3 - @]
          /\ stager' = [stager EXCEPT !.written = IF stager.pc = "idle" THEN @ ELSE @ \cup {b}]
    /\ UNCHANGED <<sources, builder, deployed>>

\* In the protected catalog a role's path leads to another file, or to none; the
\* manifest is rewritten or replaced; a directory is replaced or made writable;
\* a file appears under the manifest's second name.
Replace ==
    /\ \/ \E r \in Role, to \in {{}, {Spare}} \cup {{b} : b \in Role} :
             Edits([catalog EXCEPT !.entry[r] = to])
       \/ \E inode \in {1, 2}, v \in Version :
             Edits([catalog EXCEPT !.manifest =
                        {ManifestIn(inode, [r \in Role |-> v], deployed.config, 2, TRUE)}])
       \/ Edits([catalog EXCEPT !.manifest = {ManifestIn(2, builder.hashes, 1, 1, FALSE)}])
       \/ Edits([catalog EXCEPT !.release = 2])
       \/ Edits([catalog EXCEPT !.root = 2])
       \/ Edits([catalog EXCEPT !.writable = TRUE])
       \/ Edits([catalog EXCEPT !.second = TRUE])
    /\ ~catalog.writable
    /\ UNCHANGED <<sources, blob, builder, stager, deployed>>

\* The configuration or a store changes; a call has taken both as arguments.
Reconfigure ==
    /\ stager.pc = "idle" /\ Edits(catalog)
    /\ \/ deployed.config = 1 /\ deployed' = [deployed EXCEPT !.config = 2]
       \/ deployed.schema = 1 /\ deployed' = [deployed EXCEPT !.schema = 2]
    /\ UNCHANGED <<sources, blob, builder, stager>>

-----------------------------------------------------------------------------
(* The catalog: what is checked. *)

\* open_directory_path, without following a link.
OpenedRoot == catalog.root

\* open_directory_child, through the handle of the root.
OpenedRelease == catalog.release

\* open_manifest: exactly one of the two names.
OpenedManifest == IF catalog.second THEN {} ELSE catalog.manifest

\* open_relative_file, through the handle of the release.
OpenedRole(r) == catalog.entry[r]

\* digest_bounded, at offsets of the handle.
DigestOf(b) == blob[b].text

\* validate_ancestor_directory_identity: the path leads to what is held.
RootHeld == catalog.root = stager.cap.root

\* validate_directory_handle: the directory is not writable.
ReleaseProtected == catalog.release # 0 /\ ~catalog.writable

\* validate_directory_identity.
ReleaseHeld == ReleaseProtected /\ catalog.release = stager.cap.release

\* validate_protection: read-only, and one link.
Links(b) == Cardinality({r \in Role : b \in catalog.entry[r]})
Protected(b) == ~blob[b].writable /\ Links(b) <= 1

\* The path leads to the file of the handle.
AtPath(r, b) == b \in catalog.entry[r]

\* check_deployment_compatibility, for stage.
DeploymentCompatible(m) ==
    \A a \in deployed.approved : m.config = a.config /\ deployed.schema <= m.schema

\* The manifest that was opened, and the file opened for a role.
Parsed == CHOOSE m \in stager.cap.manifest : TRUE
HeldBlob(r) == stager.cap.held[r]

\* validate_config_bindings: the configuration has the digest of each role that
\* it starts.
ConfigBinds == \A r \in DOMAIN deployed.roles : Parsed.roles[r] = deployed.roles[r]

StagerGoes(pc) == stager' = [stager EXCEPT !.pc = pc, !.r = 1]
StageEnds(cap) == stager' = [stager EXCEPT !.pc = "idle", !.call = "none", !.r = 1, !.digest = 0,
                                      !.cap = cap, !.written = {}]
OnlyStager == UNCHANGED <<sources, catalog, blob, builder, deployed>>

\* A check fails, or a call to the system.
StagerFails ==
    /\ stager.pc # "idle"
    /\ StageEnds(IF stager.call = "handle" THEN stager.cap ELSE NoCapability) /\ OnlyStager

-----------------------------------------------------------------------------
(* stage and inspect. *)

\* ProtectedReleaseCatalog::open, and the arguments of the call.
OpenCatalog(call) ==
    /\ stager.pc = "idle" /\ builder.pc = "done"
    /\ stager' = [stager EXCEPT !.pc = "release", !.call = call,
                                !.cap = [NoCapability EXCEPT !.root = OpenedRoot]]
    /\ OnlyStager

OpenRelease ==
    /\ stager.pc = "release" /\ RootHeld /\ ReleaseProtected
    /\ stager' = [stager EXCEPT !.pc = "manifest", !.cap.release = OpenedRelease]
    /\ OnlyStager

\* Mutant: any manifest will do.
StageAnyManifest ==
    /\ stager.pc = "manifest" /\ stager.call = "stage" /\ OpenedManifest # {}
    /\ \A m \in OpenedManifest :
          m.valid /\ DeploymentCompatible(m) /\ m.config = deployed.config
    /\ stager' = [stager EXCEPT !.pc = "open", !.cap.manifest = OpenedManifest]
    /\ OnlyStager

\* stage: the bytes have the approved digest, and the manifest the current
\* configuration.
StageManifest ==
    /\ stager.pc = "manifest" /\ stager.call = "stage" /\ OpenedManifest # {}
    /\ \A m \in OpenedManifest :
          /\ \E a \in deployed.approved : [a EXCEPT !.inode = m.inode] = m
          /\ m.valid /\ DeploymentCompatible(m) /\ m.config = deployed.config
    /\ stager' = [stager EXCEPT !.pc = "open", !.cap.manifest = OpenedManifest]
    /\ OnlyStager

\* inspect: a well-formed manifest, which is read twice.
InspectManifest ==
    /\ stager.pc = "manifest" /\ stager.call = "inspect" /\ OpenedManifest # {}
    /\ \A m \in OpenedManifest : m.valid
    /\ stager' = [stager EXCEPT !.pc = "reread", !.cap.manifest = OpenedManifest]
    /\ OnlyStager

RereadManifest ==
    /\ stager.pc = "reread" /\ catalog.manifest = stager.cap.manifest
    /\ StagerGoes("open") /\ OnlyStager

\* The first half of validate_file_handle: the mode and the path are checked,
\* then the bytes are hashed.
OpenRole ==
    /\ stager.pc = "open"
    /\ \E b \in OpenedRole(stager.r) :
          /\ Protected(b)
          /\ stager' = [stager EXCEPT !.pc = "after", !.digest = DigestOf(b),
                  !.cap.held = [r \in 1..stager.r |-> IF r = stager.r THEN b ELSE HeldBlob(r)]]
    /\ OnlyStager

\* The second half: the mode and the path again, the digest; and an inode that
\* no other role has.  stage then compares the configuration.
CheckRole ==
    LET b == HeldBlob(stager.r) IN
    /\ stager.pc = "after" /\ Protected(b) /\ AtPath(stager.r, b)
    /\ stager.digest = Parsed.roles[stager.r]
    /\ \A r \in 1..(stager.r - 1) : HeldBlob(r) # b
    /\ IF stager.r < RoleCount
       THEN stager' = [stager EXCEPT !.pc = "open", !.r = @ + 1]
       ELSE (stager.call = "stage" => ConfigBinds) /\ StagerGoes("dirs")
    /\ OnlyStager

-----------------------------------------------------------------------------
(* verify_held of the capability, and the last checks of inspect. *)

VerifyDirectories ==
    /\ stager.pc = "dirs" /\ ReleaseHeld
    /\ stager.call # "inspect" => RootHeld
    /\ StagerGoes("again") /\ OnlyStager

VerifyManifest ==
    /\ stager.pc = "again" /\ catalog.manifest = stager.cap.manifest
    /\ StagerGoes("rehash") /\ OnlyStager

RehashRole ==
    /\ stager.pc = "rehash" /\ Protected(HeldBlob(stager.r)) /\ AtPath(stager.r, HeldBlob(stager.r))
    /\ stager' = [stager EXCEPT !.pc = "recheck", !.digest = DigestOf(HeldBlob(stager.r))]
    /\ OnlyStager

RecheckRole ==
    /\ stager.pc = "recheck" /\ Protected(HeldBlob(stager.r)) /\ AtPath(stager.r, HeldBlob(stager.r))
    /\ stager.digest = Parsed.roles[stager.r]
    /\ IF stager.r < RoleCount
       THEN stager' = [stager EXCEPT !.pc = "rehash", !.r = @ + 1]
       ELSE StagerGoes(IF stager.call = "inspect" THEN "catalog" ELSE "return")
    /\ OnlyStager

\* The catalog's own verify_held, the last check of inspect.
VerifyCatalog == stager.pc = "catalog" /\ RootHeld /\ StagerGoes("return") /\ OnlyStager

\* The capability, the inspection, or the handle of a role.
Return ==
    /\ stager.pc = "return"
    /\ StageEnds(IF stager.call = "inspect" THEN NoCapability ELSE stager.cap) /\ OnlyStager

\* Mutant: a capability was verified when it was made.
RoleHandleAtOnce ==
    /\ stager.pc = "idle" /\ stager.cap.manifest # {}
    /\ stager' = [stager EXCEPT !.pc = "return", !.call = "handle"]
    /\ OnlyStager

\* role_handle: everything held is verified first.
RoleHandle ==
    /\ stager.pc = "idle" /\ stager.cap.manifest # {}
    /\ stager' = [stager EXCEPT !.pc = "dirs", !.call = "handle"]
    /\ OnlyStager

StageNext ==
    \/ HashSource \/ MakeRelease \/ CopySource \/ WriteManifest \/ BuilderFails
    \/ Protect \/ EditSource \/ Chmod \/ WriteBlob \/ Replace \/ Reconfigure
    \/ \E call \in {"stage", "inspect"} : OpenCatalog(call)
    \/ OpenRelease \/ StageManifest \/ InspectManifest \/ RereadManifest
    \/ OpenRole \/ CheckRole
    \/ VerifyDirectories \/ VerifyManifest \/ RehashRole \/ RecheckRole \/ VerifyCatalog
    \/ Return \/ RoleHandle \/ StagerFails

StageSpec == StageInit /\ [][StageNext]_stageVars

-----------------------------------------------------------------------------
(* Properties. *)

\* A release that is staged or inspected, and a role that is handed out later,
\* is what its manifest says: every role has a file of its own with the digest
\* of the manifest, unless that file was written during the very call - whatever
\* was done to modes, files and directories before it.
VerifiedIsCurrent ==
    [][stager.pc = "return" /\ stager'.pc = "idle" =>
          \A r \in Role :
             /\ HeldBlob(r) \in stager.written \/ blob[HeldBlob(r)].text = Parsed.roles[r]
             /\ \A q \in Role : HeldBlob(r) = HeldBlob(q) => r = q]_stageVars

\* A capability is for the release whose manifest the owner approved, with the
\* digests that its configuration expects; a source that changed between its
\* hash and its copy therefore never becomes one.
StagedIsApproved ==
    stager.cap.manifest # {} /\ stager.call \in {"none", "handle"} =>
        /\ \A a \in deployed.approved : Parsed.roles = a.roles
        /\ ConfigBinds
================================================================================
