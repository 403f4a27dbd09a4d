---------------------------- MODULE ObjectStore ----------------------------
(***************************************************************************)
(* The immutable objects of src/athena/persistence.py: put_immutable and    *)
(* get_verified of S3CompatibleObjectStore and of FilesystemProofStore, and *)
(* RecoveryController on top of either.  A client registers bytes of some   *)
(* kind, or backs up a payload: it puts the payload, then the manifest that *)
(* names the reference of the payload, then, for the recovery proof, reads  *)
(* the payload back.                                                       *)
(*                                                                         *)
(* An object's key is its kind and the digest of its bytes; the digest     *)
(* being injective, the bytes stand for it, so a version is whole exactly  *)
(* if its bytes are those of its key.  The bucket is external and          *)
(* versioned: each put adds a version with an id of its own, which is its  *)
(* position in the bucket here; an answer may be lost, the SDK may repeat  *)
(* a put, and another writer may put other bytes under a key.  The proof   *)
(* store is a directory, and writing a file truncates it first.            *)
(***************************************************************************)
EXTENDS RuntimeClients, Functions

CONSTANTS Payloads,  \* the bytes that are put or backed up
          Times      \* readings of the clock that goes into a manifest

(* Bytes of a writer that is not this code: no payload, nor a manifest,     *)
(* which is a pair.                                                        *)
Foreign == <<>>

ASSUME PayloadAssumption == Foreign \notin Payloads

VARIABLES bucket,      \* versions of the S3 bucket, in the order of their puts
          files,       \* proof store: the object files
          metadata,    \* proof store: the .metadata.json files
          job,         \* per client: the operation at work
          references,  \* history: references that put_immutable returned
          overlapped,  \* history: keys that two puts were at work on at once, the
                       \* SDK's repetition of a put counted
          interrupted, \* history: keys of puts that died
          refused      \* history: keys of puts and reads that raised

stores     == <<bucket, files, metadata>>
objectVars == <<stores, job, references, overlapped, interrupted, refused>>

S3Labels    == {"head", "put", "verify"}
ProofLabels == {"look", "compare", "truncate", "fill", "describe", "finish"}
ObjectLabels == S3Labels \cup ProofLabels \cup {"restore"}

-----------------------------------------------------------------------------
(* Keys, references and what they refer to.                                *)

Key(store, kind, bytes) == [store |-> store, kind |-> kind, bytes |-> bytes]
Reference(key, version) == [key |-> key, version |-> version]

(* The proof store derives its version id from the key. *)
ProofVersion == 0
NoKey        == Key("none", "none", Foreign)
NoReference  == Reference(NoKey, ProofVersion)

NoJob == [key |-> NoKey, version |-> ProofVersion, backup |-> NoReference]

KeyOf(p) == job[p].key
OnS3(key) == key.store = "s3"

Absent == "absent"
Torn   == "torn"
Whole  == "whole"
Content(f, key) == IF key \in DOMAIN f THEN f[key] ELSE Absent
Written(f, key, content) == [k \in DOMAIN f \cup {key} |-> IF k = key THEN content ELSE f[k]]

VersionsOf(key) == {v \in DOMAIN bucket : bucket[v].key = key}
Latest(key)     == CHOOSE v \in VersionsOf(key) : \A u \in VersionsOf(key) : u <= v

(* get_verified: the version's bytes have the length and the digest that   *)
(* the reference declares; in the proof store, its metadata is that of the *)
(* reference, too.                                                         *)
LatestRestores(ref) == IF OnS3(ref.key)                                 \* fault
                       THEN bucket[Latest(ref.key)].bytes = ref.key.bytes
                       ELSE Content(files, ref.key) = Whole /\ Content(metadata, ref.key) = Whole
Restores(ref) ==
    IF OnS3(ref.key) THEN /\ ref.version \in VersionsOf(ref.key)
                          /\ bucket[ref.version].bytes = ref.key.bytes
                     ELSE Content(files, ref.key) = Whole /\ Content(metadata, ref.key) = Whole

ObjectInit ==
    /\ bucket = <<>>
    /\ files = [k \in {} |-> Absent] /\ metadata = [k \in {} |-> Absent]
    /\ job = [p \in Procs |-> NoJob]
    /\ references = {} /\ overlapped = {} /\ interrupted = {} /\ refused = {}

-----------------------------------------------------------------------------
(* Beginning and ending a put.                                             *)

ProofEntry(key) == "look"                                             \* fault
Entry(key) == IF OnS3(key) THEN "head" ELSE "look"

Busy(key) == \E q \in Procs : pc[q] \in S3Labels \cup ProofLabels /\ KeyOf(q) = key
NoteOverlap(key) == overlapped' = overlapped \cup {k \in {key} : Busy(k)}

(* put_immutable of a report, or create_backup. *)
BeginPut(p, store, kind, bytes) ==
    LET key == Key(store, kind, bytes)
    IN  /\ Begins(p, Entry(key))
        /\ job' = [job EXCEPT ![p] = [NoJob EXCEPT !.key = key]]
        /\ NoteOverlap(key)
        /\ UNCHANGED <<stores, references, interrupted, refused>>

(* put_immutable returns to its caller, who is done, goes on to put the    *)
(* manifest of the backup, or reads the backup back.                       *)
Returns(p, from, ref) ==
    /\ At(p, from)
    /\ references' = references \cup {ref}
    /\ CASE ref.key.kind = "report" ->
              /\ Steps(p, from, "idle")
              /\ job' = [job EXCEPT ![p] = NoJob] /\ UNCHANGED overlapped
         [] ref.key.kind = "backup" ->
              \E t \in Times :
                  LET manifest == Key(ref.key.store, "recovery_manifest", <<ref, t>>)
                  IN  /\ Steps(p, from, Entry(manifest))
                      /\ job' = [job EXCEPT ![p] = [NoJob EXCEPT !.key = manifest,
                                                               !.backup = ref]]
                      /\ NoteOverlap(manifest)
         [] OTHER ->     \* the manifest
              Steps(p, from, "restore") /\ UNCHANGED <<job, overlapped>>
    /\ UNCHANGED <<interrupted, refused>>

Raises(p, from, key) ==
    /\ Steps(p, from, "idle")
    /\ refused' = refused \cup {key}
    /\ job' = [job EXCEPT ![p] = NoJob]
    /\ UNCHANGED <<stores, references, overlapped, interrupted>>

Advances(p, from, to) ==
    /\ Steps(p, from, to)
    /\ UNCHANGED <<job, references, overlapped, interrupted, refused>>

(* restore_verified *)
Restore(p) ==
    LET ref == job[p].backup
    IN  /\ At(p, "restore")
        /\ IF Restores(ref)
           THEN /\ Steps(p, "restore", "idle")
                /\ job' = [job EXCEPT ![p] = NoJob]
                /\ UNCHANGED <<stores, references, overlapped, interrupted, refused>>
           ELSE Raises(p, "restore", ref.key)

-----------------------------------------------------------------------------
(* S3CompatibleObjectStore.put_immutable.                                  *)

AddVersion(key, bytes) == /\ bucket' = Append(bucket, [key |-> key, bytes |-> bytes])
                          /\ UNCHANGED <<files, metadata>>

NeverFound(p) == FALSE                                                \* fault
Found(p) == VersionsOf(KeyOf(p)) # {}

HeadMisses(p) ==
    /\ At(p, "head") /\ ~Found(p)
    /\ Advances(p, "head", "put")
    /\ UNCHANGED stores

(* Metadata, length and digest of the version that head_object names are   *)
(* compared with the key's before its reference is returned.               *)
Believed(ref) == TRUE                                                 \* fault
ReadsBack(ref) == Restores(ref)

HeadHits(p) ==
    LET ref == Reference(KeyOf(p), Latest(KeyOf(p)))
    IN  /\ At(p, "head") /\ Found(p)
        /\ IF ReadsBack(ref) THEN Returns(p, "head", ref) /\ UNCHANGED stores
                             ELSE Raises(p, "head", ref.key)

(* put_object has no condition, such as IfNoneMatch, that a race could     *)
(* fail.  An answer that is lost for good raises, and leaves what a death  *)
(* in "verify" leaves.                                                     *)
OnlyIfAbsent(p) == ~Found(p)                                          \* fault
PutAccepted(p) == TRUE

Put(p) ==
    /\ At(p, "put")
    /\ IF PutAccepted(p)
       THEN /\ Steps(p, "put", "verify")
            /\ AddVersion(KeyOf(p), KeyOf(p).bytes)
            /\ job' = [job EXCEPT ![p].version = Len(bucket) + 1]
            /\ UNCHANGED <<references, overlapped, interrupted, refused>>
       ELSE Raises(p, "put", KeyOf(p))

(* The head and the get that follow ask for the version that was written. *)
Verify(p) ==
    LET ref == Reference(KeyOf(p), job[p].version)
    IN  /\ At(p, "verify")
        /\ IF ReadsBack(ref) THEN Returns(p, "verify", ref) /\ UNCHANGED stores
                             ELSE Raises(p, "verify", ref.key)

(* The SDK has no answer to its put and repeats it. *)
PutTwice(p) ==
    /\ At(p, "put") /\ Faulty(p, "put")
    /\ AddVersion(KeyOf(p), KeyOf(p).bytes)
    /\ overlapped' = overlapped \cup {KeyOf(p)}
    /\ UNCHANGED <<job, references, interrupted, refused>>

(* Somebody else writes to a key of the bucket. *)
ForeignPut ==
    /\ faults < MaxFaults /\ faults' = faults + 1
    /\ \E v \in DOMAIN bucket : AddVersion(bucket[v].key, Foreign)
    /\ UNCHANGED <<pc, operations, job, references, overlapped, interrupted, refused>>

-----------------------------------------------------------------------------
(* FilesystemProofStore.put_immutable.                                     *)

WriteFile(key, content) == /\ files' = Written(files, key, content)
                           /\ UNCHANGED <<bucket, metadata>>
WriteMetadata(key, content) == /\ metadata' = Written(metadata, key, content)
                               /\ UNCHANGED <<bucket, files>>

LooksAbsent(p) == Content(files, KeyOf(p)) = Absent

LookMisses(p) ==
    /\ At(p, "look") /\ LooksAbsent(p)
    /\ Advances(p, "look", "truncate") /\ UNCHANGED stores

LookHits(p) ==
    /\ At(p, "look") /\ ~LooksAbsent(p)
    /\ IF Content(files, KeyOf(p)) = Whole
       THEN Advances(p, "look", "compare") /\ UNCHANGED stores
       ELSE Raises(p, "look", KeyOf(p))

(* Metadata that is missing or torn raises as well. *)
Compare(p) ==
    /\ At(p, "compare")
    /\ IF Content(metadata, KeyOf(p)) = Whole
       THEN Returns(p, "compare", Reference(KeyOf(p), ProofVersion)) /\ UNCHANGED stores
       ELSE Raises(p, "compare", KeyOf(p))

Truncate(p) == Advances(p, "truncate", "fill") /\ WriteFile(KeyOf(p), Torn)
Fill(p)     == Advances(p, "fill", "describe") /\ WriteFile(KeyOf(p), Whole)
Describe(p) == Advances(p, "describe", "finish") /\ WriteMetadata(KeyOf(p), Torn)
Finish(p)   == /\ Returns(p, "finish", Reference(KeyOf(p), ProofVersion))
               /\ WriteMetadata(KeyOf(p), Whole)

-----------------------------------------------------------------------------
(* A client dies between two accesses to its store. *)
Abandon(p) ==
    /\ pc[p] \in ObjectLabels
    /\ Faulty(p, "idle")
    /\ interrupted' = interrupted \cup {KeyOf(p)}
    /\ job' = [job EXCEPT ![p] = NoJob]
    /\ UNCHANGED <<stores, references, overlapped, refused>>

S3Step(p)    == HeadMisses(p) \/ HeadHits(p) \/ Put(p) \/ Verify(p)
ProofStep(p) == \/ LookMisses(p) \/ LookHits(p) \/ Compare(p)
                \/ Truncate(p) \/ Fill(p) \/ Describe(p) \/ Finish(p)

ObjectNext ==
    \/ \E p \in Procs :
           \/ \E store \in {"s3", "proof"}, kind \in {"report", "backup"}, bytes \in Payloads :
                  BeginPut(p, store, kind, bytes)
           \/ S3Step(p) \/ ProofStep(p) \/ Restore(p)
           \/ PutTwice(p) \/ Abandon(p)
    \/ ForeignPut

-----------------------------------------------------------------------------
(* Properties.                                                             *)

Contents == {Torn, Whole}

ObjectTypeOK ==
    /\ \A v \in DOMAIN bucket : OnS3(bucket[v].key)
    /\ files \in [DOMAIN files -> Contents] /\ metadata \in [DOMAIN metadata -> Contents]
    /\ \A key \in DOMAIN files \cup DOMAIN metadata : ~OnS3(key)
    /\ \A ref \in references : IF OnS3(ref.key) THEN ref.version \in DOMAIN bucket
                                                ELSE ref.version = ProofVersion
    /\ \A p \in Procs : pc[p] \in ObjectLabels => job[p] # NoJob

Contended(key) == ~OnS3(key) /\ key \in overlapped

(* A reference that put_immutable has returned restores its bytes for      *)
(* good: in the bucket whatever other clients do, die in, or write under   *)
(* its key; in the proof store as long as no two puts of the key overlap,  *)
(* for the second of two truncates what the first has returned.            *)
ReferencesRestore == \A ref \in references : Contended(ref.key) \/ Restores(ref)

(* A recovery manifest that is in a store whole, returned or not, names a  *)
(* backup that restores (docs/RUNTIME_PERSISTENCE.md: restore only from    *)
(* verified object versions).                                              *)
Manifests == {key \in {bucket[v].key : v \in DOMAIN bucket} \cup DOMAIN files :
                 key.kind = "recovery_manifest"}
ManifestsRestore ==
    \A key \in Manifests : Contended(key.bytes[1].key) \/ Restores(key.bytes[1])

(* A put or a read-back raises only for bytes that somebody else wrote or, *)
(* in the proof store, for what a death or an overlap left behind: in the  *)
(* bucket neither a race nor a lost answer ever stops the retry.           *)
Overwritten(key) == \E v \in VersionsOf(key) : bucket[v].bytes = Foreign
RefusedOnlyAfterMishap ==
    \A key \in refused :
        IF OnS3(key) THEN Overwritten(key) ELSE key \in overlapped \cup interrupted

(* Putting the same bytes again adds nothing to the bucket, unless two     *)
(* puts were at work at once or the SDK repeated one.                      *)
OwnVersions(key) == {v \in VersionsOf(key) : bucket[v].bytes = key.bytes}
PutsAreIdempotent ==
    \A v \in DOMAIN bucket : \/ bucket[v].key \in overlapped
                             \/ Cardinality(OwnVersions(bucket[v].key)) <= 1
=============================================================================
