---------------------------- MODULE BlobGcProofs ----------------------------
(***************************************************************************)
(* Proofs about BlobGc, for any sets of blobs, paths, stores, uploads and  *)
(* instances.  GcInv is the inductive invariant: an upload in flight owns  *)
(* its blob (UploadsOwn) and no pass may delete it yet (UploadsGraced); a  *)
(* pass about to delete files has removed the records that name them       *)
(* (RecordsSwept) and has every finished upload's artifact in its filter   *)
(* (OwnUnthreatened).  One lemma per action, one step per conjunct the     *)
(* action can disturb.                                                     *)
(***************************************************************************)
EXTENDS BlobGc, TLAPS

USE ConstantsAssumption

\* What the type says of an upload in flight.
LEMMA UploadFields ==
  ASSUME TypeOK, NEW c \in Clients, up[c].at # "idle"
  PROVE  /\ up[c].blob \in Blobs /\ up[c].key \in Keys /\ up[c].path \in Paths
         /\ up[c].at \in {"claim", "reread", "force"} => up[c].eff = None
         /\ up[c].at \in {"commit", "dedup", "drop"} => up[c].eff \in Blobs
         /\ up[c].at \in {"claim", "reread", "force", "commit", "dedup", "drop"}
  BY DEF TypeOK, Upload, NoUpload

\* WriteBlob keeps GcInv: the fresh id is nobody's candidate, record or artifact.
LEMMA WriteBlobStep ==
  ASSUME GcInv, TypeOK', NEW c \in Clients, NEW b \in Blobs,
         NEW k \in Keys, NEW p \in Paths,
         WriteBlob(c, b, k, p)
  PROVE  GcInv'
<1>1. PassShape' /\ RecordsSwept' /\ OwnUnthreatened'
  BY DEF GcInv, PassShape, RecordsSwept, OwnUnthreatened, InFlight, WriteBlob,
       collector, passVars, candVars, schedule, storage
<1>2. UploadsOwn'
  BY DEF GcInv, TypeOK, UploadsOwn, NamesIssued, WriteBlob, InFlight,
       collector, passVars, candVars, schedule, storage
<1>3. UploadsGraced'
  BY DEF GcInv, TypeOK, UploadsGraced, NamesIssued, WriteBlob, InFlight,
       collector, passVars, candVars, schedule, storage
<1>4. NamesIssued'
  BY DEF GcInv, TypeOK, NamesIssued, WriteBlob, collector, passVars, candVars,
       schedule, storage
<1>5. OwnUploadKept'
  BY DEF GcInv, TypeOK, OwnUploadKept, WriteBlob, collector, passVars,
       candVars, schedule, storage
<1>6. RecordHasFile'
  BY DEF GcInv, TypeOK, RecordHasFile, WriteBlob, collector, passVars,
       candVars, schedule, storage
<1> QED
  BY <1>1, <1>2, <1>3, <1>4, <1>5, <1>6 DEF GcInv

\* ClaimHash keeps GcInv: the record an upload claims names its own, graced blob.
LEMMA ClaimHashStep ==
  ASSUME GcInv, TypeOK', NEW c \in Clients,
         ClaimHash(c)
  PROVE  GcInv'
<1>a. /\ up \in [Clients -> Upload] /\ InFlight(c)
      /\ up[c].blob \in Blobs /\ up[c].key \in Keys /\ up[c].path \in Paths
  BY UploadFields DEF GcInv, TypeOK, InFlight, ClaimHash
<1>b. /\ \A d \in Clients \ {c} : up'[d] = up[d]
      /\ up'[c].blob = up[c].blob /\ up'[c].key = up[c].key
      /\ \/ /\ recs[up[c].key] = None /\ up'[c].at = "commit"
            /\ up'[c].eff = up[c].blob
            /\ recs' = [recs EXCEPT ![up[c].key] = up[c].blob]
         \/ up'[c].at = "reread" /\ recs' = recs
      /\ up[c].at = "claim" /\ files' = files /\ art' = art /\ issued' = issued
  BY <1>a DEF ClaimHash, Advance
<1>c. recs \in [Keys -> Blobs \cup {None}]
  BY DEF GcInv, TypeOK
<1>1. PassShape' /\ OwnUnthreatened' /\ OwnUploadKept'
  BY DEF GcInv, PassShape, OwnUnthreatened, OwnUploadKept, InFlight,
       ClaimHash, collector, passVars, candVars, schedule, storage
<1>2. UploadsOwn'
  BY <1>a, <1>b, <1>c DEF GcInv, UploadsOwn, InFlight
<1>3. UploadsGraced'
  BY <1>a, <1>b DEF GcInv, UploadsGraced, InFlight, ClaimHash, candVars,
       collector, passVars
<1>4. NamesIssued'
  BY <1>a, <1>b, <1>c
     DEF GcInv, NamesIssued, UploadsOwn, ClaimHash, collector, passVars, candVars
<1>5. RecordsSwept'
  BY <1>a, <1>b, <1>c
     DEF GcInv, RecordsSwept, UploadsGraced, ClaimHash, collector, passVars,
         candVars
<1>6. RecordHasFile'
  BY <1>a, <1>b, <1>c DEF GcInv, RecordHasFile, UploadsOwn
<1> QED
  BY <1>1, <1>2, <1>3, <1>4, <1>5, <1>6 DEF GcInv

\* RereadRecord keeps GcInv: it changes the upload only.
LEMMA RereadRecordStep ==
  ASSUME GcInv, TypeOK', NEW c \in Clients,
         RereadRecord(c)
  PROVE  GcInv'
<1>a. /\ up \in [Clients -> Upload] /\ InFlight(c)
      /\ up[c].blob \in Blobs /\ up[c].key \in Keys /\ up[c].path \in Paths
  BY UploadFields DEF GcInv, TypeOK, InFlight, RereadRecord
<1>b. /\ \A d \in Clients \ {c} : up'[d] = up[d]
      /\ up'[c].blob = up[c].blob /\ up'[c].key = up[c].key
      /\ \/ up'[c].at = "force"
         \/ up'[c].at = "dedup" /\ up'[c].eff = recs[up[c].key]
            /\ recs[up[c].key] # None
      /\ up[c].at = "reread"
      /\ recs' = recs /\ files' = files /\ art' = art /\ issued' = issued
  BY <1>a DEF RereadRecord, Advance, storage
<1>1. /\ NamesIssued' /\ PassShape' /\ RecordsSwept' /\ OwnUnthreatened'
      /\ OwnUploadKept' /\ RecordHasFile'
  BY DEF GcInv, NamesIssued, PassShape, RecordsSwept, OwnUnthreatened,
       OwnUploadKept, RecordHasFile, InFlight, RereadRecord, collector,
       passVars, candVars, schedule, storage
<1>2. UploadsOwn'
  BY <1>a, <1>b DEF GcInv, UploadsOwn, NamesIssued, InFlight
<1>3. UploadsGraced'
  BY <1>a, <1>b DEF GcInv, UploadsGraced, InFlight, RereadRecord, candVars,
       collector, passVars
<1> QED
  BY <1>1, <1>2, <1>3 DEF GcInv

\* ForceRecord keeps GcInv: the forced record names the upload's own file.
LEMMA ForceRecordStep ==
  ASSUME GcInv, TypeOK', NEW c \in Clients,
         ForceRecord(c)
  PROVE  GcInv'
<1>a. /\ up \in [Clients -> Upload] /\ InFlight(c)
      /\ up[c].blob \in Blobs /\ up[c].key \in Keys /\ up[c].path \in Paths
  BY UploadFields DEF GcInv, TypeOK, InFlight, ForceRecord
<1>b. /\ \A d \in Clients \ {c} : up'[d] = up[d]
      /\ up'[c].blob = up[c].blob /\ up'[c].key = up[c].key
      /\ up'[c].at = "commit" /\ up'[c].eff = up[c].blob
      /\ recs' = [recs EXCEPT ![up[c].key] = up[c].blob]
      /\ up[c].at = "force" /\ files' = files /\ art' = art /\ issued' = issued
  BY <1>a DEF ForceRecord, Advance
<1>c. recs \in [Keys -> Blobs \cup {None}]
  BY DEF GcInv, TypeOK
<1>1. PassShape' /\ OwnUnthreatened' /\ OwnUploadKept'
  BY DEF GcInv, PassShape, OwnUnthreatened, OwnUploadKept, InFlight,
       ForceRecord, collector, passVars, candVars, schedule, storage
<1>2. UploadsOwn'
  BY <1>a, <1>b, <1>c DEF GcInv, UploadsOwn, InFlight
<1>3. UploadsGraced'
  BY <1>a, <1>b DEF GcInv, UploadsGraced, InFlight, ForceRecord, candVars,
       collector, passVars
<1>4. NamesIssued'
  BY <1>a, <1>b, <1>c
     DEF GcInv, NamesIssued, UploadsOwn, ForceRecord, collector, passVars, candVars
<1>5. RecordsSwept'
  BY <1>a, <1>b, <1>c
     DEF GcInv, RecordsSwept, UploadsGraced, ForceRecord, collector, passVars,
         candVars
<1>6. RecordHasFile'
  BY <1>a, <1>b, <1>c DEF GcInv, RecordHasFile, UploadsOwn
<1> QED
  BY <1>1, <1>2, <1>3, <1>4, <1>5, <1>6 DEF GcInv

\* PutArtifact keeps GcInv: an own artifact references a blob no pass may delete.
LEMMA PutArtifactStep ==
  ASSUME GcInv, TypeOK', NEW c \in Clients,
         PutArtifact(c)
  PROVE  GcInv'
<1>a. /\ up \in [Clients -> Upload] /\ InFlight(c)
      /\ up[c].blob \in Blobs /\ up[c].key \in Keys /\ up[c].path \in Paths
  BY UploadFields DEF GcInv, TypeOK, InFlight, PutArtifact
<1>b. /\ \A d \in Clients \ {c} : up'[d] = up[d]
      /\ \/ up'[c].at = "idle"
         \/ /\ up'[c].at = "drop" /\ up[c].at = "dedup"
            /\ up'[c].blob = up[c].blob /\ up'[c].key = up[c].key
      /\ up[c].at \in {"commit", "dedup"}
      /\ recs' = recs /\ files' = files /\ issued' = issued
  BY <1>a DEF PutArtifact, Advance, Finish, NoUpload
<1>c. /\ \A q \in Paths \ {up[c].path} : art'[q] = art[q]
      /\ art'[up[c].path].blob = up[c].eff
      /\ art'[up[c].path].own => up[c].at = "commit"
  BY <1>a DEF GcInv, TypeOK, PutArtifact
<1>d. up[c].eff \in issued /\ (up[c].at = "commit" => up[c].eff = up[c].blob)
  BY <1>a, <1>b DEF GcInv, UploadsOwn
<1>1. PassShape' /\ RecordsSwept' /\ RecordHasFile'
  BY DEF GcInv, PassShape, RecordsSwept, RecordHasFile, InFlight, PutArtifact,
       collector, passVars, candVars, schedule, storage
<1>2. UploadsOwn'
  <2>1. \A q \in Paths, d \in Clients :
          InFlight(d) /\ ~(d = c /\ up[c].at = "commit") /\ art'[q] # None
            /\ art'[q].own => art'[q].blob # up[d].blob
    BY <1>a, <1>b, <1>c, <1>d DEF GcInv, UploadsOwn, InFlight
  <2> QED
    BY <1>a, <1>b, <2>1 DEF GcInv, UploadsOwn, InFlight
<1>3. UploadsGraced'
  BY <1>a, <1>b DEF GcInv, UploadsGraced, InFlight, PutArtifact, candVars,
       collector, passVars
<1>4. NamesIssued'
  BY <1>a, <1>b, <1>c, <1>d
     DEF GcInv, NamesIssued, PutArtifact, collector, passVars, candVars
<1>5. OwnUnthreatened'
  <2> SUFFICES ASSUME NEW i \in Instances, NEW q \in Paths,
                      mode[i] # "dryrun", pc[i] # "idle", q \notin toScan[i],
                      art'[q] # None, art'[q].own,
                      art'[q].blob \in ripe[i] \ filter[i]
               PROVE  pc[i] = "scan" /\ q \in doomed[i]
    BY DEF OwnUnthreatened, PutArtifact, collector, passVars, candVars
  <2>1. q # up[c].path
    BY <1>a, <1>c, <1>d DEF GcInv, UploadsGraced
  <2> QED
    BY <2>1, <1>c DEF GcInv, OwnUnthreatened
<1>6. OwnUploadKept'
  BY <1>a, <1>b, <1>c, <1>d DEF GcInv, OwnUploadKept, UploadsOwn
<1> QED
  BY <1>1, <1>2, <1>3, <1>4, <1>5, <1>6 DEF GcInv

\* DropDuplicate keeps GcInv: nothing but the upload names the duplicate file.
LEMMA DropDuplicateStep ==
  ASSUME GcInv, TypeOK', NEW c \in Clients,
         DropDuplicate(c)
  PROVE  GcInv'
<1>a. /\ up \in [Clients -> Upload] /\ InFlight(c)
      /\ up[c].blob \in Blobs /\ up[c].key \in Keys /\ up[c].path \in Paths
  BY UploadFields DEF GcInv, TypeOK, InFlight, DropDuplicate
<1>b. /\ \A d \in Clients \ {c} : up'[d] = up[d]
      /\ \/ up'[c].at = "idle"
         \/ up[c].at = "dedup" /\ up' = up
      /\ up[c].at \in {"dedup", "drop"}
      /\ files' = files \ {up[c].blob}
      /\ recs' = recs /\ art' = art /\ issued' = issued
  BY <1>a DEF DropDuplicate, Finish, NoUpload
<1>1. PassShape' /\ RecordsSwept' /\ OwnUnthreatened'
  BY DEF GcInv, PassShape, RecordsSwept, OwnUnthreatened, InFlight,
       DropDuplicate, collector, passVars, candVars, schedule, storage
<1>2. UploadsOwn'
  BY <1>a, <1>b DEF GcInv, UploadsOwn, InFlight
<1>3. UploadsGraced'
  BY <1>a, <1>b DEF GcInv, UploadsGraced, InFlight, DropDuplicate, candVars,
       collector, passVars
<1>4. NamesIssued'
  BY <1>a, <1>b
     DEF GcInv, NamesIssued, DropDuplicate, collector, passVars, candVars
<1>5. OwnUploadKept'
  BY <1>a, <1>b DEF GcInv, OwnUploadKept, UploadsOwn
<1>6. RecordHasFile'
  BY <1>a, <1>b DEF GcInv, RecordHasFile, UploadsOwn
<1> QED
  BY <1>1, <1>2, <1>3, <1>4, <1>5, <1>6 DEF GcInv

\* AbortUpload keeps GcInv: what the upload wrote stays behind, unreferenced.
LEMMA AbortUploadStep ==
  ASSUME GcInv, TypeOK', NEW c \in Clients,
         AbortUpload(c)
  PROVE  GcInv'
<1>a. /\ up \in [Clients -> Upload] /\ InFlight(c)
      /\ up[c].blob \in Blobs /\ up[c].key \in Keys /\ up[c].path \in Paths
  BY UploadFields DEF GcInv, TypeOK, InFlight, AbortUpload
<1>b. /\ \A d \in Clients \ {c} : up'[d] = up[d]
      /\ up'[c].at = "idle"
      /\ recs' = recs /\ files' = files /\ art' = art /\ issued' = issued
  BY <1>a DEF AbortUpload, Finish, NoUpload, storage
<1>1. /\ NamesIssued' /\ PassShape' /\ RecordsSwept' /\ OwnUnthreatened'
      /\ OwnUploadKept' /\ RecordHasFile'
  BY DEF GcInv, NamesIssued, PassShape, RecordsSwept, OwnUnthreatened,
       OwnUploadKept, RecordHasFile, InFlight, AbortUpload, collector,
       passVars, candVars, schedule, storage
<1>2. UploadsOwn'
  BY <1>a, <1>b DEF GcInv, UploadsOwn, InFlight
<1>3. UploadsGraced'
  BY <1>a, <1>b DEF GcInv, UploadsGraced, InFlight, AbortUpload, candVars
<1> QED
  BY <1>1, <1>2, <1>3 DEF GcInv

\* DeleteArtifact keeps GcInv.
LEMMA DeleteArtifactStep ==
  ASSUME GcInv, TypeOK', NEW p \in Paths,
         DeleteArtifact(p)
  PROVE  GcInv'
<1>1. UploadsGraced' /\ PassShape' /\ RecordsSwept' /\ RecordHasFile'
  BY DEF GcInv, UploadsGraced, PassShape, RecordsSwept, RecordHasFile,
       InFlight, DeleteArtifact, collector, passVars, candVars, schedule,
       upVars
<1>2. UploadsOwn'
  BY DEF GcInv, TypeOK, UploadsOwn, DeleteArtifact, InFlight, collector,
       passVars, candVars, schedule, upVars
<1>3. NamesIssued'
  BY DEF GcInv, TypeOK, NamesIssued, DeleteArtifact, collector, passVars,
       candVars, schedule, upVars
<1>4. OwnUnthreatened'
  BY DEF GcInv, TypeOK, OwnUnthreatened, DeleteArtifact, collector, passVars,
       candVars, schedule, upVars
<1>5. OwnUploadKept'
  BY DEF GcInv, TypeOK, OwnUploadKept, DeleteArtifact, collector, passVars,
       candVars, schedule, upVars
<1> QED
  BY <1>1, <1>2, <1>3, <1>4, <1>5 DEF GcInv

\* AgeArtifact keeps GcInv.
LEMMA AgeArtifactStep ==
  ASSUME GcInv, TypeOK', NEW p \in Paths,
         AgeArtifact(p)
  PROVE  GcInv'
<1>1. UploadsGraced' /\ PassShape' /\ RecordsSwept' /\ RecordHasFile'
  BY DEF GcInv, UploadsGraced, PassShape, RecordsSwept, RecordHasFile,
       InFlight, AgeArtifact, collector, passVars, candVars, schedule, upVars
<1>2. UploadsOwn'
  BY DEF GcInv, TypeOK, UploadsOwn, AgeArtifact, InFlight, collector,
       passVars, candVars, schedule, upVars
<1>3. NamesIssued'
  BY DEF GcInv, TypeOK, NamesIssued, AgeArtifact, collector, passVars,
       candVars, schedule, upVars
<1>4. OwnUnthreatened'
  BY DEF GcInv, TypeOK, OwnUnthreatened, AgeArtifact, collector, passVars,
       candVars, schedule, upVars
<1>5. OwnUploadKept'
  BY DEF GcInv, TypeOK, OwnUploadKept, AgeArtifact, collector, passVars,
       candVars, schedule, upVars
<1> QED
  BY <1>1, <1>2, <1>3, <1>4, <1>5 DEF GcInv

\* TouchArtifact keeps GcInv.
LEMMA TouchArtifactStep ==
  ASSUME GcInv, TypeOK', NEW p \in Paths,
         TouchArtifact(p)
  PROVE  GcInv'
<1>1. UploadsGraced' /\ PassShape' /\ RecordsSwept' /\ RecordHasFile'
  BY DEF GcInv, UploadsGraced, PassShape, RecordsSwept, RecordHasFile,
       InFlight, TouchArtifact, collector, passVars, candVars, schedule,
       upVars
<1>2. UploadsOwn'
  BY DEF GcInv, TypeOK, UploadsOwn, TouchArtifact, InFlight, collector,
       passVars, candVars, schedule, upVars
<1>3. NamesIssued'
  BY DEF GcInv, TypeOK, NamesIssued, TouchArtifact, collector, passVars,
       candVars, schedule, upVars
<1>4. OwnUnthreatened'
  BY DEF GcInv, TypeOK, OwnUnthreatened, TouchArtifact, collector, passVars,
       candVars, schedule, upVars
<1>5. OwnUploadKept'
  BY DEF GcInv, TypeOK, OwnUploadKept, TouchArtifact, collector, passVars,
       candVars, schedule, upVars
<1> QED
  BY <1>1, <1>2, <1>3, <1>4, <1>5 DEF GcInv

\* A scheduled start keeps GcInv: by Grace no candidate that becomes ripe belongs
\* to an upload in flight.
LEMMA StartScheduledStep ==
  ASSUME GcInv, TypeOK', NEW i \in Instances,
         StartScheduled(i), Grace(i)
  PROVE  GcInv'
<1>1. UploadsOwn' /\ OwnUploadKept' /\ RecordHasFile'
  BY DEF GcInv, UploadsOwn, OwnUploadKept, RecordHasFile, InFlight,
       StartScheduled, BeginPass, storage, upVars, uploads, passVars,
       candVars, schedule
<1>2. UploadsGraced'
  <2> SUFFICES ASSUME NEW d \in Clients, InFlight(d)', NEW j \in Instances
               PROVE  /\ up'[d].blob \notin ripe'[j]
                      /\ up'[d].blob \in fresh'[j] =>
                           pc'[j] # "idle" \/ j \in seen'[d]
    BY DEF UploadsGraced
  <2>1. InFlight(d) /\ up'[d].blob = up[d].blob
    BY DEF GcInv, TypeOK, InFlight, StartScheduled, BeginPass, Grace, Due,
         storage, upVars, uploads, passVars, candVars, schedule
  <2>2. /\ up[d].blob \notin ripe[j]
        /\ up[d].blob \in fresh[j] => pc[j] # "idle" \/ j \in seen[d]
    BY <2>1 DEF GcInv, UploadsGraced
  <2> QED
    BY <2>1, <2>2 DEF GcInv, TypeOK, StartScheduled, BeginPass, Grace, Due,
         InFlight, storage, upVars, uploads, passVars, candVars, schedule
<1>3. NamesIssued'
  BY DEF GcInv, TypeOK, NamesIssued, StartScheduled, BeginPass, Grace, Due,
       storage, upVars, uploads, passVars, candVars, schedule
<1>4. PassShape'
  BY DEF GcInv, TypeOK, PassShape, StartScheduled, BeginPass, Grace, Due,
       storage, upVars, uploads, passVars, candVars, schedule
<1>5. RecordsSwept'
  BY DEF GcInv, TypeOK, RecordsSwept, StartScheduled, BeginPass, Grace, Due,
       storage, upVars, uploads, passVars, candVars, schedule
<1>6. OwnUnthreatened'
  BY DEF GcInv, TypeOK, OwnUnthreatened, StartScheduled, BeginPass, Grace,
       Due, storage, upVars, uploads, passVars, candVars, schedule
<1> QED
  BY <1>1, <1>2, <1>3, <1>4, <1>5, <1>6 DEF GcInv

\* RequestPass keeps GcInv: it changes the request queue only.
LEMMA RequestPassStep ==
  ASSUME GcInv, TypeOK', NEW i \in Instances, NEW m \in Requests,
         RequestPass(i, m)
  PROVE  GcInv'
<1>1. /\ UploadsOwn' /\ UploadsGraced' /\ NamesIssued' /\ PassShape'
      /\ RecordsSwept' /\ OwnUnthreatened' /\ OwnUploadKept' /\ RecordHasFile'
  BY DEF GcInv, UploadsOwn, UploadsGraced, NamesIssued, PassShape,
       RecordsSwept, OwnUnthreatened, OwnUploadKept, RecordHasFile, InFlight,
       RequestPass, storage, upVars, uploads, passVars, candVars, schedule
<1> QED
  BY <1>1 DEF GcInv

\* A manual start keeps GcInv, for the same reason as a scheduled one.
LEMMA StartManualStep ==
  ASSUME GcInv, TypeOK', NEW i \in Instances, NEW m \in Requests,
         StartManual(i, m), Grace(i)
  PROVE  GcInv'
<1>1. UploadsOwn' /\ OwnUploadKept' /\ RecordHasFile'
  BY DEF GcInv, UploadsOwn, OwnUploadKept, RecordHasFile, InFlight,
       StartManual, BeginPass, storage, upVars, uploads, passVars, candVars,
       schedule
<1>2. UploadsGraced'
  <2> SUFFICES ASSUME NEW d \in Clients, InFlight(d)', NEW j \in Instances
               PROVE  /\ up'[d].blob \notin ripe'[j]
                      /\ up'[d].blob \in fresh'[j] =>
                           pc'[j] # "idle" \/ j \in seen'[d]
    BY DEF UploadsGraced
  <2>1. InFlight(d) /\ up'[d].blob = up[d].blob
    BY DEF GcInv, TypeOK, InFlight, StartManual, BeginPass, Grace, storage,
         upVars, uploads, passVars, candVars, schedule
  <2>2. /\ up[d].blob \notin ripe[j]
        /\ up[d].blob \in fresh[j] => pc[j] # "idle" \/ j \in seen[d]
    BY <2>1 DEF GcInv, UploadsGraced
  <2> QED
    BY <2>1, <2>2 DEF GcInv, TypeOK, StartManual, BeginPass, Grace, InFlight,
         storage, upVars, uploads, passVars, candVars, schedule
<1>3. NamesIssued'
  BY DEF GcInv, TypeOK, NamesIssued, StartManual, BeginPass, Grace, storage,
       upVars, uploads, passVars, candVars, schedule
<1>4. PassShape'
  BY DEF GcInv, TypeOK, PassShape, StartManual, BeginPass, Grace, storage,
       upVars, uploads, passVars, candVars, schedule
<1>5. RecordsSwept'
  BY DEF GcInv, TypeOK, RecordsSwept, StartManual, BeginPass, Grace, storage,
       upVars, uploads, passVars, candVars, schedule
<1>6. OwnUnthreatened'
  BY DEF GcInv, TypeOK, OwnUnthreatened, StartManual, BeginPass, Grace,
       storage, upVars, uploads, passVars, candVars, schedule
<1> QED
  BY <1>1, <1>2, <1>3, <1>4, <1>5, <1>6 DEF GcInv

\* ScanArtifact keeps GcInv: a scanned artifact is in the filter or on the expired list.
LEMMA ScanArtifactStep ==
  ASSUME GcInv, TypeOK', NEW i \in Instances, NEW p \in Paths,
         ScanArtifact(i, p)
  PROVE  GcInv'
<1>1. /\ UploadsOwn' /\ UploadsGraced' /\ NamesIssued' /\ OwnUploadKept'
      /\ RecordHasFile'
  BY DEF GcInv, UploadsOwn, UploadsGraced, NamesIssued, OwnUploadKept,
       RecordHasFile, InFlight, ScanArtifact, SetBit, storage, upVars,
       uploads, passVars, candVars, schedule
<1>2. PassShape'
  BY DEF GcInv, TypeOK, PassShape, ScanArtifact, SetBit, storage, upVars,
       uploads, passVars, candVars, schedule
<1>3. RecordsSwept'
  BY DEF GcInv, TypeOK, RecordsSwept, ScanArtifact, SetBit, storage, upVars,
       uploads, passVars, candVars, schedule
<1>4. OwnUnthreatened'
  BY DEF GcInv, TypeOK, OwnUnthreatened, ScanArtifact, SetBit, storage,
       upVars, uploads, passVars, candVars, schedule
<1> QED
  BY <1>1, <1>2, <1>3, <1>4 DEF GcInv

\* ExpireArtifact keeps GcInv: it removes an artifact record.
LEMMA ExpireArtifactStep ==
  ASSUME GcInv, TypeOK', NEW i \in Instances, NEW p \in Paths,
         ExpireArtifact(i, p)
  PROVE  GcInv'
<1>1. UploadsGraced' /\ PassShape' /\ RecordHasFile'
  BY DEF GcInv, UploadsGraced, PassShape, RecordHasFile, InFlight,
       ExpireArtifact, storage, upVars, uploads, passVars, candVars, schedule
<1>2. UploadsOwn'
  BY DEF GcInv, TypeOK, UploadsOwn, ExpireArtifact, InFlight, storage, upVars,
       uploads, passVars, candVars, schedule
<1>3. NamesIssued'
  BY DEF GcInv, TypeOK, NamesIssued, ExpireArtifact, storage, upVars, uploads,
       passVars, candVars, schedule
<1>4. RecordsSwept'
  BY DEF GcInv, TypeOK, RecordsSwept, ExpireArtifact, storage, upVars,
       uploads, passVars, candVars, schedule
<1>5. OwnUnthreatened'
  BY DEF GcInv, TypeOK, OwnUnthreatened, ExpireArtifact, storage, upVars,
       uploads, passVars, candVars, schedule
<1>6. OwnUploadKept'
  BY DEF GcInv, TypeOK, OwnUploadKept, ExpireArtifact, storage, upVars,
       uploads, passVars, candVars, schedule
<1> QED
  BY <1>1, <1>2, <1>3, <1>4, <1>5, <1>6 DEF GcInv

\* SealFilter keeps GcInv: the filter only grows and candidates only go.
LEMMA SealFilterStep ==
  ASSUME GcInv, TypeOK', NEW i \in Instances,
         SealFilter(i)
  PROVE  GcInv'
<1>1. UploadsOwn' /\ OwnUploadKept' /\ RecordHasFile'
  BY DEF GcInv, UploadsOwn, OwnUploadKept, RecordHasFile, InFlight,
       SealFilter, storage, upVars, uploads, passVars, candVars, schedule
<1>2. UploadsGraced'
  <2> SUFFICES ASSUME NEW d \in Clients, InFlight(d)', NEW j \in Instances
               PROVE  /\ up'[d].blob \notin ripe'[j]
                      /\ up'[d].blob \in fresh'[j] =>
                           pc'[j] # "idle" \/ j \in seen'[d]
    BY DEF UploadsGraced
  <2>1. InFlight(d) /\ up'[d].blob = up[d].blob
    BY DEF GcInv, TypeOK, InFlight, SealFilter, AllJoined, storage, upVars,
         uploads, passVars, candVars, schedule
  <2>2. /\ up[d].blob \notin ripe[j]
        /\ up[d].blob \in fresh[j] => pc[j] # "idle" \/ j \in seen[d]
    BY <2>1 DEF GcInv, UploadsGraced
  <2> QED
    BY <2>1, <2>2 DEF GcInv, TypeOK, SealFilter, AllJoined, storage, upVars,
         uploads, passVars, candVars, schedule
<1>3. NamesIssued'
  BY DEF GcInv, TypeOK, NamesIssued, SealFilter, AllJoined, storage, upVars,
       uploads, passVars, candVars, schedule
<1>4. PassShape'
  BY DEF GcInv, TypeOK, PassShape, SealFilter, AllJoined, storage, upVars,
       uploads, passVars, candVars, schedule
<1>5. RecordsSwept'
  BY DEF GcInv, TypeOK, RecordsSwept, SealFilter, AllJoined, storage, upVars,
       uploads, passVars, candVars, schedule
<1>6. OwnUnthreatened'
  BY DEF GcInv, TypeOK, OwnUnthreatened, SealFilter, AllJoined, storage,
       upVars, uploads, passVars, candVars, schedule
<1> QED
  BY <1>1, <1>2, <1>3, <1>4, <1>5, <1>6 DEF GcInv

\* SweepRecords keeps GcInv: every record of a deletable file of the store is listed.
LEMMA SweepRecordsStep ==
  ASSUME GcInv, TypeOK', NEW i \in Instances, NEW s \in Stores,
         SweepRecords(i, s)
  PROVE  GcInv'
<1>1. UploadsOwn' /\ OwnUploadKept' /\ RecordHasFile'
  BY DEF GcInv, UploadsOwn, OwnUploadKept, RecordHasFile, InFlight,
       SweepRecords, storage, upVars, uploads, passVars, candVars, schedule
<1>2. UploadsGraced'
  <2> SUFFICES ASSUME NEW d \in Clients, InFlight(d)', NEW j \in Instances
               PROVE  /\ up'[d].blob \notin ripe'[j]
                      /\ up'[d].blob \in fresh'[j] =>
                           pc'[j] # "idle" \/ j \in seen'[d]
    BY DEF UploadsGraced
  <2>1. InFlight(d) /\ up'[d].blob = up[d].blob
    BY DEF GcInv, TypeOK, InFlight, SweepRecords, Unreferenced, storage,
         upVars, uploads, passVars, candVars, schedule
  <2>2. /\ up[d].blob \notin ripe[j]
        /\ up[d].blob \in fresh[j] => pc[j] # "idle" \/ j \in seen[d]
    BY <2>1 DEF GcInv, UploadsGraced
  <2> QED
    BY <2>1, <2>2 DEF GcInv, TypeOK, SweepRecords, Unreferenced, storage,
         upVars, uploads, passVars, candVars, schedule
<1>3. NamesIssued'
  BY DEF GcInv, TypeOK, NamesIssued, SweepRecords, Unreferenced, NoWalk,
       storage, upVars, uploads, passVars, candVars, schedule
<1>4. PassShape'
  BY DEF GcInv, TypeOK, PassShape, SweepRecords, Unreferenced, NoWalk,
       storage, upVars, uploads, passVars, candVars, schedule
<1>5. RecordsSwept'
  BY DEF GcInv, TypeOK, RecordsSwept, NamesIssued, SweepRecords, Unreferenced,
       storage, upVars, uploads, passVars, candVars, schedule
<1>6. OwnUnthreatened'
  BY DEF GcInv, TypeOK, OwnUnthreatened, SweepRecords, Unreferenced, storage,
       upVars, uploads, passVars, candVars, schedule
<1> QED
  BY <1>1, <1>2, <1>3, <1>4, <1>5, <1>6 DEF GcInv

\* PurgeRecords keeps GcInv: no record names a file the walk may delete.
LEMMA PurgeRecordsStep ==
  ASSUME GcInv, TypeOK', NEW i \in Instances,
         PurgeRecords(i)
  PROVE  GcInv'
<1>1. OwnUploadKept'
  BY DEF GcInv, OwnUploadKept, InFlight, PurgeRecords, storage, upVars,
       uploads, passVars, candVars, schedule
<1>2. UploadsOwn'
  BY DEF GcInv, TypeOK, UploadsOwn, PurgeRecords, InFlight, storage, upVars,
       uploads, passVars, candVars, schedule
<1>3. UploadsGraced'
  <2> SUFFICES ASSUME NEW d \in Clients, InFlight(d)', NEW j \in Instances
               PROVE  /\ up'[d].blob \notin ripe'[j]
                      /\ up'[d].blob \in fresh'[j] =>
                           pc'[j] # "idle" \/ j \in seen'[d]
    BY DEF UploadsGraced
  <2>1. InFlight(d) /\ up'[d].blob = up[d].blob
    BY DEF GcInv, TypeOK, InFlight, PurgeRecords, storage, upVars, uploads,
         passVars, candVars, schedule
  <2>2. /\ up[d].blob \notin ripe[j]
        /\ up[d].blob \in fresh[j] => pc[j] # "idle" \/ j \in seen[d]
    BY <2>1 DEF GcInv, UploadsGraced
  <2> QED
    BY <2>1, <2>2 DEF GcInv, TypeOK, PurgeRecords, storage, upVars, uploads,
         passVars, candVars, schedule
<1>4. NamesIssued'
  BY DEF GcInv, TypeOK, NamesIssued, PurgeRecords, NoWalk, storage, upVars,
       uploads, passVars, candVars, schedule
<1>5. PassShape'
  BY DEF GcInv, TypeOK, PassShape, PurgeRecords, NoWalk, storage, upVars,
       uploads, passVars, candVars, schedule
<1>6. RecordsSwept'
  BY DEF GcInv, TypeOK, RecordsSwept, PurgeRecords, storage, upVars, uploads,
       passVars, candVars, schedule
<1>7. OwnUnthreatened'
  BY DEF GcInv, TypeOK, OwnUnthreatened, PurgeRecords, storage, upVars,
       uploads, passVars, candVars, schedule
<1>8. RecordHasFile'
  BY DEF GcInv, TypeOK, RecordHasFile, PurgeRecords, storage, upVars, uploads,
       passVars, candVars, schedule
<1> QED
  BY <1>1, <1>2, <1>3, <1>4, <1>5, <1>6, <1>7, <1>8 DEF GcInv

\* WalkFile keeps GcInv: the file it deletes has no own artifact and no record.
LEMMA WalkFileStep ==
  ASSUME GcInv, TypeOK', NEW i \in Instances, NEW b \in Blobs,
         WalkFile(i, b)
  PROVE  GcInv'
<1>1. UploadsOwn'
  BY DEF GcInv, TypeOK, UploadsOwn, UploadsGraced, WalkFile, Deletable,
       InFlight, storage, upVars, uploads, passVars, candVars, schedule
<1>2. UploadsGraced'
  <2> SUFFICES ASSUME NEW d \in Clients, InFlight(d)', NEW j \in Instances
               PROVE  /\ up'[d].blob \notin ripe'[j]
                      /\ up'[d].blob \in fresh'[j] =>
                           pc'[j] # "idle" \/ j \in seen'[d]
    BY DEF UploadsGraced
  <2>1. InFlight(d) /\ up'[d].blob = up[d].blob
    BY DEF GcInv, TypeOK, InFlight, WalkFile, Deletable, storage, upVars,
         uploads, passVars, candVars, schedule
  <2>2. /\ up[d].blob \notin ripe[j]
        /\ up[d].blob \in fresh[j] => pc[j] # "idle" \/ j \in seen[d]
    BY <2>1 DEF GcInv, UploadsGraced
  <2> QED
    BY <2>1, <2>2 DEF GcInv, TypeOK, WalkFile, Deletable, storage, upVars,
         uploads, passVars, candVars, schedule
<1>3. NamesIssued'
  BY DEF GcInv, TypeOK, NamesIssued, WalkFile, Deletable, NoWalk, storage,
       upVars, uploads, passVars, candVars, schedule
<1>4. PassShape'
  BY DEF GcInv, TypeOK, PassShape, WalkFile, Deletable, NoWalk, storage,
       upVars, uploads, passVars, candVars, schedule
<1>5. RecordsSwept'
  BY DEF GcInv, TypeOK, RecordsSwept, WalkFile, Deletable, storage, upVars,
       uploads, passVars, candVars, schedule
<1>6. OwnUnthreatened'
  BY DEF GcInv, TypeOK, OwnUnthreatened, WalkFile, Deletable, storage, upVars,
       uploads, passVars, candVars, schedule
<1>7. OwnUploadKept'
  <2> SUFFICES ASSUME NEW p \in Paths, art[p] # None, art[p].own
               PROVE  art[p].blob \in files'
    BY DEF OwnUploadKept, WalkFile
  <2>1. art[p].blob \in files
    BY DEF GcInv, OwnUploadKept
  <2>2. CASE files' = files
    BY <2>1, <2>2
  <2>3. CASE /\ files' = files \ {b} /\ mode[i] # "dryrun"
             /\ b \in ripe[i] /\ b \notin filter[i]
    <3>1. art[p].blob \notin ripe[i] \ filter[i]
      BY <2>3 DEF GcInv, OwnUnthreatened, PassShape, WalkFile
    <3> QED
      BY <2>1, <2>3, <3>1
  <2> QED
    BY <2>2, <2>3 DEF WalkFile, Deletable, candVars
<1>8. RecordHasFile'
  <2> SUFFICES ASSUME NEW k \in Keys, recs[k] # None
               PROVE  recs[k] \in files'
    BY DEF RecordHasFile, WalkFile
  <2>1. recs[k] \in files
    BY DEF GcInv, RecordHasFile
  <2>2. CASE files' = files
    BY <2>1, <2>2
  <2>3. CASE /\ files' = files \ {b} /\ mode[i] # "dryrun"
             /\ b \in ripe[i] /\ b \notin filter[i]
    <3>1. StoreOf[b] = walk[i].store /\ pc[i] = "walk"
      BY DEF GcInv, PassShape, WalkFile
    <3>2. recs[k] # b
      BY <2>3, <3>1 DEF GcInv, RecordsSwept
    <3> QED
      BY <2>1, <2>3, <3>2
  <2> QED
    BY <2>2, <2>3 DEF WalkFile, Deletable, candVars
<1> QED
  BY <1>1, <1>2, <1>3, <1>4, <1>5, <1>6, <1>7, <1>8 DEF GcInv

\* WalkError keeps GcInv.
LEMMA WalkErrorStep ==
  ASSUME GcInv, TypeOK', NEW i \in Instances,
         WalkError(i)
  PROVE  GcInv'
<1>1. /\ UploadsOwn' /\ UploadsGraced' /\ OwnUnthreatened' /\ OwnUploadKept'
      /\ RecordHasFile'
  BY DEF GcInv, UploadsOwn, UploadsGraced, OwnUnthreatened, OwnUploadKept,
       RecordHasFile, InFlight, WalkError, storage, upVars, uploads, passVars,
       candVars, schedule
<1>2. NamesIssued'
  BY DEF GcInv, TypeOK, NamesIssued, WalkError, NoWalk, storage, upVars,
       uploads, passVars, candVars, schedule
<1>3. PassShape'
  BY DEF GcInv, TypeOK, PassShape, WalkError, NoWalk, storage, upVars,
       uploads, passVars, candVars, schedule
<1>4. RecordsSwept'
  BY DEF GcInv, TypeOK, RecordsSwept, WalkError, storage, upVars, uploads,
       passVars, candVars, schedule
<1> QED
  BY <1>1, <1>2, <1>3, <1>4 DEF GcInv

\* NextStore keeps GcInv.
LEMMA NextStoreStep ==
  ASSUME GcInv, TypeOK', NEW i \in Instances,
         NextStore(i)
  PROVE  GcInv'
<1>1. UploadsOwn' /\ OwnUploadKept' /\ RecordHasFile'
  BY DEF GcInv, UploadsOwn, OwnUploadKept, RecordHasFile, InFlight, NextStore,
       storage, upVars, uploads, passVars, candVars, schedule
<1>2. UploadsGraced'
  <2> SUFFICES ASSUME NEW d \in Clients, InFlight(d)', NEW j \in Instances
               PROVE  /\ up'[d].blob \notin ripe'[j]
                      /\ up'[d].blob \in fresh'[j] =>
                           pc'[j] # "idle" \/ j \in seen'[d]
    BY DEF UploadsGraced
  <2>1. InFlight(d) /\ up'[d].blob = up[d].blob
    BY DEF GcInv, TypeOK, InFlight, NextStore, storage, upVars, uploads,
         passVars, candVars, schedule
  <2>2. /\ up[d].blob \notin ripe[j]
        /\ up[d].blob \in fresh[j] => pc[j] # "idle" \/ j \in seen[d]
    BY <2>1 DEF GcInv, UploadsGraced
  <2> QED
    BY <2>1, <2>2 DEF GcInv, TypeOK, NextStore, storage, upVars, uploads,
         passVars, candVars, schedule
<1>3. NamesIssued'
  BY DEF GcInv, TypeOK, NamesIssued, NextStore, NoWalk, storage, upVars,
       uploads, passVars, candVars, schedule
<1>4. PassShape'
  BY DEF GcInv, TypeOK, PassShape, NextStore, NoWalk, storage, upVars,
       uploads, passVars, candVars, schedule
<1>5. RecordsSwept'
  BY DEF GcInv, TypeOK, RecordsSwept, NextStore, storage, upVars, uploads,
       passVars, candVars, schedule
<1>6. OwnUnthreatened'
  BY DEF GcInv, TypeOK, OwnUnthreatened, NextStore, storage, upVars, uploads,
       passVars, candVars, schedule
<1> QED
  BY <1>1, <1>2, <1>3, <1>4, <1>5, <1>6 DEF GcInv

\* EndPass keeps GcInv: every upload in flight has now seen this instance end a pass.
LEMMA EndPassStep ==
  ASSUME GcInv, TypeOK', NEW i \in Instances,
         EndPass(i)
  PROVE  GcInv'
<1>1. UploadsOwn' /\ OwnUploadKept' /\ RecordHasFile'
  BY DEF GcInv, UploadsOwn, OwnUploadKept, RecordHasFile, InFlight, EndPass,
       PassEnded, storage, upVars, uploads, passVars, candVars, schedule
<1>2. UploadsGraced'
  <2> SUFFICES ASSUME NEW d \in Clients, InFlight(d)', NEW j \in Instances
               PROVE  /\ up'[d].blob \notin ripe'[j]
                      /\ up'[d].blob \in fresh'[j] =>
                           pc'[j] # "idle" \/ j \in seen'[d]
    BY DEF UploadsGraced
  <2>1. InFlight(d) /\ up'[d].blob = up[d].blob
    BY DEF GcInv, TypeOK, InFlight, EndPass, PassEnded, storage, upVars,
         uploads, passVars, candVars, schedule
  <2>2. /\ up[d].blob \notin ripe[j]
        /\ up[d].blob \in fresh[j] => pc[j] # "idle" \/ j \in seen[d]
    BY <2>1 DEF GcInv, UploadsGraced
  <2> QED
    BY <2>1, <2>2 DEF GcInv, TypeOK, EndPass, PassEnded, InFlight, storage,
         upVars, uploads, passVars, candVars, schedule
<1>3. NamesIssued'
  BY DEF GcInv, TypeOK, NamesIssued, EndPass, PassEnded, NoWalk, storage,
       upVars, uploads, passVars, candVars, schedule
<1>4. PassShape'
  BY DEF GcInv, TypeOK, PassShape, EndPass, PassEnded, NoWalk, storage,
       upVars, uploads, passVars, candVars, schedule
<1>5. RecordsSwept'
  BY DEF GcInv, TypeOK, RecordsSwept, EndPass, PassEnded, storage, upVars,
       uploads, passVars, candVars, schedule
<1>6. OwnUnthreatened'
  BY DEF GcInv, TypeOK, OwnUnthreatened, EndPass, PassEnded, storage, upVars,
       uploads, passVars, candVars, schedule
<1> QED
  BY <1>1, <1>2, <1>3, <1>4, <1>5, <1>6 DEF GcInv

\* FailPass keeps GcInv, whether the candidates are kept or dropped.
LEMMA FailPassStep ==
  ASSUME GcInv, TypeOK', NEW i \in Instances, NEW transient \in BOOLEAN,
         FailPass(i, transient)
  PROVE  GcInv'
<1>1. UploadsOwn' /\ OwnUploadKept' /\ RecordHasFile'
  BY DEF GcInv, UploadsOwn, OwnUploadKept, RecordHasFile, InFlight, FailPass,
       PassEnded, storage, upVars, uploads, passVars, candVars, schedule
<1>2. UploadsGraced'
  <2> SUFFICES ASSUME NEW d \in Clients, InFlight(d)', NEW j \in Instances
               PROVE  /\ up'[d].blob \notin ripe'[j]
                      /\ up'[d].blob \in fresh'[j] =>
                           pc'[j] # "idle" \/ j \in seen'[d]
    BY DEF UploadsGraced
  <2>1. InFlight(d) /\ up'[d].blob = up[d].blob
    BY DEF GcInv, TypeOK, InFlight, FailPass, PassEnded, storage, upVars,
         uploads, passVars, candVars, schedule
  <2>2. /\ up[d].blob \notin ripe[j]
        /\ up[d].blob \in fresh[j] => pc[j] # "idle" \/ j \in seen[d]
    BY <2>1 DEF GcInv, UploadsGraced
  <2> QED
    BY <2>1, <2>2 DEF GcInv, TypeOK, FailPass, PassEnded, InFlight, storage,
         upVars, uploads, passVars, candVars, schedule
<1>3. NamesIssued'
  BY DEF GcInv, TypeOK, NamesIssued, FailPass, PassEnded, NoWalk, storage,
       upVars, uploads, passVars, candVars, schedule
<1>4. PassShape'
  BY DEF GcInv, TypeOK, PassShape, FailPass, PassEnded, NoWalk, storage,
       upVars, uploads, passVars, candVars, schedule
<1>5. RecordsSwept'
  BY DEF GcInv, TypeOK, RecordsSwept, FailPass, PassEnded, storage, upVars,
       uploads, passVars, candVars, schedule
<1>6. OwnUnthreatened'
  BY DEF GcInv, TypeOK, OwnUnthreatened, FailPass, PassEnded, storage, upVars,
       uploads, passVars, candVars, schedule
<1> QED
  BY <1>1, <1>2, <1>3, <1>4, <1>5, <1>6 DEF GcInv

\* CrashInstance keeps GcInv: the candidates are lost with the process.
LEMMA CrashInstanceStep ==
  ASSUME GcInv, TypeOK', NEW i \in Instances,
         CrashInstance(i)
  PROVE  GcInv'
<1>1. UploadsOwn' /\ OwnUploadKept' /\ RecordHasFile'
  BY DEF GcInv, UploadsOwn, OwnUploadKept, RecordHasFile, InFlight,
       CrashInstance, PassEnded, storage, upVars, uploads, passVars, candVars,
       schedule
<1>2. UploadsGraced'
  <2> SUFFICES ASSUME NEW d \in Clients, InFlight(d)', NEW j \in Instances
               PROVE  /\ up'[d].blob \notin ripe'[j]
                      /\ up'[d].blob \in fresh'[j] =>
                           pc'[j] # "idle" \/ j \in seen'[d]
    BY DEF UploadsGraced
  <2>1. InFlight(d) /\ up'[d].blob = up[d].blob
    BY DEF GcInv, TypeOK, InFlight, CrashInstance, PassEnded, storage, upVars,
         uploads, passVars, candVars, schedule
  <2>2. /\ up[d].blob \notin ripe[j]
        /\ up[d].blob \in fresh[j] => pc[j] # "idle" \/ j \in seen[d]
    BY <2>1 DEF GcInv, UploadsGraced
  <2> QED
    BY <2>1, <2>2 DEF GcInv, TypeOK, CrashInstance, PassEnded, InFlight,
         storage, upVars, uploads, passVars, candVars, schedule
<1>3. NamesIssued'
  BY DEF GcInv, TypeOK, NamesIssued, CrashInstance, PassEnded, NoWalk,
       storage, upVars, uploads, passVars, candVars, schedule
<1>4. PassShape'
  BY DEF GcInv, TypeOK, PassShape, CrashInstance, PassEnded, NoWalk, storage,
       upVars, uploads, passVars, candVars, schedule
<1>5. RecordsSwept'
  BY DEF GcInv, TypeOK, RecordsSwept, CrashInstance, PassEnded, storage,
       upVars, uploads, passVars, candVars, schedule
<1>6. OwnUnthreatened'
  BY DEF GcInv, TypeOK, OwnUnthreatened, CrashInstance, PassEnded, storage,
       upVars, uploads, passVars, candVars, schedule
<1> QED
  BY <1>1, <1>2, <1>3, <1>4, <1>5, <1>6 DEF GcInv

\* An upload that advances stays an upload.
LEMMA AdvanceType ==
  ASSUME TypeOK, NEW c \in Clients, up[c].at # "idle", NEW step, NEW eff,
         Advance(c, step, eff),
         \/ step \in {"claim", "reread", "force"} /\ eff = None
         \/ step \in {"commit", "dedup", "drop"} /\ eff \in Blobs
  PROVE  up' \in [Clients -> Upload]
<1>1. up[c].blob \in Blobs /\ up[c].key \in Keys /\ up[c].path \in Paths
  BY UploadFields
<1>2. [at |-> step, blob |-> up[c].blob, key |-> up[c].key,
       path |-> up[c].path, eff |-> eff] \in Upload
  BY <1>1 DEF Upload
<1> QED
  BY <1>2 DEF TypeOK, Advance

\* Every step keeps the types, one case per action.
LEMMA TypeStep == TypeOK /\ [Next]_vars => TypeOK'
<1> SUFFICES ASSUME TypeOK, [Next]_vars PROVE TypeOK'
  OBVIOUS
<1>1. ASSUME NEW c \in Clients, NEW b \in Blobs, NEW k \in Keys, NEW p \in Paths,
            WriteBlob(c, b, k, p)
      PROVE  TypeOK'
  <2> USE <1>1
  <2>1. up' \in [Clients -> Upload]
    BY DEF TypeOK, WriteBlob, Upload
  <2> QED
    BY <2>1 DEF TypeOK, WriteBlob, collector, passVars, candVars, schedule
<1>2. ASSUME NEW c \in Clients,
            ClaimHash(c)
      PROVE  TypeOK'
  <2> USE <1>2
  <2>1. up[c].blob \in Blobs /\ up[c].key \in Keys /\ up[c].at # "idle"
    BY UploadFields DEF ClaimHash
  <2>2. up' \in [Clients -> Upload]
    BY <2>1, AdvanceType DEF ClaimHash
  <2>3. recs' \in [Keys -> Blobs \cup {None}]
    BY <2>1 DEF TypeOK, ClaimHash
  <2> QED
    BY <2>2, <2>3 DEF TypeOK, ClaimHash, collector, passVars, candVars,
         schedule
<1>3. ASSUME NEW c \in Clients,
            RereadRecord(c)
      PROVE  TypeOK'
  <2> USE <1>3
  <2>1. up[c].key \in Keys /\ up[c].at # "idle"
    BY UploadFields DEF RereadRecord
  <2>2. recs[up[c].key] = None \/ recs[up[c].key] \in Blobs
    BY <2>1 DEF TypeOK
  <2>3. up' \in [Clients -> Upload]
    BY <2>1, <2>2, AdvanceType DEF RereadRecord
  <2> QED
    BY <2>3 DEF TypeOK, RereadRecord, storage, collector, passVars, candVars,
                schedule
<1>4. ASSUME NEW c \in Clients,
            ForceRecord(c)
      PROVE  TypeOK'
  <2> USE <1>4
  <2>1. up' \in [Clients -> Upload] /\ recs' \in [Keys -> Blobs \cup {None}]
    BY UploadFields DEF TypeOK, ForceRecord, Advance, Finish, Upload, NoUpload
  <2> QED
    BY <2>1 DEF TypeOK, ForceRecord, storage, collector, passVars, candVars,
         schedule
<1>5. ASSUME NEW c \in Clients,
            PutArtifact(c)
      PROVE  TypeOK'
  <2> USE <1>5
  <2>1. /\ up[c].at # "idle" /\ up[c].path \in Paths
        /\ up[c].eff \in Blobs /\ (up[c].at = "commit") \in BOOLEAN
    BY UploadFields DEF PutArtifact
  <2>2. up' \in [Clients -> Upload]
    BY <2>1, AdvanceType DEF TypeOK, PutArtifact, Finish, Upload
  <2>3. art' \in [Paths -> Artifact \cup {None}]
    BY <2>1 DEF TypeOK, PutArtifact, Artifact
  <2> QED
    BY <2>2, <2>3 DEF TypeOK, PutArtifact, collector, passVars, candVars,
         schedule
<1>6. ASSUME NEW c \in Clients,
            DropDuplicate(c)
      PROVE  TypeOK'
  <2> USE <1>6
  <2>1. up' \in [Clients -> Upload]
    BY UploadFields DEF TypeOK, DropDuplicate, Advance, Finish, Upload,
         NoUpload
  <2> QED
    BY <2>1 DEF TypeOK, DropDuplicate, storage, collector, passVars, candVars,
         schedule
<1>7. ASSUME NEW c \in Clients,
            AbortUpload(c)
      PROVE  TypeOK'
  <2> USE <1>7
  <2>1. up' \in [Clients -> Upload]
    BY UploadFields DEF TypeOK, AbortUpload, Advance, Finish, Upload, NoUpload
  <2> QED
    BY <2>1 DEF TypeOK, AbortUpload, storage, collector, passVars, candVars,
         schedule
<1>8. ASSUME NEW p \in Paths,
            DeleteArtifact(p)
      PROVE  TypeOK'
  BY <1>8 DEF TypeOK, DeleteArtifact, Steps, upVars, collector, passVars,
       candVars, schedule
<1>9. ASSUME NEW p \in Paths,
            AgeArtifact(p)
      PROVE  TypeOK'
  <2> USE <1>9
  <2>1. art[p] \in Artifact
    BY DEF TypeOK, AgeArtifact
  <2>2. [art[p] EXCEPT !.aged = TRUE] \in Artifact
    BY <2>1 DEF Artifact
  <2>3. art' \in [Paths -> Artifact \cup {None}]
    BY <2>2 DEF TypeOK, AgeArtifact
  <2> QED
    BY <2>3 DEF TypeOK, AgeArtifact, upVars, collector, passVars, candVars,
         schedule
<1>10. ASSUME NEW p \in Paths,
            TouchArtifact(p)
      PROVE  TypeOK'
  <2> USE <1>10
  <2>1. art[p] \in Artifact
    BY DEF TypeOK, TouchArtifact
  <2>2. [art[p] EXCEPT !.aged = FALSE] \in Artifact
    BY <2>1 DEF Artifact
  <2>3. art' \in [Paths -> Artifact \cup {None}]
    BY <2>2 DEF TypeOK, TouchArtifact
  <2> QED
    BY <2>3 DEF TypeOK, TouchArtifact, upVars, collector, passVars, candVars,
         schedule
<1>11. ASSUME NEW i \in Instances,
            StartScheduled(i)
      PROVE  TypeOK'
  BY <1>11 DEF TypeOK, StartScheduled, BeginPass, Modes, Steps, storage,
       upVars, uploads, passVars, candVars, schedule
<1>12. ASSUME NEW i \in Instances, NEW m \in Requests,
            RequestPass(i, m)
      PROVE  TypeOK'
  BY <1>12 DEF TypeOK, RequestPass, Steps, storage, upVars, uploads, passVars,
       candVars, schedule
<1>13. ASSUME NEW i \in Instances, NEW m \in Requests,
            StartManual(i, m)
      PROVE  TypeOK'
  BY <1>13 DEF TypeOK, StartManual, BeginPass, Modes, Steps, storage, upVars,
       uploads, passVars, candVars, schedule
<1>14. ASSUME NEW i \in Instances, NEW p \in Paths,
            ScanArtifact(i, p)
      PROVE  TypeOK'
  <2> USE <1>14
  <2>1. filter' \in [Instances -> SUBSET Blobs]
    BY DEF TypeOK, ScanArtifact, SetBit, Artifact
  <2>2. toScan' \in [Instances -> SUBSET Paths]
    BY DEF TypeOK, ScanArtifact
  <2>3. doomed' = doomed \/ doomed' = [doomed EXCEPT ![i] = @ \cup {p}]
    BY DEF TypeOK, ScanArtifact
  <2>4. doomed' \in [Instances -> SUBSET (Paths \cup Keys)]
    BY <2>3 DEF TypeOK
  <2> QED
    BY <2>1, <2>2, <2>4 DEF TypeOK, ScanArtifact, storage, upVars, candVars,
         schedule
<1>15. ASSUME NEW i \in Instances, NEW p \in Paths,
            ExpireArtifact(i, p)
      PROVE  TypeOK'
  BY <1>15 DEF TypeOK, ExpireArtifact, Steps, storage, upVars, uploads,
       passVars, candVars, schedule
<1>16. ASSUME NEW i \in Instances,
            SealFilter(i)
      PROVE  TypeOK'
  BY <1>16 DEF TypeOK, SealFilter, Steps, storage, upVars, uploads, passVars,
       candVars, schedule
<1>17. ASSUME NEW i \in Instances, NEW s \in Stores,
            SweepRecords(i, s)
      PROVE  TypeOK'
  BY <1>17 DEF TypeOK, SweepRecords, Unreferenced, Steps, storage, upVars,
       uploads, passVars, candVars, schedule
<1>18. ASSUME NEW i \in Instances,
            PurgeRecords(i)
      PROVE  TypeOK'
  <2> USE <1>18
  <2>1. walk' \in [Instances -> [store: Stores \cup {None}, left: SUBSET Blobs]]
    BY DEF TypeOK, PurgeRecords
  <2> QED
    BY <2>1 DEF TypeOK, PurgeRecords, Steps, upVars, candVars, schedule
<1>19. ASSUME NEW i \in Instances, NEW b \in Blobs,
            WalkFile(i, b)
      PROVE  TypeOK'
  <2> USE <1>19
  <2>1. walk' \in [Instances -> [store: Stores \cup {None}, left: SUBSET Blobs]]
    BY DEF TypeOK, WalkFile
  <2>2. files' \subseteq Blobs
    BY DEF TypeOK, WalkFile, Deletable, candVars
  <2>3. /\ fresh' = fresh \/ fresh' = [fresh EXCEPT ![i] = @ \cup {b}]
        /\ ripe' = ripe \/ ripe' = [ripe EXCEPT ![i] = @ \ {b}]
    BY DEF TypeOK, WalkFile, Deletable, candVars
  <2>4. /\ fresh' \in [Instances -> SUBSET Blobs]
        /\ ripe' \in [Instances -> SUBSET Blobs]
    <3>1. fresh' \in [Instances -> SUBSET Blobs]
      BY <2>3, SMTT(30) DEF TypeOK
    <3>2. ripe' \in [Instances -> SUBSET Blobs]
      BY <2>3, SMTT(30) DEF TypeOK
    <3> QED
      BY <3>1, <3>2
  <2>5. faults' \in Nat
    BY DEF TypeOK, WalkFile
  <2> QED
    BY <2>1, <2>2, <2>4, <2>5 DEF TypeOK, WalkFile, upVars, schedule
<1>20. ASSUME NEW i \in Instances,
            WalkError(i)
      PROVE  TypeOK'
  BY <1>20 DEF TypeOK, WalkError, Steps, storage, upVars, uploads, passVars,
       candVars, schedule
<1>21. ASSUME NEW i \in Instances,
            NextStore(i)
      PROVE  TypeOK'
  BY <1>21 DEF TypeOK, NextStore, NoWalk, Steps, storage, upVars, uploads,
       passVars, candVars, schedule
<1>22. ASSUME NEW i \in Instances,
            EndPass(i)
      PROVE  TypeOK'
  BY <1>22 DEF TypeOK, EndPass, PassEnded, NoWalk, Steps, storage, upVars,
       uploads, passVars, candVars, schedule
<1>23. ASSUME NEW i \in Instances, NEW transient \in BOOLEAN,
            FailPass(i, transient)
      PROVE  TypeOK'
  <2> USE <1>23
  <2>1. /\ seen' \in [Clients -> SUBSET Instances]
        /\ seenAuto' \in [Clients -> SUBSET Instances]
    <3>1. CASE PassEnded(i)
      BY <3>1 DEF TypeOK, PassEnded
    <3>2. CASE UNCHANGED <<seen, seenAuto>>
      BY <3>2 DEF TypeOK
    <3> QED
      BY <3>1, <3>2 DEF FailPass
  <2>2. walk' \in [Instances -> [store: Stores \cup {None}, left: SUBSET Blobs]]
    BY DEF TypeOK, FailPass, NoWalk
  <2>3. /\ fresh' \in [Instances -> SUBSET Blobs]
        /\ ripe' \in [Instances -> SUBSET Blobs]
        /\ doomed' \in [Instances -> SUBSET (Paths \cup Keys)]
        /\ pc' \in [Instances -> Steps]
    BY DEF TypeOK, FailPass, candVars, Steps
  <2>4. retries' \in [Instances -> Nat] /\ faults' \in Nat
    <3>1. faults' \in Nat
      BY DEF TypeOK, FailPass
    <3>2. \/ retries' = retries \/ retries' = [retries EXCEPT ![i] = 0]
          \/ retries' = [retries EXCEPT ![i] = @ + 1]
      BY DEF FailPass
    <3>3. retries \in [Instances -> Nat] /\ 0 \in Nat /\ retries[i] + 1 \in Nat
      BY DEF TypeOK
    <3>4. retries' \in [Instances -> Nat]
      BY ONLY <3>2, <3>3
    <3> QED
      BY ONLY <3>1, <3>4
  <2>5. /\ early' \in [Instances -> BOOLEAN] /\ reset' \in BOOLEAN
        /\ asked' \in [Instances -> SUBSET Requests]
    BY DEF TypeOK, FailPass
  <2> QED
    BY <2>1, <2>2, <2>3, <2>4, <2>5 DEF TypeOK, FailPass, storage, uploads
<1>24. ASSUME NEW i \in Instances,
            CrashInstance(i)
      PROVE  TypeOK'
  <2> USE <1>24
  <2>1. /\ seen' \in [Clients -> SUBSET Instances]
        /\ seenAuto' \in [Clients -> SUBSET Instances]
    <3>1. CASE PassEnded(i)
      BY <3>1 DEF TypeOK, PassEnded
    <3>2. CASE UNCHANGED <<seen, seenAuto>>
      BY <3>2 DEF TypeOK
    <3> QED
      BY <3>1, <3>2 DEF CrashInstance
  <2>2. walk' \in [Instances -> [store: Stores \cup {None}, left: SUBSET Blobs]]
    BY DEF TypeOK, CrashInstance, NoWalk
  <2>3. /\ fresh' \in [Instances -> SUBSET Blobs]
        /\ ripe' \in [Instances -> SUBSET Blobs]
        /\ doomed' \in [Instances -> SUBSET (Paths \cup Keys)]
        /\ pc' \in [Instances -> Steps]
    BY DEF TypeOK, CrashInstance, candVars, Steps
  <2>4. retries' \in [Instances -> Nat] /\ faults' \in Nat
    <3>1. faults' \in Nat
      BY DEF TypeOK, CrashInstance
    <3>2. retries' = [retries EXCEPT ![i] = 0]
      BY DEF CrashInstance
    <3>3. retries \in [Instances -> Nat] /\ 0 \in Nat
      BY DEF TypeOK
    <3>4. retries' \in [Instances -> Nat]
      BY ONLY <3>2, <3>3
    <3> QED
      BY ONLY <3>1, <3>4
  <2>5. /\ early' \in [Instances -> BOOLEAN] /\ reset' \in BOOLEAN
        /\ asked' \in [Instances -> SUBSET Requests]
    BY DEF TypeOK, CrashInstance
  <2> QED
    BY <2>1, <2>2, <2>3, <2>4, <2>5 DEF TypeOK, CrashInstance, storage,
         uploads
<1>25. CASE UNCHANGED vars
  BY <1>25 DEF TypeOK, vars
<1> QED
  BY <1>1, <1>2, <1>3, <1>4, <1>5, <1>6, <1>7, <1>8, <1>9, <1>10, <1>11,
     <1>12, <1>13, <1>14, <1>15, <1>16, <1>17, <1>18, <1>19, <1>20, <1>21,
     <1>22, <1>23, <1>24, <1>25
     DEF Next, Work, StartPass, UploadStep, PassStep, PassFault

\* The invariant holds of an empty store.
LEMMA GcInvInit == Init => GcInv
<1> SUFFICES ASSUME Init PROVE GcInv
  OBVIOUS
<1>1. NoUpload \in Upload /\ NoUpload.at = "idle"
  BY DEF Upload, NoUpload
<1>2. TypeOK
  BY <1>1 DEF Init, TypeOK, NoWalk, Steps, Modes
<1>3. UploadsOwn /\ UploadsGraced
  BY <1>1 DEF Init, UploadsOwn, UploadsGraced, InFlight
<1>4. NamesIssued /\ PassShape
  BY DEF Init, NamesIssued, PassShape, NoWalk
<1>5. RecordsSwept /\ OwnUnthreatened /\ OwnUploadKept /\ RecordHasFile
  BY DEF Init, RecordsSwept, OwnUnthreatened, OwnUploadKept, RecordHasFile
<1> QED
  BY <1>2, <1>3, <1>4, <1>5 DEF GcInv

\* The invariant is inductive under the grace period.
LEMMA GcInvStep == GcInv /\ [GracefulNext]_vars => GcInv'
<1> SUFFICES ASSUME GcInv, [GracefulNext]_vars PROVE GcInv'
  OBVIOUS
<1>1. TypeOK'
  BY TypeStep DEF GcInv, GracefulNext, Next
<1>2. CASE UNCHANGED vars
  BY <1>2 DEF vars, GcInv, TypeOK, UploadsOwn, UploadsGraced, NamesIssued,
              PassShape, RecordsSwept, OwnUnthreatened, OwnUploadKept,
              RecordHasFile, InFlight
<1>3. CASE \E c \in Clients : UploadStep(c)
  BY <1>1, <1>3, WriteBlobStep, ClaimHashStep, RereadRecordStep,
     ForceRecordStep,
     PutArtifactStep, DropDuplicateStep, AbortUploadStep DEF UploadStep
<1>4. CASE \E p \in Paths : DeleteArtifact(p) \/ AgeArtifact(p) \/ TouchArtifact(p)
  BY <1>1, <1>4, DeleteArtifactStep, AgeArtifactStep, TouchArtifactStep
<1>5. ASSUME NEW i \in Instances, PassStep(i) PROVE GcInv'
  BY <1>1, <1>5, ScanArtifactStep, ExpireArtifactStep, SealFilterStep,
     SweepRecordsStep, PurgeRecordsStep, WalkFileStep, NextStoreStep, EndPassStep
     DEF PassStep
<1>6. ASSUME NEW i \in Instances, PassFault(i) PROVE GcInv'
  BY <1>1, <1>6, WalkErrorStep, CrashInstanceStep, FailPassStep DEF PassFault
<1>7. ASSUME NEW i \in Instances, NEW m \in Requests, RequestPass(i, m)
      PROVE  GcInv'
  BY <1>1, <1>7, RequestPassStep
<1>8. ASSUME NEW i \in Instances, Grace(i), StartPass(i) PROVE GcInv'
  BY <1>1, <1>8, StartScheduledStep, StartManualStep DEF StartPass
<1> QED
  BY <1>2, <1>3, <1>4, <1>5, <1>6, <1>7, <1>8 DEF GracefulNext, Work

\* Type correctness of every behaviour of the code's own schedule.
THEOREM TypeCorrect == Spec => []TypeOK
<1>1. Init => TypeOK
  BY GcInvInit DEF GcInv
<1> QED
  BY <1>1, TypeStep, PTL DEF Spec

\* Under the grace period, for any number of instances running passes at the
\* same time, any stores, uploads, failures and dry runs.
THEOREM GracefulSafety == GracefulSpec => []GcInv
  BY GcInvInit, GcInvStep, PTL DEF GracefulSpec

\* No pass ever takes the file of an artifact from the upload that wrote it.
THEOREM UploadsKept == GracefulSpec => []OwnUploadKept
<1>1. GcInv => OwnUploadKept
  BY DEF GcInv
<1> QED
  BY <1>1, GracefulSafety, PTL

\* A dedup hit always finds the file its record names.
THEOREM RecordsBacked == GracefulSpec => []RecordHasFile
<1>1. GcInv => RecordHasFile
  BY DEF GcInv
<1> QED
  BY <1>1, GracefulSafety, PTL

-----------------------------------------------------------------------------
(* StaysSafe.                                                              *)

\* What the steps that neither upload nor write artifacts leave alone.
LEMMA UnnamedQuiet ==
  ASSUME DuplicatesUnnamed, UNCHANGED up, \A p \in Paths : art'[p] # None =>
           art[p] # None /\ art'[p].blob = art[p].blob
  PROVE  DuplicatesUnnamed'
  BY DEF DuplicatesUnnamed, InFlight

\* The steps of an upload: what it comes to name is its own blob or one that a
\* dedup record names.
LEMMA UnnamedUpload ==
  ASSUME GcInv, DuplicatesUnnamed, NEW c \in Clients, UploadStep(c)
  PROVE  DuplicatesUnnamed'
<1>1. TypeOK /\ UploadsOwn /\ NamesIssued
  BY DEF GcInv
<1>2. \A d \in Clients : up[d] \in Upload
  BY <1>1 DEF TypeOK
<1>3. ASSUME NEW b \in Blobs, NEW k \in Keys, NEW p \in Paths, WriteBlob(c, b, k, p)
      PROVE  DuplicatesUnnamed'
  <2>1. /\ up'[c].blob = b /\ up'[c].at = "claim"
        /\ \A d \in Clients \ {c} : up'[d] = up[d]
        /\ b \notin issued /\ art' = art
    BY <1>1, <1>3 DEF WriteBlob, TypeOK
  <2>2. /\ \A q \in Paths : art[q] # None => art[q].blob # b
        /\ \A d \in Clients : up[d].at \in {"commit", "dedup"} => up[d].eff # b
    BY <1>1, <2>1 DEF NamesIssued, UploadsOwn, InFlight
  <2> QED
    BY <2>1, <2>2 DEF DuplicatesUnnamed, InFlight
<1>4. CASE ClaimHash(c) \/ RereadRecord(c) \/ ForceRecord(c)
  <2>1. /\ art' = art /\ up'[c].blob = up[c].blob /\ InFlight(c) /\ up[c].at # "commit"
        /\ \A d \in Clients \ {c} : up'[d] = up[d]
        /\ up'[c].at \in {"commit", "reread", "force", "dedup"}
        /\ up'[c].at = "commit" => up'[c].eff = up[c].blob
        /\ up'[c].at = "dedup" => \E k \in Keys : recs[k] # None /\ up'[c].eff = recs[k]
    <3>1. up[c].at \in {"claim", "reread", "force"} /\ InFlight(c)
      BY <1>4 DEF ClaimHash, RereadRecord, ForceRecord, InFlight
    <3>2. up[c].key \in Keys
      BY <1>2, <3>1 DEF Upload, NoUpload
    <3>3. up \in [Clients -> Upload]
      BY <1>1 DEF TypeOK
    <3>4. CASE ClaimHash(c)
      BY <3>1, <3>2, <3>3, <3>4 DEF ClaimHash, Advance
    <3>5. CASE RereadRecord(c)
      BY <3>1, <3>2, <3>3, <3>5 DEF RereadRecord, Advance, storage
    <3>6. CASE ForceRecord(c)
      BY <3>1, <3>2, <3>3, <3>6 DEF ForceRecord, Advance
    <3> QED
      BY <1>4, <3>4, <3>5, <3>6
  <2>2. ASSUME NEW d \in Clients \ {c}, InFlight(d), up[d].at # "commit"
        PROVE  /\ up[d].blob # up[c].blob
               /\ \A k \in Keys : recs[k] # up[d].blob
    BY <1>1, <2>1, <2>2 DEF UploadsOwn
  <2>3. \A k \in Keys : recs[k] # up[c].blob
    BY <1>1, <2>1 DEF UploadsOwn
  <2> QED
    BY <2>1, <2>2, <2>3 DEF DuplicatesUnnamed, InFlight
<1>5. CASE PutArtifact(c)
  <2>1. /\ up[c].at \in {"commit", "dedup"} /\ up[c].path \in Paths
        /\ \A p \in Paths \ {up[c].path} : art'[p] = art[p]
        /\ art'[up[c].path].blob = up[c].eff
        /\ \A d \in Clients \ {c} : up'[d] = up[d]
        /\ up'[c].at = "idle" \/ (up[c].at = "dedup" /\ up'[c].at = "drop" /\ up'[c].blob = up[c].blob)
    BY <1>1, <1>2, <1>5 DEF PutArtifact, Advance, Finish, TypeOK, Upload, NoUpload
  <2> QED
    BY <2>1 DEF DuplicatesUnnamed, InFlight
<1>6. CASE DropDuplicate(c) \/ AbortUpload(c)
  <2>1. /\ art' = art /\ \A d \in Clients \ {c} : up'[d] = up[d]
        /\ up'[c] = up[c] \/ up'[c].at = "idle"
    BY <1>1, <1>6 DEF DropDuplicate, AbortUpload, Finish, NoUpload, storage, TypeOK
  <2> QED
    BY <2>1 DEF DuplicatesUnnamed, InFlight
<1> QED
  BY <1>3, <1>4, <1>5, <1>6 DEF UploadStep

LEMMA UnnamedStep ==
  GcInv /\ DuplicatesUnnamed /\ [GracefulNext]_vars => DuplicatesUnnamed'
<1> SUFFICES ASSUME GcInv, DuplicatesUnnamed, [GracefulNext]_vars PROVE DuplicatesUnnamed'
  OBVIOUS
<1>1. TypeOK
  BY DEF GcInv
<1>2. ASSUME NEW p \in Paths, DeleteArtifact(p) \/ AgeArtifact(p) \/ TouchArtifact(p)
      PROVE  DuplicatesUnnamed'
  BY <1>1, <1>2, UnnamedQuiet DEF DeleteArtifact, AgeArtifact, TouchArtifact, upVars, TypeOK, Artifact
<1>3. ASSUME NEW i \in Instances, PassStep(i) PROVE DuplicatesUnnamed'
  <2>1. ASSUME NEW p \in Paths, ScanArtifact(i, p) \/ ExpireArtifact(i, p)
        PROVE  DuplicatesUnnamed'
    BY <1>1, <2>1, UnnamedQuiet DEF ScanArtifact, ExpireArtifact, upVars, storage, TypeOK
  <2>2. CASE SealFilter(i) \/ PurgeRecords(i) \/ NextStore(i) \/ EndPass(i)
    BY <2>2, UnnamedQuiet DEF SealFilter, PurgeRecords, NextStore, EndPass, upVars, uploads, storage
  <2>3. ASSUME NEW s \in Stores, SweepRecords(i, s) PROVE DuplicatesUnnamed'
    BY <2>3, UnnamedQuiet DEF SweepRecords, upVars, storage
  <2>4. ASSUME NEW b \in Blobs, WalkFile(i, b) PROVE DuplicatesUnnamed'
    BY <2>4, UnnamedQuiet DEF WalkFile, upVars
  <2> QED
    BY <1>3, <2>1, <2>2, <2>3, <2>4 DEF PassStep
<1>4. ASSUME NEW i \in Instances, PassFault(i) PROVE DuplicatesUnnamed'
  BY <1>4, UnnamedQuiet DEF PassFault, WalkError, CrashInstance, FailPass, upVars, uploads, storage
<1>5. ASSUME NEW i \in Instances, NEW m \in Requests, RequestPass(i, m)
      PROVE  DuplicatesUnnamed'
  BY <1>5, UnnamedQuiet DEF RequestPass, upVars, storage
<1>6. ASSUME NEW i \in Instances, StartPass(i) PROVE DuplicatesUnnamed'
  BY <1>6, UnnamedQuiet DEF StartPass, StartScheduled, StartManual, upVars, storage
<1>7. CASE UNCHANGED vars
  BY <1>7, UnnamedQuiet DEF vars, upVars, storage
<1> QED
  BY <1>2, <1>3, <1>4, <1>5, <1>6, <1>7, UnnamedUpload DEF GracefulNext, Work

LEMMA UnnamedAlways == GracefulSpec => []DuplicatesUnnamed
<1>1. Init => DuplicatesUnnamed
  BY DEF Init, DuplicatesUnnamed, InFlight, NoUpload
<1> QED
  BY <1>1, UnnamedStep, GracefulSafety, PTL DEF GracefulSpec

\* Only a pass that has scanned without seeing the artifact deletes its file.
LEMMA FileStays ==
  ASSUME GcInv, DuplicatesUnnamed, [GracefulNext]_vars, NEW p \in Paths,
         art[p] # None, art[p].blob \in files, ~Threatened(p)
  PROVE  art[p].blob \in files'
<1>1. TypeOK /\ PassShape
  BY DEF GcInv
<1>2. ASSUME NEW c \in Clients, UploadStep(c) PROVE art[p].blob \in files'
  <2>1. CASE DropDuplicate(c)
    BY <2>1 DEF DropDuplicate, DuplicatesUnnamed, InFlight
  <2> QED
    BY <1>2, <2>1 DEF UploadStep, WriteBlob, ClaimHash, RereadRecord, ForceRecord, PutArtifact,
       AbortUpload, storage
<1>3. ASSUME NEW i \in Instances, PassStep(i) PROVE art[p].blob \in files'
  <2>1. ASSUME NEW b \in Blobs, WalkFile(i, b) PROVE art[p].blob \in files'
    <3> SUFFICES ASSUME Deletable(i, b), mode[i] # "dryrun", files' = files \ {b}
                 PROVE  b # art[p].blob
      BY <2>1 DEF WalkFile
    <3>1. pc[i] = "walk" /\ toScan[i] = {}
      BY <1>1, <2>1 DEF WalkFile, PassShape
    <3> QED
      BY <3>1 DEF Deletable, Threatened
  <2> QED
    BY <1>3, <2>1 DEF PassStep, ScanArtifact, ExpireArtifact, SealFilter, SweepRecords,
       PurgeRecords, NextStore, EndPass, storage
<1>4. ASSUME NEW i \in Instances,
             PassFault(i) \/ StartPass(i) \/ \E m \in Requests : RequestPass(i, m)
      PROVE  files' = files
  BY <1>4 DEF PassFault, WalkError, CrashInstance, FailPass, RequestPass, StartPass,
     StartScheduled, StartManual, storage
<1>5. ASSUME NEW q \in Paths, DeleteArtifact(q) \/ AgeArtifact(q) \/ TouchArtifact(q)
      PROVE  files' = files
  BY <1>5 DEF DeleteArtifact, AgeArtifact, TouchArtifact
<1>6. CASE UNCHANGED vars
  BY <1>6 DEF vars, storage
<1> QED
  BY <1>2, <1>3, <1>4, <1>5, <1>6 DEF GracefulNext, Work

\* A pass that has not missed an artifact does not come to miss it.
LEMMA NoNewThreat ==
  ASSUME GcInv, [GracefulNext]_vars, NEW p \in Paths, art[p] # None, ~art[p].aged,
         art'[p] = art[p], ~Threatened(p)
  PROVE  ~Threatened(p)'
<1>1. TypeOK /\ TypeOK'
  BY TypeStep DEF GcInv, GracefulNext, Next
<1> SUFFICES ASSUME NEW i \in Instances
             PROVE  \/ ~(pc'[i] # "idle" /\ mode'[i] # "dryrun")
                    \/ p \in toScan'[i]
                    \/ art[p].blob \in filter'[i] \/ art[p].blob \notin ripe'[i]
  BY DEF Threatened
<1>2. \/ ~(pc[i] # "idle" /\ mode[i] # "dryrun")
      \/ p \in toScan[i]
      \/ art[p].blob \in filter[i] \/ art[p].blob \notin ripe[i]
  BY DEF Threatened
<1>3. CASE /\ pc'[i] = "idle" \/ pc[i] # "idle"
           /\ mode'[i] = mode[i] /\ toScan'[i] = toScan[i]
           /\ filter[i] \subseteq filter'[i] /\ ripe'[i] \subseteq ripe[i]
  BY <1>2, <1>3
<1>4. ASSUME NEW c \in Clients, UploadStep(c) PROVE UNCHANGED <<pc, mode, toScan, filter, ripe>>
  BY <1>4 DEF UploadStep, WriteBlob, ClaimHash, RereadRecord, ForceRecord, PutArtifact,
     DropDuplicate, AbortUpload, collector, passVars, candVars
<1>5. ASSUME NEW q \in Paths, DeleteArtifact(q) \/ AgeArtifact(q) \/ TouchArtifact(q)
      PROVE  UNCHANGED <<pc, mode, toScan, filter, ripe>>
  BY <1>5 DEF DeleteArtifact, AgeArtifact, TouchArtifact, collector, passVars, candVars
<1>6. ASSUME NEW j \in Instances, StartPass(j) PROVE p \in toScan'[j]
  BY <1>1, <1>6 DEF StartPass, StartScheduled, StartManual, BeginPass, TypeOK
<1>7. ASSUME NEW j \in Instances \ {i},
             PassStep(j) \/ PassFault(j) \/ StartPass(j) \/ \E m \in Requests : RequestPass(j, m)
      PROVE  /\ pc'[i] = pc[i] /\ mode'[i] = mode[i] /\ toScan'[i] = toScan[i]
             /\ filter'[i] = filter[i] /\ ripe'[i] = ripe[i]
  <2> USE DEF passVars, candVars
  <2>1. CASE PassStep(j)
    BY <1>1, <1>7, <2>1 DEF PassStep, ScanArtifact, SetBit, ExpireArtifact, SealFilter,
       SweepRecords, PurgeRecords, WalkFile, NextStore, EndPass, TypeOK
  <2>2. CASE PassFault(j)
    BY <1>1, <1>7, <2>2 DEF PassFault, WalkError, CrashInstance, FailPass, TypeOK
  <2>3. CASE StartPass(j)
    BY <1>1, <1>7, <2>3 DEF StartPass, StartScheduled, StartManual, BeginPass, TypeOK
  <2> QED
    BY <1>7, <2>1, <2>2, <2>3 DEF RequestPass
<1>8. CASE PassStep(i) \/ PassFault(i) \/ \E m \in Requests : RequestPass(i, m)
  <2> USE DEF passVars, candVars
  <2>1. ASSUME NEW q \in Paths, ScanArtifact(i, q)
        PROVE  \/ p \in toScan'[i] \/ art[p].blob \in filter'[i]
               \/ ~(pc'[i] # "idle" /\ mode'[i] # "dryrun") \/ art[p].blob \notin ripe'[i]
    <3>1. CASE q = p
      BY <1>1, <2>1, <3>1 DEF ScanArtifact, SetBit, TypeOK
    <3>2. CASE q # p
      BY <1>1, <1>2, <2>1, <3>2 DEF ScanArtifact, SetBit, TypeOK
    <3> QED
      BY <3>1, <3>2
  <2>2. ASSUME NEW q \in Paths, ExpireArtifact(i, q)
        PROVE  UNCHANGED <<pc, mode, toScan, filter, ripe>>
    BY <2>2 DEF ExpireArtifact
  <2>3. CASE SealFilter(i)
    BY <1>1, <1>2, <2>3 DEF SealFilter, TypeOK
  <2>4. ASSUME (\E s \in Stores : SweepRecords(i, s)) \/ PurgeRecords(i) \/ NextStore(i)
                 \/ EndPass(i) \/ WalkError(i) \/ \E m \in Requests : RequestPass(i, m)
        PROVE  /\ pc'[i] = "idle" \/ pc[i] # "idle"
               /\ UNCHANGED <<mode, toScan, filter, ripe>>
    BY <1>1, <2>4 DEF SweepRecords, PurgeRecords, NextStore, EndPass, WalkError, RequestPass,
       TypeOK
  <2>5. ASSUME NEW b \in Blobs, WalkFile(i, b)
        PROVE  /\ UNCHANGED <<pc, mode, toScan, filter>> /\ ripe'[i] \subseteq ripe[i]
    BY <1>1, <2>5 DEF WalkFile, TypeOK
  <2>6. ASSUME CrashInstance(i) \/ \E transient \in BOOLEAN : FailPass(i, transient)
        PROVE  pc'[i] = "idle"
    BY <1>1, <2>6 DEF CrashInstance, FailPass, TypeOK
  <2> QED
    BY <1>2, <1>8, <2>1, <2>2, <2>3, <2>4, <2>5, <2>6 DEF PassStep, PassFault
<1>9. CASE UNCHANGED vars
  BY <1>2, <1>9 DEF vars, passVars, candVars
<1> QED
  BY <1>2, <1>3, <1>4, <1>5, <1>6, <1>7, <1>8, <1>9 DEF GracefulNext, Work

\* A file whose artifact a pass has not missed stays, through any number of
\* overlapping passes, retries, crashes and duplicate uploads.
THEOREM UnthreatenedStay == GracefulSpec => StaysSafe
<1>1. GcInv /\ DuplicatesUnnamed /\ [GracefulNext]_vars =>
        [\A p \in Paths :
           /\ art[p] # None /\ ~art[p].aged /\ art'[p] = art[p]
           /\ art[p].blob \in files /\ ~Threatened(p)
           => art[p].blob \in files' /\ ~Threatened(p)']_vars
  BY FileStays, NoNewThreat
<1> QED
  BY <1>1, GracefulSafety, UnnamedAlways, PTL DEF GracefulSpec, StaysSafe
=============================================================================
