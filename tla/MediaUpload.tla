---------------------------- MODULE MediaUpload -----------------------------
(***************************************************************************)
(* The avatar of a user (the logo of a Chama): an upload intent with its   *)
(* signed form, the file in object storage, the completions that ask for a *)
(* malware scan, the verdict of the external scanner under its claim, and  *)
(* the replacement of the asset shown so far.  The form posts until it     *)
(* expires, whatever has become of the row.  Rows change in transactions;  *)
(* objects are looked at before, and deleted after them or not at all.     *)
(*                                                                         *)
(* The scan jobs of WorkerLease are the uploads; all are for one asset.    *)
(***************************************************************************)
EXTENDS WorkerLease

VARIABLES
    object,      \* what storage holds for an upload
    expired,     \* uploads past upload_expires_at, when the form expires too
    seen,        \* what completions of an upload have found in storage
    removing,    \* objects to delete after the transaction of a verdict
    reposted,    \* history: uploads whose form posted again after a completion looked
    asset        \* avatar_url

uploadVars == <<object, expired, seen, removing, reposted, asset>>

Upload  == {j \in Job : Kind[j] = "scan"}
Content == {"declared", "other"}

UploadInit ==
    /\ object = [j \in Job |-> "none"]
    /\ expired = {}
    /\ seen = [j \in Job |-> {}]
    /\ removing = {}
    /\ reposted = {}
    /\ asset = "none"

CreateUpload(j) ==
    /\ jobs[j] = NoJob
    /\ jobs' = [jobs EXCEPT ![j].status = "initiated"]
    /\ UNCHANGED <<work, uploadVars>>

\* The declared size, type and upload id, or other ones where storage does not
\* enforce the conditions of the form.
PutObject(j) ==
    /\ jobs[j].status # "none" /\ j \notin expired
    /\ \E content \in Content : object' = [object EXCEPT ![j] = content]
    /\ reposted' = IF seen[j] = {} THEN reposted ELSE reposted \cup {j}
    /\ UNCHANGED <<leaseVars, expired, seen, removing, asset>>

ExpireForm(j) ==
    /\ jobs[j].status # "none" /\ j \notin expired
    /\ expired' = expired \cup {j}
    /\ UNCHANGED <<leaseVars, object, seen, removing, reposted, asset>>

\* completeUpload looks at the object after it has read the row as initiated.
\* The row may have become anything since, and what one request has seen stays
\* for it to act on, however late; any number of them may be under way.
HeadObject(j) ==
    /\ jobs[j].status # "none" /\ object[j] # "none"
    /\ seen' = [seen EXCEPT ![j] = @ \cup {object[j]}]
    /\ UNCHANGED <<leaseVars, object, expired, removing, reposted, asset>>

StillInitiated(j) == jobs[j].status = "initiated"

RequestScan(j) ==
    /\ "declared" \in seen[j]
    /\ StillInitiated(j)
    /\ jobs' = [jobs EXCEPT ![j].status = "open"]
    /\ UNCHANGED <<work, uploadVars>>

RejectUpload(j) ==
    /\ StillInitiated(j)
    /\ jobs' = [jobs EXCEPT ![j].status = "rejected"]
    /\ UNCHANGED <<work, uploadVars>>

RejectMismatch(j) == "other" \in seen[j] /\ RejectUpload(j)
RejectExpired(j)  == j \in expired /\ RejectUpload(j)

\* A request that found another file deletes the object after its update,
\* whether or not that met an initiated row.
RemoveMismatch(j) ==
    /\ "other" \in seen[j]
    /\ ~StillInitiated(j)
    /\ object' = [object EXCEPT ![j] = "none"]
    /\ UNCHANGED <<leaseVars, expired, seen, removing, reposted, asset>>

-----------------------------------------------------------------------------
\* The verdicts; one that comes without a valid claim is refused.

Verdict(w) ==
    /\ At(w, "scan", "claimed")
    /\ HoldsLive(w)
    /\ work' = [work EXCEPT ![w] = Idle]

ScanError(w) ==
    /\ Verdict(w)
    /\ jobs' = Outcome(w, AfterFailure(w))
    /\ UNCHANGED uploadVars

Discard(w, status) ==
    /\ Verdict(w)
    /\ jobs' = Outcome(w, status)
    /\ removing' = removing \cup {work[w].job}
    /\ UNCHANGED <<object, expired, seen, reposted, asset>>

\* Clean, but of another type than declared.
ScanMismatch(w) == Discard(w, "rejected")
ScanInfected(w) == Discard(w, "infected")

SupersededAll(j) == {other \in Upload : jobs[other].status = "clean"} \cup {j}

\* The other clean uploads for the asset.
Superseded(j) == {other \in Upload \ {j} : jobs[other].status = "clean"}

ScanClean(w) ==
    LET upload == work[w].job
        clean  == Outcome(w, "clean")
    IN  /\ Verdict(w)
        /\ asset' = upload
        /\ jobs' = [j \in Job |-> IF j \in Superseded(upload)
                                  THEN [clean[j] EXCEPT !.status = "deleted"] ELSE clean[j]]
        /\ removing' = removing \cup Superseded(upload)
        /\ UNCHANGED <<object, expired, seen, reposted>>

VerdictRefused(w) ==
    /\ At(w, "scan", "claimed")
    /\ ~HoldsLive(w)
    /\ work' = [work EXCEPT ![w] = Idle]
    /\ UNCHANGED <<jobs, uploadVars>>

\* A failed or forgotten deletion leaves the object behind.
RemoveObject(j) ==
    /\ j \in removing
    /\ removing' = removing \ {j}
    /\ object' = [object EXCEPT ![j] = "none"] \/ UNCHANGED object
    /\ UNCHANGED <<leaseVars, expired, seen, reposted, asset>>

UploadStep(j) ==
    \/ PutObject(j) \/ ExpireForm(j) \/ HeadObject(j)
    \/ RequestScan(j) \/ RejectMismatch(j) \/ RejectExpired(j)
    \/ RemoveMismatch(j) \/ RemoveObject(j)
ScanStep(w) == ScanError(w) \/ ScanMismatch(w) \/ ScanInfected(w) \/ ScanClean(w) \/ VerdictRefused(w)

-----------------------------------------------------------------------------
\* Whatever the order of posts, completions and verdicts, the asset that is shown
\* is the one clean upload, and nothing is going to delete its file.  It is gone
\* only by a completion that found another file than the one declared, and another
\* one only if its owner posted the form again after a completion had looked.
AssetIsClean ==
    /\ {j \in Upload : jobs[j].status = "clean"} = {asset} \ {"none"}
    /\ \A j \in Upload : jobs[j].status = "clean" =>
          /\ j \notin removing
          /\ object[j] = "none" => "other" \in seen[j]
          /\ object[j] = "other" => j \in reposted
=============================================================================
