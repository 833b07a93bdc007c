------------------------------- MODULE Media -------------------------------
(***************************************************************************)
(* MediaService over LocalMediaStorage: uploads, deletions and listings by *)
(* requests that run at the same time.  A stored name is random, so that a *)
(* file is known by the upload that wrote it.                              *)
(***************************************************************************)
EXTENDS Naturals

CONSTANTS Uploads, Removals, Listings,   \* calls of save_upload, delete, list_files
          NoFile

VARIABLES file,      \* file[u]: the file of upload u
          upload,    \* where an upload is
          removal,   \* where a deletion is, and the upload whose file it deletes
          listing,   \* listing[l]: the files still to stat
          audited    \* the audit log, without the calls' repetitions

mediaVars == <<file, upload, removal, listing, audited>>

MediaTypeOK ==
    /\ file \in [Uploads -> {"none", "part", "whole"}]
    /\ upload \in [Uploads -> {"start", "writing", "written", "stored", "ok", "failed"}]
    /\ removal \in [Removals -> [at : {"start", "checked", "unlinked", "ok", "failed"},
                                 name : Uploads \cup {NoFile}]]
    /\ listing \in [Listings -> [at : {"start", "stat", "ok", "failed"},
                                 left : SUBSET Uploads]]
    /\ audited \subseteq {"uploaded", "deleted"} \X Uploads

MediaInit ==
    /\ file = [u \in Uploads |-> "none"]
    /\ upload = [u \in Uploads |-> "start"]
    /\ removal = [r \in Removals |-> [at |-> "start", name |-> NoFile]]
    /\ listing = [l \in Listings |-> [at |-> "start", left |-> {}]]
    /\ audited = {}

-----------------------------------------------------------------------------
\* Fault variants, each substituted for the definition named beside it.
MovedIntoPlace(u) == "whole"                                         \* Landed

-----------------------------------------------------------------------------
OnDisk == {u \in Uploads : file[u] # "none"}

\* An extension that is not allowed, no data, or too much.
RefuseUpload(u) ==
    /\ upload[u] = "start"
    /\ upload' = [upload EXCEPT ![u] = "failed"]
    /\ UNCHANGED <<file, removal, listing, audited>>

\* write_bytes() creates the file, fills it, and may fail on the way.
OpenMedia(u) ==
    /\ upload[u] = "start"
    /\ upload' = [upload EXCEPT ![u] = "writing"]
    /\ file' = [file EXCEPT ![u] = "part"]
    /\ UNCHANGED <<removal, listing, audited>>

\* What is written into a file whose name was removed is gone with it.
Landed(u) == IF file[u] = "none" THEN "none" ELSE "whole"

WriteMedia(u) ==
    /\ upload[u] = "writing"
    /\ \/ /\ upload' = [upload EXCEPT ![u] = "written"]
          /\ file' = [file EXCEPT ![u] = Landed(u)]
       \/ /\ upload' = [upload EXCEPT ![u] = "failed"]
          /\ UNCHANGED file
    /\ UNCHANGED <<removal, listing, audited>>

\* stat() of a file that is gone is an error.
StatMedia(u) ==
    /\ upload[u] = "written"
    /\ upload' = [upload EXCEPT ![u] = IF u \in OnDisk THEN "stored" ELSE "failed"]
    /\ UNCHANGED <<file, removal, listing, audited>>

\* The audit insert may fail: the answer is an error, and the file stays.
AuditUpload(u) ==
    /\ upload[u] = "stored"
    /\ \/ /\ upload' = [upload EXCEPT ![u] = "ok"]
          /\ audited' = audited \cup {<<"uploaded", u>>}
       \/ /\ upload' = [upload EXCEPT ![u] = "failed"]
          /\ UNCHANGED audited
    /\ UNCHANGED <<file, removal, listing>>

-----------------------------------------------------------------------------
\* Names come from listings: of files that are there, finished or not.
FindMedia(r, u) ==
    /\ removal[r].at = "start"
    /\ u \in OnDisk
    /\ removal' = [removal EXCEPT ![r] = [at |-> "checked", name |-> u]]
    /\ UNCHANGED <<file, upload, listing, audited>>

\* unlink(missing_ok=True): somebody else may have been first.
UnlinkMedia(r) ==
    /\ removal[r].at = "checked"
    /\ removal' = [removal EXCEPT ![r].at = "unlinked"]
    /\ file' = [file EXCEPT ![removal[r].name] = "none"]
    /\ UNCHANGED <<upload, listing, audited>>

AuditRemoval(r) ==
    /\ removal[r].at = "unlinked"
    /\ \/ /\ removal' = [removal EXCEPT ![r].at = "ok"]
          /\ audited' = audited \cup {<<"deleted", removal[r].name>>}
       \/ /\ removal' = [removal EXCEPT ![r].at = "failed"]
          /\ UNCHANGED audited
    /\ UNCHANGED <<file, upload, listing>>

-----------------------------------------------------------------------------
\* iterdir(), then is_file() and stat() for each.
ReadDirectory(l) ==
    /\ listing[l].at = "start"
    /\ listing' = [listing EXCEPT ![l] = [at |-> "stat", left |-> OnDisk]]
    /\ UNCHANGED <<file, upload, removal, audited>>

\* A file that goes between is_file() and stat() fails the listing.
StatListed(l, u) ==
    /\ listing[l].at = "stat" /\ u \in listing[l].left
    /\ \/ listing' = [listing EXCEPT ![l].left = @ \ {u}]
       \/ /\ u \notin OnDisk
          /\ listing' = [listing EXCEPT ![l] = [at |-> "failed", left |-> {}]]
    /\ UNCHANGED <<file, upload, removal, audited>>

EndListing(l) ==
    /\ listing[l].at = "stat" /\ listing[l].left = {}
    /\ listing' = [listing EXCEPT ![l].at = "ok"]
    /\ UNCHANGED <<file, upload, removal, audited>>

MediaNext ==
    \/ \E u \in Uploads :
          RefuseUpload(u) \/ OpenMedia(u) \/ WriteMedia(u) \/ StatMedia(u) \/ AuditUpload(u)
    \/ \E r \in Removals :
          (\E u \in Uploads : FindMedia(r, u)) \/ UnlinkMedia(r) \/ AuditRemoval(r)
    \/ \E l \in Listings :
          ReadDirectory(l) \/ (\E u \in Uploads : StatListed(l, u)) \/ EndListing(l)

MediaSpec == MediaInit /\ [][MediaNext]_mediaVars

-----------------------------------------------------------------------------
Unlinked(u) == \E r \in Removals : removal[r].name = u /\ removal[r].at \notin {"start", "checked"}

\* The audit log tells what is in the directory, although neither is written in
\* a transaction with the other: a file whose upload is on record is there and
\* whole until somebody removes it, one whose deletion is on record is gone for
\* good, also if it was deleted while it was being written, and one that is on no
\* record belongs to an upload that is running or was answered with an error.
LogTellsTheDirectory ==
    \A u \in Uploads :
        /\ <<"uploaded", u>> \in audited => file[u] = "whole" \/ Unlinked(u)
        /\ <<"deleted", u>> \in audited => file[u] = "none"
        /\ u \in OnDisk /\ <<"uploaded", u>> \notin audited => upload[u] # "ok"
=============================================================================
