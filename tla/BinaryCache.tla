---------------------------- MODULE BinaryCache ----------------------------
(***************************************************************************)
(* The agent binary cache of one release (updates/agent_binary.py): a      *)
(* download into a .part file, the binary it is renamed to, and a sidecar  *)
(* with the checksum that update directives are signed over.               *)
(*                                                                         *)
(* One server process runs one event loop: a request gives way to another  *)
(* only at an await, and whatever follows the last chunk of a download is  *)
(* one step.  A file is named by the request that created it, because      *)
(* renaming a file leaves those who hold it open writing into it.  Content *)
(* is a sequence of chunks, each an upload's number or a Hole.             *)
(***************************************************************************)
EXTENDS Naturals, Sequences

CONSTANTS Request,    \* requests to stage the release on a host
          MaxUpload,  \* the release's assets are uploaded this often
          Chunks,     \* length of a download
          None

ASSUME NoneIsNoRequest == None \notin Request
ASSUME BoundsAssumption == MaxUpload \in Nat \ {0} /\ Chunks \in Nat \ {0}

VARIABLES pc,       \* where each request is
          want,     \* expected_sha, the upload it was published for
          from,     \* the upload its download reads
          fd,       \* the file it writes
          offset,   \* chunks it has written
          content,  \* content of each file
          part,     \* the file named .part
          binary,   \* the file named as the binary
          sidecar,  \* the checksum in the sidecar
          asset,    \* the release: the uploads its two assets are of
          alone,    \* history: no download overlapped this request's
          torn      \* history: the files are as a request left them that ended
                    \* between the rename and the checksum

request == <<pc, want, from, fd, offset, alone>>
files == <<content, part, binary, sidecar>>
vars == <<request, files, asset, torn>>

Upload == 1..MaxUpload
Hole == 0
NoSidecar == 0
Torn == MaxUpload + 1     \* a sidecar that was opened and never written

(* Every chunk of the file is of upload u.                                 *)
Matches(c, u) == Len(c) = Chunks /\ \A i \in 1..Len(c) : c[i] = u

(* cached_binary_if_present *)
Present == binary # None /\ sidecar # NoSidecar

Republished == asset.binary > 1 \/ asset.sha256 > 1

-----------------------------------------------------------------------------
(* ensure_cached: the published checksum arrives; a binary that already    *)
(* matches it is good, whatever the sidecar says.                          *)
Check(r) ==
  /\ pc[r] = "new"
  /\ want' = [want EXCEPT ![r] = asset.sha256]
  /\ pc' = [pc EXCEPT ![r] =
              IF binary # None /\ Matches(content[binary], asset.sha256)
              THEN "cached" ELSE "missing"]
  /\ UNCHANGED <<from, fd, offset, alone, files, asset, torn>>

(* Mutant of Opened: a download that takes up where another one stopped.   *)
OpenedToAppend(c) == c

(* open("wb") *)
Opened(c) == <<>>

(* _download: the response begins and .part is opened, created if need be. *)
Open(r) ==
  LET file == IF part = None THEN r ELSE part
      busy == {q \in Request : pc[q] = "writing"}
  IN
  /\ pc[r] = "missing"
  /\ pc' = [pc EXCEPT ![r] = "writing"]
  /\ from' = [from EXCEPT ![r] = asset.binary]
  /\ fd' = [fd EXCEPT ![r] = file]
  /\ content' = [content EXCEPT ![file] = Opened(content[file])]
  /\ offset' = [offset EXCEPT ![r] = Len(content'[file])]
  /\ part' = file
  /\ alone' = [q \in Request |-> alone[q] /\ (busy = {} \/ q \notin busy \cup {r})]
  /\ UNCHANGED <<want, binary, sidecar, asset, torn>>

(* Mutant of Written: two writers of one file both append.                 *)
WrittenAtEnd(c, n, u) == Append(c, u)

(* A write at position n, which may lie beyond the end.                    *)
Written(c, n, u) ==
  [i \in 1..(IF Len(c) > n THEN Len(c) ELSE n + 1) |->
     IF i = n + 1 THEN u ELSE IF i <= Len(c) THEN c[i] ELSE Hole]

Write(r) ==
  /\ pc[r] = "writing" /\ offset[r] < Chunks
  /\ content' = [content EXCEPT ![fd[r]] = Written(@, offset[r], from[r])]
  /\ offset' = [offset EXCEPT ![r] = @ + 1]
  /\ UNCHANGED <<pc, want, from, fd, alone, part, binary, sidecar, asset, torn>>

Complete(r) == pc[r] = "writing" /\ offset[r] >= Chunks

(* Mutant of Verified: trust the download.                                 *)
VerifiedUnread(r) == TRUE

(* The hash of the binary just put in place, which is what .part named.    *)
Verified(r) == Matches(content[part], want[r])

(* tmp.replace, then the checksum: the sidecar is written or the binary    *)
(* unlinked.                                                               *)
Finish(r) ==
  /\ Complete(r)
  /\ part # None
  /\ part' = None
  /\ torn' = FALSE
  /\ IF Verified(r)
     THEN /\ binary' = part
          /\ sidecar' = want[r]
          /\ pc' = [pc EXCEPT ![r] = "cached"]
     ELSE /\ binary' = None
          /\ sidecar' = sidecar
          /\ pc' = [pc EXCEPT ![r] = "failed"]
  /\ UNCHANGED <<want, from, fd, offset, alone, content, asset>>

(* It ends after tmp.replace: the binary is in place, and the sidecar is   *)
(* as it was or opened and not written.                                    *)
Tear(r) ==
  /\ Complete(r)
  /\ part # None
  /\ part' = None
  /\ binary' = part
  /\ sidecar' \in {sidecar} \cup (IF Verified(r) THEN {Torn} ELSE {})
  /\ torn' = TRUE
  /\ UNCHANGED <<want, from, fd, offset, alone, content, asset>>

(* An OSError from the hash, from unlink or from write_text.               *)
FinishTears(r) == Tear(r) /\ pc' = [pc EXCEPT ![r] = "failed"]

(* tmp.replace fails: another request has renamed the .part file away.     *)
FinishFails(r) ==
  /\ Complete(r)
  /\ part = None
  /\ pc' = [pc EXCEPT ![r] = "failed"]
  /\ UNCHANGED <<want, from, fd, offset, alone, files, asset, torn>>

(* Mutant of DownloadFails: the failure cleans up what is cached.          *)
DownloadFailsAndUnlinks(r) ==
  /\ pc[r] \in {"new", "missing", "writing"}
  /\ pc' = [pc EXCEPT ![r] = "failed"]
  /\ binary' = None
  /\ UNCHANGED <<want, from, fd, offset, alone, content, part, sidecar, asset, torn>>

(* The release is not the known latest, httpx.HTTPError, or an OSError up  *)
(* to the rename; .part stays.                                             *)
DownloadFails(r) ==
  /\ pc[r] \in {"new", "missing", "writing"}
  /\ pc' = [pc EXCEPT ![r] = "failed"]
  /\ UNCHANGED <<want, from, fd, offset, alone, files, asset, torn>>

(* The host is told to update: ui/routes.py host_agent_update, then        *)
(* agent_update.set_target.                                                *)
Stage(r) ==
  /\ pc[r] = "cached"
  /\ pc' = [pc EXCEPT ![r] = "staged"]
  /\ UNCHANGED <<want, from, fd, offset, alone, files, asset, torn>>

-----------------------------------------------------------------------------
Active == {r \in Request : pc[r] \notin {"new", "failed", "staged"}}

(* The process dies, and every request in it.                              *)
Die ==
  /\ Active # {}
  /\ pc' = [r \in Request |-> IF r \in Active THEN "failed" ELSE pc[r]]

Crash == Die /\ UNCHANGED <<want, from, fd, offset, alone, files, asset, torn>>

CrashInFinish(r) == Tear(r) /\ Die

(* The release's owner uploads an asset of the same version again.         *)
Republish(a) ==
  /\ asset[a] < MaxUpload
  /\ asset' = [asset EXCEPT ![a] = @ + 1]
  /\ UNCHANGED <<request, files, torn>>

-----------------------------------------------------------------------------
Init ==
  /\ pc = [r \in Request |-> "new"]
  /\ want = [r \in Request |-> 0]
  /\ from = [r \in Request |-> 0]
  /\ fd = [r \in Request |-> None]
  /\ offset = [r \in Request |-> 0]
  /\ alone = [r \in Request |-> TRUE]
  /\ content = [r \in Request |-> <<>>]
  /\ part = None
  /\ binary = None
  /\ sidecar = NoSidecar
  /\ asset = [binary |-> 1, sha256 |-> 1]
  /\ torn = FALSE

Step(r) ==
  \/ Check(r) \/ Open(r) \/ Write(r) \/ Finish(r) \/ FinishFails(r)
  \/ FinishTears(r) \/ DownloadFails(r) \/ Stage(r) \/ CrashInFinish(r)

Next ==
  \/ \E r \in Request : Step(r)
  \/ Crash
  \/ \E a \in {"binary", "sha256"} : Republish(a)

Spec == Init /\ [][Next]_vars

-----------------------------------------------------------------------------
(* Type invariant; a request that writes holds a file.                     *)
TypeOK ==
  /\ pc \in [Request -> {"new", "missing", "writing", "cached", "staged", "failed"}]
  /\ want \in [Request -> 0..MaxUpload] /\ from \in [Request -> 0..MaxUpload]
  /\ fd \in [Request -> Request \cup {None}]
  /\ offset \in [Request -> 0..Chunks]
  /\ alone \in [Request -> BOOLEAN]
  /\ content \in [Request -> Seq(0..MaxUpload)]
  /\ \A r \in Request : Len(content[r]) <= Chunks
  /\ part \in Request \cup {None} /\ binary \in Request \cup {None}
  /\ sidecar \in 0..Torn
  /\ asset \in [binary: Upload, sha256: Upload]
  /\ torn \in BOOLEAN
  /\ \A r \in Request :
       /\ pc[r] \in {"missing", "writing"} => want[r] \in Upload
       /\ pc[r] = "writing" => fd[r] \in Request /\ from[r] \in Upload

(* The checksum a directive is signed over is that of the binary it leads  *)
(* to (cached_binary_if_present reads it from the sidecar and hashes       *)
(* nothing), but for a request that ended between the rename and the       *)
(* checksum: whatever downloads overlap, fail or die half-way, and however *)
(* often the assets are uploaded again, but not both at once.              *)
ServedMatches ==
  Present /\ ~torn /\ (Republished => \A r \in Request : alone[r]) =>
    Matches(content[binary], sidecar)

(* A release staged on a host stays in the cache (agent_update.set_target, *)
(* "binary must already be cached"), whatever downloads fail or die, as    *)
(* long as none ended between the rename and the checksum, the assets stay *)
(* as they are and downloads do not overlap.                               *)
StagedIsServed ==
  ~torn /\ ~Republished /\ (\A r \in Request : alone[r]) =>
    ((\E r \in Request : pc[r] = "staged") => Present)

(* Nothing an earlier request or a crash left behind spoils a download of  *)
(* what was promised that runs alone (ensure_cached, _download).           *)
FreshStart ==
  [][\A r \in Request :
       (Finish(r) \/ FinishFails(r)) /\ alone[r] /\ from[r] = want[r] =>
         pc'[r] = "cached" /\ Present']_vars
=============================================================================
