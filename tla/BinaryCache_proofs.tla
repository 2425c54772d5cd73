------------------------ MODULE BinaryCache_proofs ------------------------
(* Machine-checked proofs about BinaryCache, for any number of requests,   *)
(* uploads and chunks.                                                     *)
EXTENDS BinaryCache, TLAPS

AllAlone == \A r \in Request : alone[r]

(* The binary is never also the .part file, and neither is a file nobody   *)
(* has created.                                                            *)
NamesInv ==
  /\ part # None => part # binary
  /\ \A r \in Request : pc[r] \in {"new", "missing"} => part # r /\ binary # r

(* While the assets stay as they are there is one content to download.     *)
OneUpload ==
  ~Republished =>
    \A r \in Request : /\ pc[r] \in {"missing", "writing"} => want[r] = 1
                       /\ pc[r] = "writing" => from[r] = 1

(* While downloads do not overlap, whoever writes has the .part file.      *)
OneWriter ==
  AllAlone =>
    /\ \A r \in Request : pc[r] = "writing" => fd[r] = part
    /\ \A r, q \in Request : pc[r] = "writing" /\ pc[q] = "writing" => r = q

(* The binary is there with its sidecar or not at all.                     *)
BinaryInv ==
  ~torn /\ (Republished => AllAlone) /\ binary # None =>
    /\ sidecar \in Upload
    /\ ~Republished => sidecar = 1
    /\ Matches(content[binary], sidecar)

IInv == TypeOK /\ NamesInv /\ OneUpload /\ OneWriter /\ BinaryInv

(* A download nobody overlaps is in .part, and is all that is there.       *)
AloneInv ==
  \A r \in Request :
    pc[r] = "writing" /\ alone[r] =>
      /\ fd[r] = part
      /\ \A q \in Request : pc[q] = "writing" => q = r
      /\ Len(content[fd[r]]) = offset[r]
      /\ \A i \in 1..offset[r] : content[fd[r]][i] = from[r]

(* A request that has been told the release is cached finds it there.      *)
CachedInv ==
  ~torn /\ ~Republished /\ AllAlone =>
    \A r \in Request : pc[r] \in {"cached", "staged"} => binary # None

-----------------------------------------------------------------------------
(* What one write does to a file: it grows no longer than it has to, and   *)
(* one that is all of upload u stays so if u is written.                   *)
LEMMA WrittenSeq ==
  ASSUME NEW c \in Seq(0..MaxUpload), Len(c) <= Chunks,
         NEW n \in 0..Chunks, n < Chunks, NEW u \in Upload
  PROVE  /\ Written(c, n, u) \in Seq(0..MaxUpload)
         /\ Len(Written(c, n, u)) <= Chunks
<1> DEFINE m == IF Len(c) > n THEN Len(c) ELSE n + 1
           e(i) == IF i = n + 1 THEN u ELSE IF i <= Len(c) THEN c[i] ELSE Hole
<1>1. m \in Nat /\ m <= Chunks
  BY BoundsAssumption
<1>2. \A i \in 1..m : e(i) \in 0..MaxUpload
  BY BoundsAssumption DEF Upload, Hole
<1>3. Written(c, n, u) = [i \in 1..m |-> e(i)]
  BY DEF Written
<1> HIDE DEF m, e
<1>4. [i \in 1..m |-> e(i)] \in Seq(0..MaxUpload) /\ Len([i \in 1..m |-> e(i)]) = m
  BY <1>1, <1>2
<1> QED
  BY <1>1, <1>3, <1>4

LEMMA WrittenMatches ==
  ASSUME NEW c \in Seq(0..MaxUpload), NEW n \in 0..Chunks, n < Chunks,
         NEW u \in Upload, Matches(c, u)
  PROVE  Matches(Written(c, n, u), u)
<1>1. Len(c) = Chunks /\ (\A i \in 1..Chunks : c[i] = u) /\ Chunks \in Nat
  BY BoundsAssumption DEF Matches
<1>2. (IF Len(c) > n THEN Len(c) ELSE n + 1) = Chunks
  BY <1>1
<1>3. Written(c, n, u) = [i \in 1..Chunks |-> u]
  BY <1>1, <1>2 DEF Written
<1>4. Len(Written(c, n, u)) = Chunks
  BY <1>1, <1>3
<1> QED
  BY <1>1, <1>3, <1>4 DEF Matches

-----------------------------------------------------------------------------
LEMMA InitIInv == Init => IInv
<1> SUFFICES ASSUME Init PROVE IInv
  OBVIOUS
<1>1. TypeOK
  <2>1. <<>> \in Seq(0..MaxUpload) /\ Len(<<>>) = 0
    OBVIOUS
  <2>2. asset \in [binary: Upload, sha256: Upload] /\ sidecar \in 0..Torn
    BY BoundsAssumption DEF Init, Upload, Torn, NoSidecar
  <2>3. /\ content \in [Request -> Seq(0..MaxUpload)]
        /\ \A r \in Request : Len(content[r]) <= Chunks
    BY <2>1, BoundsAssumption DEF Init
  <2>4. alone \in [Request -> BOOLEAN] /\ torn \in BOOLEAN
    BY DEF Init
  <2>5. /\ pc \in [Request -> {"new", "missing", "writing", "cached", "staged", "failed"}]
        /\ want \in [Request -> 0..MaxUpload] /\ from \in [Request -> 0..MaxUpload]
        /\ fd \in [Request -> Request \cup {None}]
        /\ offset \in [Request -> 0..Chunks]
    BY BoundsAssumption DEF Init
  <2>6. \A r \in Request : pc[r] = "new"
    BY DEF Init
  <2> QED
    BY <2>2, <2>3, <2>4, <2>5, <2>6 DEF Init, TypeOK
<1>2. NamesInv
  BY NoneIsNoRequest DEF Init, NamesInv
<1>3. OneUpload /\ OneWriter /\ BinaryInv
  BY DEF Init, OneUpload, OneWriter, BinaryInv
<1> QED
  BY <1>1, <1>2, <1>3 DEF IInv

LEMMA CheckIInv == ASSUME IInv, NEW r \in Request, Check(r) PROVE IInv'
<1> USE DEF IInv, Check, files
<1>1. TypeOK'
  BY SMTT(30) DEF TypeOK, Upload
<1>2. NamesInv'
  BY DEF NamesInv
<1>3. OneUpload'
  BY DEF OneUpload, TypeOK, Republished, Upload
<1>4. OneWriter'
  BY DEF OneWriter, AllAlone, TypeOK
<1>5. BinaryInv'
  BY DEF BinaryInv, AllAlone, Republished
<1> QED
  BY <1>1, <1>2, <1>3, <1>4, <1>5

LEMMA OpenIInv == ASSUME IInv, NEW r \in Request, Open(r) PROVE IInv'
<1> DEFINE file == IF part = None THEN r ELSE part
<1> USE DEF IInv
<1>1. file \in Request /\ file # binary
  BY DEF Open, TypeOK, NamesInv
<1>2. /\ content' = [content EXCEPT ![file] = <<>>]
      /\ content' \in [Request -> Seq(0..MaxUpload)]
      /\ \A q \in Request : Len(content'[q]) <= Chunks
      /\ Len(content'[file]) = 0
  BY <1>1, BoundsAssumption DEF Open, Opened, TypeOK
<1>3. TypeOK'
  <2>1. alone' \in [Request -> BOOLEAN]
    BY DEF Open
  <2>2. offset' \in [Request -> 0..Chunks]
    BY <1>2, BoundsAssumption DEF Open, TypeOK
  <2>3. /\ pc' \in [Request -> {"new", "missing", "writing", "cached", "staged", "failed"}]
        /\ from' \in [Request -> 0..MaxUpload]
        /\ fd' \in [Request -> Request \cup {None}]
        /\ part' \in Request
    BY <1>1, SMTT(30) DEF Open, TypeOK, Upload
  <2>4. \A q \in Request :
          /\ pc'[q] \in {"missing", "writing"} => want'[q] \in Upload
          /\ pc'[q] = "writing" => fd'[q] \in Request /\ from'[q] \in Upload
    BY <1>1 DEF Open, TypeOK
  <2> QED
    BY <1>2, <2>1, <2>2, <2>3, <2>4 DEF Open, TypeOK
<1>4. NamesInv'
  BY <1>1, NoneIsNoRequest DEF Open, TypeOK, NamesInv
<1>5. OneUpload'
  BY DEF Open, OneUpload, TypeOK, Republished, Upload
<1>6. AllAlone' => AllAlone /\ \A q \in Request : pc[q] # "writing"
  BY DEF Open, AllAlone, TypeOK
<1>7. OneWriter'
  BY <1>6 DEF Open, OneWriter, TypeOK
<1>8. binary # None => content'[binary] = content[binary]
  BY <1>1, <1>2 DEF TypeOK
<1>9. BinaryInv'
  BY <1>6, <1>8 DEF Open, BinaryInv, Republished, Matches
<1> QED
  BY <1>3, <1>4, <1>5, <1>7, <1>9

LEMMA WriteIInv == ASSUME IInv, NEW r \in Request, Write(r) PROVE IInv'
<1> USE DEF IInv
<1>1. /\ fd[r] \in Request /\ from[r] \in Upload
      /\ offset[r] \in 0..Chunks /\ offset[r] < Chunks
      /\ content[fd[r]] \in Seq(0..MaxUpload) /\ Len(content[fd[r]]) <= Chunks
  BY DEF Write, TypeOK
<1> DEFINE new == Written(content[fd[r]], offset[r], from[r])
<1>2. new \in Seq(0..MaxUpload) /\ Len(new) <= Chunks
  BY <1>1, WrittenSeq
<1>3. content' = [content EXCEPT ![fd[r]] = new]
  BY DEF Write
<1>4. TypeOK'
  <2>1. content' \in [Request -> Seq(0..MaxUpload)]
    BY <1>1, <1>2, <1>3 DEF TypeOK
  <2>2. \A q \in Request : Len(content'[q]) <= Chunks
    BY <1>1, <1>2, <1>3 DEF TypeOK
  <2>3. offset' \in [Request -> 0..Chunks]
    BY <1>1, BoundsAssumption DEF Write, TypeOK
  <2> QED
    BY <2>1, <2>2, <2>3 DEF Write, TypeOK
<1>5. NamesInv' /\ OneUpload' /\ OneWriter'
  BY DEF Write, NamesInv, OneUpload, OneWriter, AllAlone, Republished
<1>6. BinaryInv'
  <2> SUFFICES ASSUME ~torn, Republished => AllAlone, binary # None
               PROVE  /\ sidecar \in Upload
                      /\ ~Republished => sidecar = 1
                      /\ Matches(content'[binary], sidecar)
    BY DEF Write, BinaryInv, AllAlone, Republished
  <2>1. /\ sidecar \in Upload
        /\ ~Republished => sidecar = 1
        /\ Matches(content[binary], sidecar)
    BY DEF BinaryInv
  <2>2. CASE binary # fd[r]
    BY <1>3, <2>1, <2>2 DEF TypeOK
  <2>3. CASE binary = fd[r]
    <3>1. ~Republished
      BY <2>3 DEF Write, OneWriter, NamesInv
    <3>2. from[r] = 1 /\ sidecar = 1
      BY <3>1, <2>1 DEF Write, OneUpload
    <3>3. Matches(content[fd[r]], from[r])
      BY <3>2, <2>1, <2>3
    <3>4. Matches(new, from[r])
      BY <3>3, <1>1, WrittenMatches
    <3>5. content'[binary] = new
      BY <1>1, <1>3, <2>3 DEF TypeOK
    <3> QED
      BY <2>1, <3>2, <3>4, <3>5
  <2> QED
    BY <2>2, <2>3
<1> QED
  BY <1>4, <1>5, <1>6

LEMMA FinishIInv == ASSUME IInv, NEW r \in Request, Finish(r) PROVE IInv'
<1> USE DEF IInv
<1>1. part \in Request /\ want[r] \in Upload /\ pc[r] = "writing"
  BY DEF Finish, Complete, TypeOK
<1>2. TypeOK'
  <2>1. pc' \in [Request -> {"new", "missing", "writing", "cached", "staged", "failed"}]
    BY DEF Finish, TypeOK
  <2>2. /\ part' \in Request \cup {None} /\ binary' \in Request \cup {None}
        /\ sidecar' \in 0..Torn
    BY <1>1, BoundsAssumption, SMTT(30) DEF Finish, TypeOK, Upload, Torn
  <2>3. \A q \in Request : pc'[q] \in {"missing", "writing"} => pc'[q] = pc[q]
    BY DEF Finish, TypeOK
  <2>4. UNCHANGED <<want, from, fd, offset, alone, content, asset>> /\ torn' \in BOOLEAN
    BY DEF Finish
  <2> QED
    BY <2>1, <2>2, <2>3, <2>4 DEF TypeOK
<1>3. NamesInv'
  BY <1>1, NoneIsNoRequest DEF Finish, NamesInv, TypeOK
<1>4. OneUpload'
  BY DEF Finish, OneUpload, Republished, TypeOK
<1>5. OneWriter'
  BY <1>1, ZenonT(60) DEF Finish, OneWriter, AllAlone, TypeOK
<1>6. BinaryInv'
  <2>1. CASE Verified(r)
    BY <1>1, <2>1 DEF Finish, BinaryInv, Verified, Republished, OneUpload
  <2>2. CASE ~Verified(r)
    BY <2>2 DEF Finish, BinaryInv
  <2> QED
    BY <2>1, <2>2
<1> QED
  BY <1>2, <1>3, <1>4, <1>5, <1>6

(* Steps that only end a request.                                          *)
LEMMA EndIInv ==
  ASSUME IInv, NEW r \in Request, FinishFails(r) \/ DownloadFails(r) \/ Stage(r)
  PROVE  IInv'
<1> USE DEF IInv, FinishFails, DownloadFails, Stage, Complete, files
<1>1. TypeOK'
  BY DEF TypeOK
<1>2. NamesInv'
  BY DEF NamesInv, TypeOK
<1>3. \A q \in Request : pc'[q] \in {"missing", "writing"} => pc'[q] = pc[q]
  BY DEF TypeOK
<1>4. OneUpload' /\ OneWriter'
  BY <1>3 DEF OneUpload, OneWriter, AllAlone, Republished
<1>5. BinaryInv'
  BY DEF BinaryInv, AllAlone, Republished
<1> QED
  BY <1>1, <1>2, <1>4, <1>5

LEMMA CrashIInv == ASSUME IInv, Crash PROVE IInv'
<1> USE DEF IInv
<1>1. Die /\ UNCHANGED <<want, from, fd, offset, alone, files, asset, torn>>
  BY DEF Crash
<1>2. \A q \in Request : /\ pc'[q] \in {"new", "staged", "failed"}
                         /\ pc'[q] = "new" => pc[q] = "new"
  BY <1>1 DEF Die, Active, TypeOK
<1>3. TypeOK'
  <2>1. pc' \in [Request -> {"new", "missing", "writing", "cached", "staged", "failed"}]
    BY <1>1, <1>2 DEF Die
  <2> QED
    BY <1>1, <1>2, <2>1 DEF files, TypeOK
<1>4. NamesInv'
  BY <1>1, <1>2 DEF NamesInv, files
<1>5. OneUpload' /\ OneWriter'
  BY <1>2 DEF OneUpload, OneWriter
<1>6. BinaryInv'
  BY <1>1 DEF BinaryInv, AllAlone, Republished, files
<1> QED
  BY <1>3, <1>4, <1>5, <1>6

(* Steps that end a request between the rename and the checksum.           *)
LEMMA TearIInv ==
  ASSUME IInv, NEW r \in Request, FinishTears(r) \/ CrashInFinish(r)
  PROVE  IInv'
<1> USE DEF IInv
<1>1. Tear(r)
  BY DEF FinishTears, CrashInFinish
<1>2. /\ pc' \in [Request -> {"new", "missing", "writing", "cached", "staged", "failed"}]
      /\ \A q \in Request : pc'[q] \in {pc[q], "failed"} /\ pc'[r] = "failed"
  <2>1. CASE FinishTears(r)
    BY <2>1 DEF FinishTears, TypeOK
  <2>2. CASE CrashInFinish(r)
    BY <1>1, <2>2 DEF CrashInFinish, Die, Active, Tear, Complete, TypeOK
  <2> QED
    BY <2>1, <2>2
<1>3. /\ part \in Request /\ part' = None /\ binary' = part /\ sidecar' \in 0..Torn
  BY <1>1, BoundsAssumption DEF Tear, TypeOK, Torn
<1>4. TypeOK'
  BY <1>1, <1>2, <1>3 DEF Tear, TypeOK
<1>5. NamesInv'
  BY <1>2, <1>3, NoneIsNoRequest DEF NamesInv, TypeOK
<1>6. OneUpload'
  BY <1>1, <1>2 DEF Tear, OneUpload, Republished
<1>7. OneWriter'
  <2> SUFFICES ASSUME AllAlone, NEW q \in Request, pc'[q] = "writing"
               PROVE  FALSE
    BY <1>1 DEF Tear, OneWriter, AllAlone
  <2>1. pc[q] = "writing" /\ q # r /\ pc[r] = "writing"
    BY <1>1, <1>2 DEF Tear, Complete
  <2> QED
    BY <2>1 DEF OneWriter
<1>8. BinaryInv'
  BY <1>1 DEF Tear, BinaryInv
<1> QED
  BY <1>4, <1>5, <1>6, <1>7, <1>8

LEMMA RepublishIInv ==
  ASSUME IInv, NEW a \in {"binary", "sha256"}, Republish(a)
  PROVE  IInv'
<1> USE DEF IInv
<1>1. /\ asset' \in [binary: Upload, sha256: Upload]
      /\ Republished'
      /\ UNCHANGED <<request, files, torn>>
  BY BoundsAssumption, SMTT(30) DEF Republish, TypeOK, Upload, Republished
<1>2. TypeOK'
  BY <1>1 DEF TypeOK, request, files
<1>3. NamesInv' /\ OneUpload' /\ OneWriter'
  BY <1>1 DEF NamesInv, OneUpload, OneWriter, AllAlone, request, files
<1>4. BinaryInv'
  BY <1>1 DEF BinaryInv, AllAlone, request, files
<1> QED
  BY <1>2, <1>3, <1>4

LEMMA StepIInv == ASSUME IInv, [Next]_vars PROVE IInv'
<1>1. ASSUME NEW r \in Request, Step(r) PROVE IInv'
  BY <1>1, CheckIInv, OpenIInv, WriteIInv, FinishIInv, EndIInv, TearIInv DEF Step
<1>2. CASE Crash
  BY <1>2, CrashIInv
<1>3. ASSUME NEW a \in {"binary", "sha256"}, Republish(a) PROVE IInv'
  BY <1>3, RepublishIInv
<1>4. CASE UNCHANGED vars
  BY <1>4 DEF vars, request, files, IInv, TypeOK, NamesInv, OneUpload, OneWriter,
              BinaryInv, AllAlone, Republished, Matches
<1> QED
  BY <1>1, <1>2, <1>3, <1>4 DEF Next

LEMMA IInvAlways == Spec => []IInv
  BY InitIInv, StepIInv, PTL DEF Spec

(* What is written to the end of a file that is all of upload u.           *)
LEMMA WrittenNext ==
  ASSUME NEW c \in Seq(0..MaxUpload), NEW u \in Upload, \A i \in 1..Len(c) : c[i] = u
  PROVE  /\ Len(Written(c, Len(c), u)) = Len(c) + 1
         /\ \A i \in 1..Len(c) + 1 : Written(c, Len(c), u)[i] = u
<1> DEFINE n == Len(c)
           e(i) == IF i = n + 1 THEN u ELSE IF i <= n THEN c[i] ELSE Hole
<1>1. n \in Nat /\ \A i \in 1..n + 1 : e(i) = u
  OBVIOUS
<1>2. Written(c, n, u) = [i \in 1..n + 1 |-> e(i)]
  BY <1>1 DEF Written
<1> HIDE DEF n, e
<1>3. Written(c, n, u) = [i \in 1..n + 1 |-> u]
  BY <1>1, <1>2
<1>4. Len(Written(c, n, u)) = n + 1 /\ \A i \in 1..n + 1 : Written(c, n, u)[i] = u
  BY <1>1, <1>3
<1> QED
  BY <1>4 DEF n

(* A request that finishes alone finds all of what it read, and no other.  *)
LEMMA AloneFinds ==
  ASSUME TypeOK, AloneInv, NEW r \in Request, Complete(r), alone[r]
  PROVE  part # None /\ Matches(content[part], from[r])
<1>1. /\ fd[r] = part /\ fd[r] \in Request /\ Len(content[part]) = offset[r]
      /\ \A i \in 1..offset[r] : content[part][i] = from[r]
  BY DEF Complete, AloneInv, TypeOK
<1>2. offset[r] = Chunks
  BY BoundsAssumption DEF Complete, TypeOK
<1> QED
  BY <1>1, <1>2, NoneIsNoRequest DEF Matches

LEMMA InitAlone == Init => AloneInv /\ CachedInv
BY DEF Init, AloneInv, CachedInv

LEMMA OpenAlone ==
  ASSUME IInv, AloneInv, CachedInv, NEW r \in Request, Open(r)
  PROVE  AloneInv' /\ CachedInv'
<1> DEFINE file == IF part = None THEN r ELSE part
<1>1. TypeOK
  BY DEF IInv
<1>2. /\ file \in Request /\ part' = file /\ fd' = [fd EXCEPT ![r] = file]
      /\ content' = [content EXCEPT ![file] = <<>>]
      /\ pc' = [pc EXCEPT ![r] = "writing"]
  BY <1>1 DEF Open, Opened, TypeOK
<1>3. ASSUME NEW q \in Request, pc'[q] = "writing", alone'[q]
      PROVE  q = r /\ \A p \in Request : pc[p] # "writing"
  BY <1>1, <1>2, <1>3 DEF Open, TypeOK
<1>4. content'[file] = <<>> /\ offset' = [offset EXCEPT ![r] = 0] /\ fd'[r] = file
  BY <1>1, <1>2 DEF Open, TypeOK
<1>5. ASSUME NEW q \in Request, pc'[q] = "writing", alone'[q]
      PROVE  /\ fd'[q] = part'
             /\ \A p \in Request : pc'[p] = "writing" => p = q
             /\ Len(content'[fd'[q]]) = offset'[q]
             /\ \A i \in 1..offset'[q] : content'[fd'[q]][i] = from'[q]
  <2>1. q = r /\ \A p \in Request : pc'[p] = "writing" => p = q
    BY <1>1, <1>2, <1>3, <1>5 DEF TypeOK
  <2>2. offset'[q] = 0 /\ content'[fd'[q]] = <<>>
    BY <1>1, <1>4, <2>1 DEF TypeOK
  <2> QED
    BY <1>2, <1>4, <2>1, <2>2
<1>6. CachedInv'
  BY <1>1 DEF Open, CachedInv, AllAlone, Republished, TypeOK
<1> QED
  BY <1>5, <1>6 DEF AloneInv

LEMMA WriteAlone ==
  ASSUME IInv, AloneInv, CachedInv, NEW r \in Request, Write(r)
  PROVE  AloneInv' /\ CachedInv'
<1>1. TypeOK
  BY DEF IInv
<1>2. /\ fd[r] \in Request /\ from[r] \in Upload /\ offset[r] \in Nat
      /\ content[fd[r]] \in Seq(0..MaxUpload)
  BY <1>1, BoundsAssumption DEF Write, TypeOK
<1> DEFINE new == Written(content[fd[r]], offset[r], from[r])
<1>3. /\ content' = [content EXCEPT ![fd[r]] = new]
      /\ offset' = [offset EXCEPT ![r] = offset[r] + 1]
      /\ UNCHANGED <<pc, want, from, fd, alone, part, binary, sidecar, asset, torn>>
      /\ pc[r] = "writing"
  BY DEF Write
<1> HIDE DEF new
<1>4. content'[fd[r]] = new /\ offset'[r] = offset[r] + 1
  BY <1>1, <1>2, <1>3 DEF TypeOK
<1>5. ASSUME NEW q \in Request, pc[q] = "writing", alone[q]
      PROVE  /\ fd[q] = part
             /\ \A p \in Request : pc[p] = "writing" => p = q
             /\ Len(content'[fd[q]]) = offset'[q]
             /\ \A i \in 1..offset'[q] : content'[fd[q]][i] = from[q]
  <2>1. /\ fd[q] = part /\ q = r
        /\ \A p \in Request : pc[p] = "writing" => p = q
        /\ Len(content[fd[q]]) = offset[q]
        /\ \A i \in 1..offset[q] : content[fd[q]][i] = from[q]
    BY <1>3, <1>5 DEF AloneInv
  <2>2. Len(new) = offset[r] + 1 /\ \A i \in 1..offset[r] + 1 : new[i] = from[r]
    BY <1>2, <2>1, WrittenNext DEF new
  <2> QED
    BY <1>4, <2>1, <2>2
<1>6. AloneInv'
  BY <1>3, <1>5 DEF AloneInv
<1>7. CachedInv'
  BY <1>3 DEF CachedInv, AllAlone, Republished
<1> QED
  BY <1>6, <1>7

LEMMA FinishAlone ==
  ASSUME IInv, AloneInv, CachedInv, NEW r \in Request, Finish(r)
  PROVE  AloneInv' /\ CachedInv'
<1>1. TypeOK /\ OneUpload
  BY DEF IInv
<1>2. /\ pc[r] = "writing" /\ part # None
      /\ UNCHANGED <<want, from, fd, offset, alone, content, asset>>
      /\ \A q \in Request : q # r => pc'[q] = pc[q]
      /\ pc'[r] # "writing"
  BY <1>1 DEF Finish, Complete, TypeOK
<1>3. AloneInv'
  BY <1>2 DEF AloneInv
<1>4. CachedInv'
  <2> SUFFICES ASSUME ~Republished, AllAlone
               PROVE  binary' # None
    BY <1>2 DEF CachedInv, AllAlone, Republished
  <2>1. Matches(content[part], from[r]) /\ from[r] = want[r]
    BY <1>1, <1>2, AloneFinds DEF Finish, AllAlone, OneUpload
  <2> QED
    BY <1>2, <2>1 DEF Finish, Verified
<1> QED
  BY <1>3, <1>4

(* Steps that open, write and replace no file while the process lives.     *)
LEMMA OtherAlone ==
  ASSUME IInv, AloneInv, CachedInv,
         \/ \E r \in Request : Check(r) \/ FinishFails(r) \/ DownloadFails(r) \/ Stage(r)
         \/ \E a \in {"binary", "sha256"} : Republish(a)
         \/ UNCHANGED vars
  PROVE  AloneInv' /\ CachedInv'
<1>1. TypeOK
  BY DEF IInv
<1>2. /\ UNCHANGED <<from, fd, offset, alone, files, torn>>
      /\ \A q \in Request : /\ pc'[q] = "writing" => pc[q] = "writing"
                            /\ pc'[q] \in {"cached", "staged"} =>
                                 pc[q] \in {"cached", "staged"} \/ binary # None
  BY <1>1 DEF Check, FinishFails, DownloadFails, Stage, Republish, request, vars, TypeOK
<1>3. Republished => Republished'
  BY <1>1, BoundsAssumption
     DEF Check, FinishFails, DownloadFails, Stage, Republish, vars, TypeOK, Republished, Upload
<1>4. AloneInv'
  BY <1>2 DEF AloneInv, files
<1>5. CachedInv'
  BY <1>2, <1>3 DEF CachedInv, AllAlone, files
<1> QED
  BY <1>4, <1>5

LEMMA StepAlone == ASSUME IInv, AloneInv, CachedInv, [Next]_vars PROVE AloneInv' /\ CachedInv'
<1>1. CASE Crash
  <2>1. pc \in [Request -> {"new", "missing", "writing", "cached", "staged", "failed"}]
    BY DEF IInv, TypeOK
  <2>2. \A q \in Request : pc'[q] # "writing" /\ (pc'[q] \in {"cached", "staged"} => pc[q] = "staged")
    BY <1>1, <2>1 DEF Crash, Die, Active
  <2> QED
    BY <1>1, <2>2 DEF AloneInv, CachedInv, Crash, AllAlone, Republished, files
<1>2. ASSUME NEW r \in Request, FinishTears(r) \/ CrashInFinish(r)
      PROVE  AloneInv' /\ CachedInv'
  <2>1. Tear(r) /\ torn' /\ UNCHANGED <<from, fd, offset, alone, content>>
    BY <1>2 DEF FinishTears, CrashInFinish, Tear
  <2>2. pc \in [Request -> {"new", "missing", "writing", "cached", "staged", "failed"}]
    BY DEF IInv, TypeOK
  <2>3. \A q \in Request : pc'[q] = "writing" => pc[q] = "writing" /\ q # r
    BY <1>2, <2>2 DEF FinishTears, CrashInFinish, Die, Active
  <2>4. \A q \in Request : pc'[q] = "writing" => ~alone[q]
    BY <2>1, <2>3 DEF AloneInv, Tear, Complete
  <2> QED
    BY <2>1, <2>4 DEF AloneInv, CachedInv
<1>3. CASE ~Crash /\ ~\E r \in Request : FinishTears(r) \/ CrashInFinish(r)
  BY <1>3, OpenAlone, WriteAlone, FinishAlone, OtherAlone DEF Next, Step
<1> QED
  BY <1>1, <1>2, <1>3

(* Requests, files and assets keep their shapes, and a request that writes *)
(* holds a file.                                                           *)
THEOREM TypeCorrect == Spec => []TypeOK
<1>1. IInv => TypeOK
  BY DEF IInv
<1> QED
  BY <1>1, IInvAlways, PTL

(* However many requests download at once, fail or die half-way, a         *)
(* directive's checksum is that of the binary the server hands out         *)
(* (agent_binary.cached_binary_if_present), unless a request ended between *)
(* the rename and the checksum, or downloads overlapped and the assets     *)
(* were uploaded again.                                                    *)
THEOREM ServedIsVerified == Spec => []ServedMatches
<1>1. IInv => ServedMatches
  BY DEF IInv, BinaryInv, ServedMatches, Present, AllAlone
<1> QED
  BY <1>1, IInvAlways, PTL

(* A release once staged on a host stays cached while downloads take       *)
(* turns, the assets stay as they are and no request ends between the      *)
(* rename and the checksum (agent_update.set_target).  Of downloads that   *)
(* overlap it says nothing.                                                *)
THEOREM StagedStaysCached == Spec => []StagedIsServed
<1>1. IInv /\ CachedInv => StagedIsServed
  BY DEF IInv, BinaryInv, CachedInv, StagedIsServed, Present, AllAlone, Upload, NoSidecar
<1> QED
  BY <1>1, InitIInv, StepIInv, InitAlone, StepAlone, PTL DEF Spec

(* A .part or binary that an earlier request, a failure or a crash left    *)
(* behind never makes a later download fail its check: one that overlaps   *)
(* no other and reads what was promised ends with the binary in the cache  *)
(* (agent_binary._download, ensure_cached).                                *)
THEOREM LeftoversDoNoHarm == Spec => FreshStart
<1>1. ASSUME IInv, AloneInv, NEW r \in Request, Finish(r) \/ FinishFails(r), alone[r],
             from[r] = want[r]
      PROVE  pc'[r] = "cached" /\ Present'
  <2>1. TypeOK /\ Complete(r) /\ want[r] \in Upload
    BY <1>1 DEF IInv, TypeOK, Finish, FinishFails, Complete
  <2>2. part # None /\ Verified(r)
    BY <1>1, <2>1, AloneFinds DEF Verified
  <2>3. Finish(r)
    BY <1>1, <2>2 DEF FinishFails
  <2>4. binary' = part /\ sidecar' = want[r] /\ pc' = [pc EXCEPT ![r] = "cached"]
    BY <2>2, <2>3 DEF Finish
  <2> QED
    BY <2>1, <2>2, <2>4 DEF TypeOK, Present, Upload, NoSidecar
<1>2. IInv /\ AloneInv /\ [Next]_vars =>
        [\A r \in Request :
           (Finish(r) \/ FinishFails(r)) /\ alone[r] /\ from[r] = want[r] =>
             pc'[r] = "cached" /\ Present']_vars
  BY <1>1
<1> QED
  BY <1>2, InitIInv, StepIInv, InitAlone, StepAlone, PTL DEF Spec, FreshStart
=============================================================================
