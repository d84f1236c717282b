-------------------------- MODULE DevicePushProofs --------------------------
(***************************************************************************)
(* Proofs about DevicePush, for every number of chunks, batch size, number *)
(* of retries and size of the old file.  What is on the device is Core, as *)
(* long as no size of a file that is there has been misread; that the push *)
(* keeps PushPromise, on which Deploy relies, holds beyond that moment.    *)
(***************************************************************************)
EXTENDS DevicePush, TLAPS

First(n) == [i \in 1..n |-> i]

Uploading == pc \in {"init", "initSize", "batch", "batchSize"}
Committing == pc \in {"commit", "commitLive", "commitTmp"}

(* What is on the device, and what the host may rely on at each exchange. *)
DirOK ==
    /\ DOMAIN dir \subseteq Names
    /\ "live" \in DOMAIN dir => dir["live"] \in {Old, Local}
    /\ "bak" \in DOMAIN dir => dir["bak"] \in {Old, Local}
(* The size tells whether all or nothing of the batch has been appended.   *)
SizeTells ==
    /\ Len(TmpFile) \in written..(written + BatchSize)
    /\ Len(TmpFile) = written => TmpFile = First(written)
    /\ Len(TmpFile) = written + BatchSize => TmpFile = First(written + BatchSize)
HostOK ==
    /\ written \in 0..Chunks
    /\ pc \in {"init", "initSize"} => written = 0 /\ TmpFile = <<>>
    /\ pc = "batch" => written < Chunks /\ TmpFile = First(written)
    /\ pc = "batchSize" => written < Chunks /\ SizeTells
    /\ Uploading /\ OldSize > 0 => "live" \in DOMAIN dir /\ dir["live"] = Old
    /\ Committing /\ "tmp" \in DOMAIN dir => dir["tmp"] = Local
    /\ pc = "commit" =>
         \/ "tmp" \in DOMAIN dir
         \/ Chunks = 0 /\ (OldSize > 0 => "live" \in DOMAIN dir)
    /\ pc \in {"commitLive", "commitTmp"} =>
         \/ "tmp" \in DOMAIN dir
         \/ Chunks = 0
         \/ "live" \in DOMAIN dir /\ dir["live"] = Local
    /\ pc = "commitTmp" => remoteSize = Size("live")
    /\ pc \in {"init", "initSize", "batch", "batchSize", "commit",
               "commitLive", "commitTmp", "done"}
    /\ result # "none" => pc = "done"
Whole == OldSize > 0 => \E n \in DOMAIN dir : dir[n] \in {Old, Local}
OkRight == result = "ok" => "live" \in DOMAIN dir /\ dir["live"] = Local
Core == DirOK /\ HostOK /\ Whole /\ OkRight

LEMMA FirstFacts ==
    ASSUME NEW n \in Nat
    PROVE  First(n) \in Seq(Nat) /\ Len(First(n)) = n /\ DOMAIN First(n) = 1..n
BY DEF First

LEMMA FirstEmpty == First(0) = <<>>
BY DEF First

LEMMA BatchSizeOK ==
    ASSUME written \in 0..Chunks, written < Chunks
    PROVE  BatchSize \in 1..(Chunks - written)
BY PushConstants DEF BatchSize

(* All lines of a batch are executed in order or not all of them.          *)
LEMMA ExecutedFacts ==
    ASSUME BatchSize \in Nat, NEW s \in Executed
    PROVE  /\ s \in Seq(1..BatchSize) /\ Len(s) \in 0..BatchSize /\ DOMAIN s = 1..Len(s)
           /\ Len(s) = BatchSize => \A i \in 1..BatchSize : s[i] = i
<1>1. PICK m \in 0..BatchSize : s \in [1..m -> 1..BatchSize]
  BY DEF Executed
<1>2. Len(s) = m /\ s \in Seq(1..BatchSize) /\ DOMAIN s = 1..m
  BY <1>1
<1>3. ASSUME m = BatchSize, NEW i \in 1..BatchSize PROVE s[i] = i
  <2>1. \A j \in 1..BatchSize : s[j] \in 1..BatchSize
    BY <1>1, <1>3
  <2>2. \A j, k \in 1..BatchSize : j < k => s[k] - s[j] >= k - j
    BY <1>2, <1>3 DEF Executed
  <2>3. s[i] >= i
    <3>1. 1 \in 1..BatchSize /\ s[1] >= 1
      BY <2>1
    <3>2. CASE i = 1
      BY <3>1, <3>2
    <3>3. CASE i > 1
      <4>1. s[i] - s[1] >= i - 1
        BY <2>2, <3>1, <3>3
      <4> QED  BY <2>1, <3>1, <4>1
    <3> QED  BY <3>2, <3>3
  <2>4. s[i] <= i
    <3>1. BatchSize \in 1..BatchSize /\ s[BatchSize] <= BatchSize
      BY <2>1
    <3>2. CASE i = BatchSize
      BY <3>1, <3>2
    <3>3. CASE i < BatchSize
      <4>1. s[BatchSize] - s[i] >= BatchSize - i
        BY <2>2, <3>1, <3>3
      <4> QED  BY <2>1, <3>1, <4>1
    <3> QED  BY <3>2, <3>3
  <2> QED  BY <2>1, <2>3, <2>4
<1> QED  BY <1>1, <1>2, <1>3

(* Appending what is executed of a batch to what the earlier batches wrote. *)
LEMMA AppendedFirst ==
    ASSUME written \in Nat, BatchSize \in Nat, NEW s \in Executed
    PROVE  LET f == Appended(First(written), s)
           IN  /\ Len(f) = written + Len(s)
               /\ Len(s) = 0 => f = First(written)
               /\ Len(s) = BatchSize => f = First(written + BatchSize)
<1>1. Len(First(written)) = written /\ Len(s) \in Nat
  BY FirstFacts, ExecutedFacts
<1>2. Appended(First(written), s) =
        [i \in 1..(written + Len(s)) |->
           IF i <= written THEN First(written)[i] ELSE written + s[i - written]]
  BY <1>1 DEF Appended
<1>3. \A i \in 1..written : First(written)[i] = i
  BY DEF First
<1>4. Len(Appended(First(written), s)) = written + Len(s)
  BY <1>1, <1>2
<1>5. Len(s) = 0 => Appended(First(written), s) = First(written)
  BY <1>2 DEF First
<1>6. ASSUME Len(s) = BatchSize
      PROVE  Appended(First(written), s) = First(written + BatchSize)
  <2>1. \A i \in 1..(written + BatchSize) : i > written => s[i - written] = i - written
    BY <1>6, ExecutedFacts
  <2>2. \A i \in 1..(written + BatchSize) :
          (IF i <= written THEN First(written)[i] ELSE written + s[i - written]) = i
    BY <1>3, <2>1
  <2> QED  BY <1>2, <1>6, <2>2 DEF First
<1> QED  BY <1>4, <1>5, <1>6

LEMMA LocalIsFirst == Local = First(Chunks)
BY DEF Local, First

LEMMA InitOK == Init => Core
<1> SUFFICES ASSUME Init PROVE Core
  OBVIOUS
<1>1. TmpFile = <<>> /\ DOMAIN dir \subseteq {"live"}
  BY DEF Init, TmpFile
<1>2. "live" \in DOMAIN dir => dir["live"] = Old
  BY DEF Init
<1>3. OldSize > 0 => "live" \in DOMAIN dir
  BY PushConstants DEF Init
<1>4. DirOK
  BY <1>1, <1>2, FirstEmpty, PushConstants DEF DirOK, Names
<1>5. HostOK
  BY <1>1, <1>2, <1>3, PushConstants DEF HostOK, Init, Uploading, Committing
<1> QED  BY <1>2, <1>3, <1>4, <1>5 DEF Core, Whole, OkRight, Init

-----------------------------------------------------------------------------
(* The steps of the upload. *)

OldInPlace == OldSize > 0 => "live" \in DOMAIN dir /\ dir["live"] = Old

LEMMA EndsQuietly ==
    ASSUME Core, UNCHANGED dir, Ends("failed")
    PROVE  Core'
<1>1. DirOK' /\ Whole'
  BY DEF Core, DirOK, Whole, TmpFile
<1>2. HostOK'
  BY DEF Core, HostOK, Ends, Uploading, Committing
<1>3. OkRight'
  BY DEF OkRight, Ends
<1> QED  BY <1>1, <1>2, <1>3 DEF Core

(* Only the temporary file changes. *)
LEMMA UploadDir ==
    ASSUME Core, Uploading, NEW f,
           \/ dir' = With(dir, "tmp", f)
           \/ dir' = dir /\ TmpFile = f
    PROVE  DirOK' /\ Whole' /\ OldInPlace' /\ TmpFile' = f
<1>0. OldInPlace
  BY DEF Core, HostOK, OldInPlace
<1>1. CASE dir' = dir /\ TmpFile = f
  BY <1>0, <1>1 DEF Core, DirOK, Whole, OldInPlace, TmpFile
<1>2. CASE dir' = With(dir, "tmp", f)
  <2>1. /\ DOMAIN dir' = DOMAIN dir \cup {"tmp"} /\ dir'["tmp"] = f
        /\ \A n \in DOMAIN dir : n # "tmp" => dir'[n] = dir[n]
    BY <1>2 DEF With
  <2>2. TmpFile' = f
    BY <2>1 DEF TmpFile
  <2>3. DirOK'
    BY <2>1, <2>2 DEF Core, DirOK, Names
  <2>4. OldInPlace'
    BY <1>0, <2>1 DEF OldInPlace
  <2>5. Whole'
    BY <2>4 DEF Whole, OldInPlace
  <2> QED  BY <2>2, <2>3, <2>4, <2>5
<1> QED  BY <1>1, <1>2

LEMMA NextBatchOK ==
    ASSUME Core, Uploading, NEW w \in 0..Chunks, NextBatch(w),
           DirOK', Whole', OldInPlace', TmpFile' = First(w),
           w = 0 \/ "tmp" \in DOMAIN dir'
    PROVE  Core'
<1>0. Chunks \in Nat /\ result = "none"
  BY PushConstants DEF Core, HostOK, Uploading
<1>1. written' = w /\ pc' = (IF w = Chunks THEN "commit" ELSE "batch") /\ result' = "none"
  BY <1>0 DEF NextBatch
<1>2. "tmp" \in DOMAIN dir' => dir'["tmp"] = First(w)
  BY DEF TmpFile
<1>3. CASE w = Chunks
  BY <1>0, <1>1, <1>2, <1>3, LocalIsFirst
     DEF Core, HostOK, OldInPlace, Uploading, Committing, OkRight
<1>4. CASE w # Chunks
  BY <1>0, <1>1, <1>4 DEF Core, HostOK, OldInPlace, Uploading, Committing, OkRight
<1> QED  BY <1>3, <1>4

(* Asking for the size of a batch next, or sending it again. *)
LEMMA UploadGoesOn ==
    ASSUME Core, pc \in {"batch", "batchSize"}, written' = written, result' = result,
           pc' \in {"batch", "batchSize"}, DirOK', Whole', OldInPlace',
           pc' = "batch" => TmpFile' = First(written),
           pc' = "batchSize" => SizeTells'
    PROVE  Core'
<1>1. BatchSize' = BatchSize
  BY DEF BatchSize
<1>2. result' = "none" /\ written < Chunks /\ written \in 0..Chunks
  BY DEF Core, HostOK
<1>3. HostOK'
  BY <1>1, <1>2 DEF HostOK, OldInPlace, Uploading, Committing
<1> QED  BY <1>2, <1>3 DEF Core, OkRight

LEMMA InitScriptOK == ASSUME Core, InitScript PROVE Core'
<1>0. pc = "init" /\ Uploading /\ written = 0 /\ TmpFile = First(0) /\ 0 \in 0..Chunks
      /\ result = "none"
  BY FirstEmpty, PushConstants DEF InitScript, Core, HostOK, Uploading
<1>1. dir' = With(dir, "tmp", First(0)) \/ dir' = dir
  BY FirstEmpty DEF InitScript
<1>2. DirOK' /\ Whole' /\ OldInPlace' /\ TmpFile' = First(0)
  BY <1>0, <1>1, UploadDir
<1>3. CASE NextBatch(0)
  BY <1>0, <1>2, <1>3, NextBatchOK
<1>4. CASE Goes("initSize") \/ Ends("failed")
  BY <1>0, <1>2, <1>4, FirstEmpty
     DEF Goes, Ends, Core, HostOK, OldInPlace, Uploading, Committing, OkRight
<1> QED  BY <1>3, <1>4 DEF InitScript, AfterReply

LEMMA InitSizeOK == ASSUME Core, InitSize, ~lost' PROVE Core'
<1>0. pc = "initSize" /\ Uploading /\ TmpFile = First(0) /\ 0 \in 0..Chunks /\ dir' = dir
  BY FirstEmpty, PushConstants DEF InitSize, Core, HostOK, Uploading
<1>1. DirOK' /\ Whole' /\ OldInPlace' /\ TmpFile' = First(0)
  BY <1>0, UploadDir
<1>2. NextBatch(0) \/ Ends("failed")
  BY DEF InitSize
<1> QED  BY <1>0, <1>1, <1>2, NextBatchOK, EndsQuietly

LEMMA BatchScriptOK == ASSUME Core, BatchScript PROVE Core'
<1>0. /\ pc = "batch" /\ Uploading /\ written < Chunks /\ written \in 0..Chunks
      /\ TmpFile = First(written) /\ result = "none"
  BY DEF BatchScript, Core, HostOK, Uploading
<1>1. BatchSize \in 1..(Chunks - written) /\ Chunks \in Nat
  BY <1>0, BatchSizeOK, PushConstants
<1>2. PICK r \in Replies, s \in Executed, opened \in BOOLEAN :
        /\ Len(s) > 0 => opened
        /\ r = "echo" => Len(s) = BatchSize
        /\ dir' = IF opened THEN With(dir, "tmp", Appended(TmpFile, s)) ELSE dir
        /\ AfterReply(r, NextBatch(written + BatchSize), "batchSize")
  BY DEF BatchScript
<1>3. Len(s) \in 0..BatchSize /\ written \in Nat /\ BatchSize \in Nat
  BY <1>0, <1>1, ExecutedFacts
<1>4. PICK f : f = Appended(First(written), s)
  OBVIOUS
<1>5. /\ Len(f) = written + Len(s) /\ (Len(s) = 0 => f = First(written))
      /\ Len(s) = BatchSize => f = First(written + BatchSize)
  BY <1>3, <1>4, AppendedFirst
<1>6. \/ dir' = With(dir, "tmp", f)
      \/ dir' = dir /\ TmpFile = f
  <2>1. CASE opened
    BY <1>0, <1>2, <1>4, <2>1
  <2>2. CASE ~opened
    <3>1. Len(s) = 0
      BY <1>2, <1>3, <2>2
    <3> QED  BY <1>0, <1>2, <1>5, <2>2, <3>1
  <2> QED  BY <2>1, <2>2
<1>7. DirOK' /\ Whole' /\ OldInPlace' /\ TmpFile' = f
  BY <1>0, <1>6, UploadDir
<1>8. CASE r = "echo" /\ NextBatch(written + BatchSize)
  <2>1. opened /\ f = First(written + BatchSize)
    BY <1>1, <1>2, <1>5, <1>8
  <2>2. "tmp" \in DOMAIN dir'
    BY <1>2, <2>1 DEF With
  <2>3. written + BatchSize \in 0..Chunks
    BY <1>0, <1>1
  <2> QED  BY <1>0, <1>7, <1>8, <2>1, <2>2, <2>3, NextBatchOK
<1>9. CASE Goes("batchSize")
  <2>1. written' = written /\ result' = result /\ pc' = "batchSize"
    BY <1>9 DEF Goes
  <2>2. BatchSize' = BatchSize
    BY <2>1 DEF BatchSize
  <2>3. SizeTells'
    BY <1>1, <1>3, <1>5, <1>7, <2>1, <2>2 DEF SizeTells
  <2> QED  BY <1>0, <1>7, <2>1, <2>3, UploadGoesOn
<1>10. CASE Ends("failed")
  BY <1>0, <1>7, <1>10
     DEF Ends, Core, HostOK, OldInPlace, Uploading, Committing, OkRight
<1> QED  BY <1>2, <1>8, <1>9, <1>10 DEF AfterReply

LEMMA CheckBatchOK == ASSUME Core, CheckBatch, ~lost' PROVE Core'
<1>0. /\ pc = "batchSize" /\ Uploading /\ written < Chunks /\ written \in 0..Chunks
      /\ dir' = dir /\ result = "none"
  BY DEF CheckBatch, Core, HostOK, Uploading
<1>1. BatchSize \in 1..(Chunks - written) /\ Chunks \in Nat
  BY <1>0, BatchSizeOK, PushConstants
<1>2. SizeTells
  BY <1>0 DEF Core, HostOK
<1>3. written \in Nat /\ Len(TmpFile) \in Nat /\ Len(TmpFile) >= written
  BY <1>0, <1>1, <1>2 DEF SizeTells
<1>6. DirOK' /\ Whole' /\ OldInPlace' /\ TmpFile' = TmpFile
  BY <1>0, UploadDir
<1>7. JudgeBatch(Size("tmp"))
  BY DEF CheckBatch, Heard
<1>8. Size("tmp") = IF "tmp" \in DOMAIN dir THEN Len(TmpFile) ELSE -1
  BY DEF Size, TmpFile
<1>9. "tmp" \notin DOMAIN dir => Len(TmpFile) = 0
  BY DEF TmpFile
<1>10. CASE NextBatch(written + BatchSize) /\ Size("tmp") = written + BatchSize
  <2>1. Len(TmpFile) = written + BatchSize /\ "tmp" \in DOMAIN dir'
    BY <1>0, <1>1, <1>3, <1>8, <1>10
  <2>2. TmpFile' = First(written + BatchSize) /\ written + BatchSize \in 0..Chunks
    BY <1>0, <1>1, <1>2, <1>6, <2>1 DEF SizeTells
  <2> QED  BY <1>0, <1>6, <1>10, <2>1, <2>2, NextBatchOK
<1>11. CASE /\ Size("tmp") \in {-1, written} /\ attempt' = attempt + 1 /\ pc' = "batch"
            /\ UNCHANGED <<written, remoteSize, result>>
  <2>1. Len(TmpFile) = written
    BY <1>0, <1>3, <1>8, <1>9, <1>11
  <2>2. TmpFile' = First(written)
    BY <1>2, <1>6, <2>1 DEF SizeTells
  <2> QED  BY <1>0, <1>6, <1>11, <2>2, UploadGoesOn
<1>12. CASE Ends("failed")
  BY <1>0, <1>12, EndsQuietly
<1> QED  BY <1>7, <1>10, <1>11, <1>12 DEF JudgeBatch

-----------------------------------------------------------------------------
(* The steps of the commit. *)

LEMMA DroppedFacts ==
    ASSUME NEW d
    PROVE  /\ DOMAIN BackupDropped(d) = DOMAIN d \ {"bak"}
           /\ \A n \in DOMAIN d : n # "bak" => BackupDropped(d)[n] = d[n]
BY DEF BackupDropped, Without

(* What a directory may hold while a commit runs; Good(f) are the whole files. *)
Good(d) == /\ DOMAIN d \subseteq Names
           /\ "live" \in DOMAIN d => d["live"] \in {Old, Local}
           /\ "bak" \in DOMAIN d => d["bak"] \in {Old, Local}
           /\ "tmp" \in DOMAIN d => d["tmp"] = Local
Kept(d) == OldSize > 0 => DOMAIN d # {}
Told(d) == \/ "tmp" \in DOMAIN d
           \/ Chunks = 0
           \/ "live" \in DOMAIN d /\ d["live"] = Local

LEMMA CommitKeeps ==
    ASSUME Core, pc = "commit", NEW works \in BOOLEAN,
           NEW e \in CommitSteps(works).stages \cup {CommitSteps(works).last}
    PROVE  /\ Good(e) /\ Kept(e) /\ Told(e)
           /\ CommitSteps(works).ok /\ e = CommitSteps(works).last =>
                "live" \in DOMAIN e /\ e["live"] = Local
<1> DEFINE d1 == BackupDropped(dir)
           d2 == LiveSetAside(d1)
           renamed == works /\ "tmp" \in DOMAIN d2
           d3 == IF renamed THEN Moved(d2, "tmp", "live") ELSE Restored(d2)
           last == IF renamed THEN BackupDropped(d3) ELSE d3
<1>0. /\ Good(dir) /\ Kept(dir) /\ Told(dir)
      /\ \/ "tmp" \in DOMAIN dir
         \/ Chunks = 0 /\ (OldSize > 0 => "live" \in DOMAIN dir)
  BY DEF Core, DirOK, HostOK, Whole, Good, Kept, Told, Committing
<1>1. /\ Good(d1) /\ Kept(d1) /\ Told(d1) /\ "bak" \notin DOMAIN d1
      /\ \/ "tmp" \in DOMAIN d1
         \/ Chunks = 0 /\ (OldSize > 0 => "live" \in DOMAIN d1)
  <2>1. /\ DOMAIN d1 = DOMAIN dir \ {"bak"}
        /\ \A n \in DOMAIN dir : n # "bak" => d1[n] = dir[n]
    BY DroppedFacts
  <2> HIDE DEF d1
  <2>2. "tmp" \in DOMAIN dir => "tmp" \in DOMAIN d1 /\ d1["tmp"] = dir["tmp"]
    BY <2>1
  <2>3. "live" \in DOMAIN dir => "live" \in DOMAIN d1 /\ d1["live"] = dir["live"]
    BY <2>1
  <2>4. Good(d1)
    BY <1>0, <2>1, <2>2, <2>3 DEF Good, Names
  <2> QED  BY <1>0, <2>1, <2>2, <2>3, <2>4 DEF Kept, Told
<1>2. /\ Good(d2) /\ Kept(d2) /\ Told(d2) /\ "live" \notin DOMAIN d2
      /\ "tmp" \in DOMAIN d2 \/ Chunks = 0
  <2> HIDE DEF d1
  <2>1. CASE "live" \in DOMAIN d1
    <3>1. d2 = Moved(d1, "live", "bak")
      BY <2>1 DEF LiveSetAside
    <3> HIDE DEF d2
    <3>2. /\ DOMAIN d2 = (DOMAIN d1 \cup {"bak"}) \ {"live"}
          /\ d2["bak"] = d1["live"]
          /\ \A n \in DOMAIN d1 : n # "live" /\ n # "bak" => d2[n] = d1[n]
      BY <2>1, <3>1 DEF Moved, With, Without
    <3>3. "live" \notin DOMAIN d2 /\ "bak" \in DOMAIN d2
      BY <3>2
    <3>4. "tmp" \in DOMAIN d2 <=> "tmp" \in DOMAIN d1
      BY <3>2
    <3>5. "tmp" \in DOMAIN d2 => d2["tmp"] = d1["tmp"]
      BY <3>2
    <3>6. "tmp" \in DOMAIN d2 \/ Chunks = 0
      BY <1>1, <3>4
    <3>7. Good(d2)
      BY <1>1, <2>1, <3>2, <3>3, <3>4, <3>5 DEF Good, Names
    <3> QED  BY <3>3, <3>6, <3>7 DEF Kept, Told
  <2>2. CASE "live" \notin DOMAIN d1
    BY <1>1, <2>2 DEF Good, Kept, Told, LiveSetAside, Names
  <2> QED  BY <2>1, <2>2
<1>3. /\ Good(d3) /\ Kept(d3) /\ Told(d3)
      /\ renamed => "live" \in DOMAIN d3 /\ d3["live"] = Local
  <2> HIDE DEF d2
  <2>1. CASE renamed
    <3>1. d3 = Moved(d2, "tmp", "live") /\ "tmp" \in DOMAIN d2
      BY <2>1
    <3> HIDE DEF d3
    <3>2. /\ DOMAIN d3 = (DOMAIN d2 \cup {"live"}) \ {"tmp"}
          /\ d3["live"] = d2["tmp"]
          /\ \A n \in DOMAIN d2 : n # "tmp" /\ n # "live" => d3[n] = d2[n]
      BY <3>1 DEF Moved, With, Without
    <3>3. "live" \in DOMAIN d3 /\ "tmp" \notin DOMAIN d3 /\ d3["live"] = Local
      BY <1>2, <3>1, <3>2 DEF Good
    <3>4. "bak" \in DOMAIN d3 => d3["bak"] \in {Old, Local}
      BY <1>2, <3>2 DEF Good
    <3>5. Good(d3)
      BY <1>2, <3>2, <3>3, <3>4 DEF Good, Names
    <3> QED  BY <3>3, <3>5 DEF Kept, Told
  <2>2. CASE ~renamed /\ "bak" \in DOMAIN d2
    <3>1. d3 = Moved(d2, "bak", "live")
      BY <1>2, <2>2 DEF Restored
    <3> HIDE DEF d3
    <3>2. /\ DOMAIN d3 = (DOMAIN d2 \cup {"live"}) \ {"bak"}
          /\ d3["live"] = d2["bak"]
          /\ \A n \in DOMAIN d2 : n # "bak" /\ n # "live" => d3[n] = d2[n]
      BY <2>2, <3>1 DEF Moved, With, Without
    <3>3. /\ "live" \in DOMAIN d3 /\ "bak" \notin DOMAIN d3
          /\ d3["live"] \in {Old, Local}
      BY <1>2, <2>2, <3>2 DEF Good
    <3>4. /\ "tmp" \in DOMAIN d3 <=> "tmp" \in DOMAIN d2
          /\ "tmp" \in DOMAIN d3 => d3["tmp"] = d2["tmp"]
      BY <3>2
    <3>5. Good(d3)
      BY <1>2, <3>2, <3>3, <3>4 DEF Good, Names
    <3> QED  BY <1>2, <2>2, <3>3, <3>4, <3>5 DEF Kept, Told
  <2>3. CASE ~renamed /\ "bak" \notin DOMAIN d2
    BY <1>2, <2>3 DEF Restored
  <2> QED  BY <2>1, <2>2, <2>3
<1>4. /\ Good(last) /\ Kept(last) /\ Told(last)
      /\ renamed => "live" \in DOMAIN last /\ last["live"] = Local
  <2> HIDE DEF d3, renamed
  <2>1. CASE ~renamed
    BY <1>3, <2>1
  <2>2. CASE renamed
    <3>1. last = BackupDropped(d3)
      BY <2>2
    <3> HIDE DEF last
    <3>2. /\ DOMAIN last = DOMAIN d3 \ {"bak"}
          /\ \A n \in DOMAIN d3 : n # "bak" => last[n] = d3[n]
      BY <3>1 DEF BackupDropped, Without
    <3>3. "live" \in DOMAIN last /\ last["live"] = Local
      BY <1>3, <2>2, <3>2
    <3>4. Good(last)
      BY <1>3, <3>2, <3>3 DEF Good
    <3> QED  BY <3>3, <3>4 DEF Kept, Told
  <2> QED  BY <2>1, <2>2
<1>5. CommitSteps(works) = [stages |-> {dir, d1, d2, d3}, last |-> last, ok |-> renamed]
  BY DEF CommitSteps
<1> HIDE DEF d1, d2, d3, last, renamed
<1> QED  BY <1>0, <1>1, <1>2, <1>3, <1>4, <1>5

LEMMA CommitScriptOK == ASSUME Core, CommitScript PROVE Core'
<1>0. pc = "commit" /\ written \in 0..Chunks /\ Chunks \in Nat /\ result = "none"
  BY PushConstants DEF CommitScript, Core, HostOK
<1>1. PICK r \in Replies, works \in BOOLEAN :
        /\ dir' \in CommitSteps(works).stages \cup {CommitSteps(works).last}
        /\ r = "echo" => CommitSteps(works).ok /\ dir' = CommitSteps(works).last
        /\ AfterReply(r, IF Len(dir'["live"]) = Chunks THEN Ends("ok")
                                                      ELSE Goes("commitLive"),
                      "commitLive")
  BY DEF CommitScript
<1>2. /\ Good(dir') /\ Kept(dir') /\ Told(dir')
      /\ r = "echo" => "live" \in DOMAIN dir' /\ dir'["live"] = Local
  BY <1>0, <1>1, CommitKeeps
<1>3. Whole'
  BY <1>2 DEF Good, Kept, Whole, Names
<1>4. DirOK'
  BY <1>2 DEF Good, DirOK
<1>5. CASE r = "echo" /\ Ends("ok")
  BY <1>0, <1>2, <1>3, <1>4, <1>5
     DEF Ends, Core, HostOK, Uploading, Committing, OkRight
<1>6. CASE Ends("failed")
  BY <1>0, <1>3, <1>4, <1>6 DEF Ends, Core, HostOK, Uploading, Committing, OkRight
<1>7. CASE Goes("commitLive")
  BY <1>0, <1>2, <1>3, <1>4, <1>7
     DEF Goes, Good, Told, Core, HostOK, Uploading, Committing, OkRight
<1> QED  BY <1>1, <1>5, <1>6, <1>7 DEF AfterReply

(* A step that looks but does not touch, while the commit is judged. *)
LEMMA Unmoved ==
    ASSUME Core, UNCHANGED dir
    PROVE  DirOK' /\ Whole' /\ (TmpFile' = TmpFile)
BY DEF Core, DirOK, Whole, TmpFile

LEMMA CommitLiveOK == ASSUME Core, CommitLive, ~lost' PROVE Core'
<1>1. /\ pc = "commitLive" /\ pc' = "commitTmp" /\ dir' = dir
      /\ written' = written /\ result' = result /\ remoteSize' = Size("live")
  BY DEF CommitLive, Heard
<1>2. Size("live")' = Size("live")
  BY <1>1 DEF Size
<1> QED  BY <1>1, <1>2, Unmoved DEF Core, HostOK, Uploading, Committing, OkRight

LEMMA CommitTmpOK == ASSUME Core, CommitTmp, ~lost' PROVE Core'
<1>0. pc = "commitTmp" /\ dir' = dir /\ remoteSize = Size("live") /\ result = "none"
  BY DEF CommitTmp, Core, HostOK
<1>1. PICK s \in Answers("tmp") : s = Size("tmp") /\
        \/ CommitDone(s) /\ Ends("ok")
        \/ /\ CommitAgain(s)
           /\ attempt' = attempt + 1 /\ pc' = "commit"
           /\ UNCHANGED <<written, remoteSize, result>>
        \/ Ends("failed")
  BY DEF CommitTmp, Heard
<1>2. CASE CommitDone(s) /\ Ends("ok")
  <2>1. Size("tmp") = -1 /\ Size("live") = Chunks /\ Chunks \in Nat
    BY <1>0, <1>1, <1>2, PushConstants DEF CommitDone
  <2>2. "tmp" \notin DOMAIN dir
    <3> SUFFICES ASSUME "tmp" \in DOMAIN dir PROVE FALSE
      OBVIOUS
    <3>1. Len(dir["tmp"]) = Chunks
      BY <1>0, <2>1, FirstFacts, LocalIsFirst DEF Core, HostOK, Committing
    <3> QED  BY <2>1, <3>1 DEF Size
  <2>3. "live" \in DOMAIN dir /\ dir["live"] \in {Old, Local} /\ Len(dir["live"]) = Chunks
    BY <2>1 DEF Size, Core, DirOK
  <2>4. dir["live"] = Local
    <3>1. CASE Chunks = 0
      BY <2>3, <3>1, PushConstants DEF Old, Local
    <3>2. CASE Chunks # 0
      BY <1>0, <2>2, <3>2 DEF Core, HostOK
    <3> QED  BY <3>1, <3>2
  <2> QED  BY <1>0, <1>2, <2>3, <2>4, Unmoved
           DEF Ends, Core, HostOK, Uploading, Committing, OkRight
<1>3. CASE /\ CommitAgain(s) /\ attempt' = attempt + 1 /\ pc' = "commit"
           /\ UNCHANGED <<written, remoteSize, result>>
  <2>1. "tmp" \in DOMAIN dir
    BY <1>1, <1>3, PushConstants DEF CommitAgain, Size
  <2> QED  BY <1>0, <1>3, <2>1, Unmoved
           DEF Core, HostOK, Uploading, Committing, OkRight
<1>4. CASE Ends("failed")
  BY <1>0, <1>4, EndsQuietly
<1> QED  BY <1>1, <1>2, <1>3, <1>4

-----------------------------------------------------------------------------
(* As long as nothing was misread, Core holds. *)
Inv == lost \in BOOLEAN /\ (~lost => Core)

LEMMA StepOK == ASSUME Inv, [Next]_vars PROVE Inv'
<1>1. CASE UNCHANGED vars
  BY <1>1 DEF vars, Inv, Core, DirOK, HostOK, SizeTells, Whole, OkRight, TmpFile, BatchSize,
              Size, Uploading, Committing
<1>2. CASE Next
  <2>1. lost' \in BOOLEAN /\ (~lost' => ~lost)
    BY <1>2 DEF Inv, Next, InitScript, InitSize, BatchScript, CheckBatch,
                CommitScript, CommitLive, CommitTmp, QueryRaises, Heard
  <2>2. ASSUME ~lost' PROVE Core'
    <3>1. Core
      BY <2>1, <2>2 DEF Inv
    <3>2. CASE QueryRaises
      BY <3>1, <3>2, EndsQuietly DEF QueryRaises
    <3> QED  BY <1>2, <2>2, <3>1, <3>2, InitScriptOK, InitSizeOK, BatchScriptOK,
                CheckBatchOK, CommitScriptOK, CommitLiveOK, CommitTmpOK DEF Next
  <2> QED  BY <2>1, <2>2 DEF Inv
<1> QED  BY <1>1, <1>2

LEMMA InvHolds == Spec => []Inv
<1>1. Init => Inv
  BY InitOK DEF Inv, Init
<1> QED  BY <1>1, StepOK, PTL DEF Spec

(* Whatever exchanges fail, the live name shows the old file or the new    *)
(* one, never a part of a file.                                            *)
THEOREM NeverTorn == Spec => []LiveNeverTorn
<1>1. Inv => LiveNeverTorn
  BY DEF Inv, Core, DirOK, LiveNeverTorn
<1> QED  BY <1>1, InvHolds, PTL

(* At every moment a whole file is left on the device to recover from.     *)
THEOREM AlwaysRecoverable == Spec => []SomethingWhole
<1>1. Inv => SomethingWhole
  BY DEF Inv, Core, Whole, SomethingWhole
<1> QED  BY <1>1, InvHolds, PTL

(* A push that reports ok has replaced the file.                           *)
THEOREM ReportsRight == Spec => []OkMeansNew
<1>1. Inv => OkMeansNew
  BY DEF Inv, Core, OkRight, OkMeansNew
<1> QED  BY <1>1, InvHolds, PTL

-----------------------------------------------------------------------------
(***************************************************************************)
(* The promise to whoever calls a push.  While no size was lost, Core says *)
(* what is on the device.  Afterwards the files may hold any pieces; what  *)
(* still holds then is Loose: the backup is the old file, and a live file  *)
(* is the old one, of which there is no backup then, or what was the       *)
(* temporary file before.                                                  *)
(***************************************************************************)
Pieces == 1..Chunks
OldLive(d) == OldSize > 0 /\ d["live"] = Old /\ "bak" \notin DOMAIN d
NewLive(d) == /\ "tmp" \notin DOMAIN d /\ d["live"] \in Seq(Pieces)
              /\ d["live"] = <<>> => Chunks = 0
Shaped(d) ==
    /\ DOMAIN d \subseteq Names
    /\ "bak" \in DOMAIN d => OldSize > 0 /\ d["bak"] = Old
    /\ "live" \in DOMAIN d => OldLive(d) \/ NewLive(d)
    /\ "tmp" \in DOMAIN d => d["tmp"] \in Seq(Pieces)
Untouched == "live" \in DOMAIN dir => OldLive(dir)
Filled == Chunks > 0 => "tmp" \in DOMAIN dir /\ dir["tmp"] # <<>>
Loose ==
    /\ Shaped(dir)
    /\ written \in 0..Chunks
    /\ pc \in {"batch", "batchSize"} => written < Chunks
    /\ Uploading \/ pc = "commit" => Untouched
    /\ pc = "commit" => Filled
    /\ pc = "commitTmp" /\ remoteSize # -1 => "live" \in DOMAIN dir
    /\ result = "ok" => pc = "done" /\ "live" \in DOMAIN dir
    /\ pc = "done" => result \in {"ok", "failed"}
    /\ pc # "done" => result = "none"
Counts ==
    /\ attempt \in Nat /\ remoteSize \in Nat \cup {-1}
    /\ pc \in {"init", "initSize", "batch", "batchSize", "commit",
               "commitLive", "commitTmp", "done"}

LEMMA InitLoose == Init => Loose
<1> SUFFICES ASSUME Init PROVE Loose
  OBVIOUS
<1>1. DOMAIN dir = IF OldSize = 0 THEN {} ELSE {"live"}
  BY DEF Init
<1>2. "live" \in DOMAIN dir => OldLive(dir)
  BY <1>1, PushConstants DEF Init, OldLive
<1>3. Shaped(dir)
  BY <1>1, <1>2 DEF Shaped, Names
<1> QED
  BY <1>2, <1>3, PushConstants DEF Init, Loose, Untouched, Uploading

LEMMA EndsLoose ==
    ASSUME Loose, dir' = dir, Ends("failed") PROVE Loose'
BY DEF Loose, Ends, Untouched, Uploading

(* The temporary file changes, and nothing else.                           *)
LEMMA WithTmp ==
    ASSUME Shaped(dir), Untouched, NEW f \in Seq(Pieces), dir' = With(dir, "tmp", f)
    PROVE  /\ Shaped(dir') /\ Untouched'
           /\ "tmp" \in DOMAIN dir' /\ dir'["tmp"] = f
<1>1. /\ DOMAIN dir' = DOMAIN dir \cup {"tmp"} /\ dir'["tmp"] = f
      /\ \A n \in DOMAIN dir : n # "tmp" => dir'[n] = dir[n]
  BY DEF With
<1>2. "live" \in DOMAIN dir' => "live" \in DOMAIN dir /\ dir'["live"] = dir["live"]
  BY <1>1
<1>3. "bak" \in DOMAIN dir' => "bak" \in DOMAIN dir /\ dir'["bak"] = dir["bak"]
  BY <1>1
<1>4. Untouched'
  BY <1>2, <1>3 DEF Untouched, OldLive
<1>5. Shaped(dir')
  BY <1>1, <1>2, <1>3, <1>4 DEF Shaped, Names, Untouched
<1> QED
  BY <1>1, <1>4, <1>5

LEMMA NextBatchLoose ==
    ASSUME Shaped(dir)', Untouched', NEW w \in 0..Chunks, NextBatch(w), result = "none",
           w > 0 => Len(dir'["tmp"]) > 0 /\ "tmp" \in DOMAIN dir'
    PROVE  Loose'
<1>1. written' = w /\ result' = "none" /\ pc' = IF w = Chunks THEN "commit" ELSE "batch"
  BY DEF NextBatch
<1>2. w > 0 => dir'["tmp"] # <<>>
  OBVIOUS
<1>3. pc' = "commit" => Filled'
  BY <1>1, <1>2, PushConstants DEF Filled
<1> QED
  BY <1>1, <1>3, PushConstants DEF Loose

LEMMA InitScriptLoose == ASSUME Loose, InitScript PROVE Loose'
<1>1. pc = "init" /\ Shaped(dir) /\ Untouched /\ result = "none"
  BY DEF InitScript, Loose, Uploading
<1>2. dir' = With(dir, "tmp", <<>>) \/ dir' = dir
  BY DEF InitScript
<1>3. Shaped(dir)' /\ Untouched'
  <2>1. CASE dir' = dir
    BY <1>1, <2>1 DEF Untouched
  <2>2. CASE dir' = With(dir, "tmp", <<>>)
    <3>1. <<>> \in Seq(Pieces)
      OBVIOUS
    <3> QED
      BY <1>1, <2>2, <3>1, WithTmp
  <2> QED
    BY <1>2, <2>1, <2>2
<1>4. CASE NextBatch(0)
  BY <1>1, <1>3, <1>4, NextBatchLoose, PushConstants
<1>5. CASE Goes("initSize")
  BY <1>1, <1>3, <1>5 DEF Goes, Loose
<1>6. CASE Ends("failed")
  BY <1>1, <1>3, <1>6 DEF Ends, Loose, Uploading
<1> QED
  BY <1>4, <1>5, <1>6 DEF InitScript, AfterReply

LEMMA InitSizeLoose == ASSUME Loose, InitSize PROVE Loose'
<1>1. dir' = dir /\ Shaped(dir)' /\ Untouched' /\ result = "none"
  BY DEF InitSize, Loose, Uploading, Untouched
<1>2. CASE NextBatch(0)
  BY <1>1, <1>2, NextBatchLoose, PushConstants
<1>3. CASE Ends("failed")
  BY <1>1, <1>3, EndsLoose
<1> QED
  BY <1>2, <1>3 DEF InitSize

LEMMA AppendedTyped ==
    ASSUME NEW f \in Seq(Pieces), BatchSize \in Nat, NEW s \in Executed,
           written \in Nat, written + BatchSize <= Chunks
    PROVE  /\ Appended(f, s) \in Seq(Pieces) /\ Len(Appended(f, s)) = Len(f) + Len(s)
           /\ Len(s) \in 0..BatchSize
<1>1. Len(f) \in Nat /\ \A i \in 1..Len(f) : f[i] \in Pieces
  OBVIOUS
<1>2. s \in Seq(1..BatchSize) /\ Len(s) \in 0..BatchSize
  BY ExecutedFacts
<1>3. \A i \in 1..(Len(f) + Len(s)) : i > Len(f) => s[i - Len(f)] \in 1..BatchSize
  BY <1>1, <1>2
<1>4. \A i \in 1..(Len(f) + Len(s)) :
        (IF i <= Len(f) THEN f[i] ELSE written + s[i - Len(f)]) \in Pieces
  BY <1>1, <1>3, PushConstants DEF Pieces
<1>5. Len(f) + Len(s) \in Nat
  BY <1>1, <1>2
<1> QED
  BY <1>2, <1>4, <1>5 DEF Appended

LEMMA BatchScriptLoose == ASSUME Loose, BatchScript PROVE Loose'
<1>1. /\ pc = "batch" /\ Shaped(dir) /\ Untouched /\ result = "none"
      /\ written \in 0..Chunks /\ written < Chunks /\ written \in Nat
  BY PushConstants DEF BatchScript, Loose, Uploading
<1>2. BatchSize \in 1..(Chunks - written) /\ Chunks \in Nat
  BY <1>1, BatchSizeOK, PushConstants
<1>3. PICK r \in Replies, s \in Executed, opened \in BOOLEAN :
        /\ Len(s) > 0 => opened
        /\ r = "echo" => Len(s) = BatchSize
        /\ dir' = IF opened THEN With(dir, "tmp", Appended(TmpFile, s)) ELSE dir
        /\ AfterReply(r, NextBatch(written + BatchSize), "batchSize")
  BY DEF BatchScript
<1>4. BatchSize \in Nat /\ written + BatchSize <= Chunks
  BY <1>1, <1>2
<1>5. TmpFile \in Seq(Pieces)
  BY <1>1 DEF Shaped, TmpFile
<1>6. /\ Appended(TmpFile, s) \in Seq(Pieces) /\ Len(Appended(TmpFile, s)) = Len(TmpFile) + Len(s)
      /\ Len(s) \in 0..BatchSize
  BY <1>1, <1>4, <1>5, AppendedTyped
<1>7. /\ Shaped(dir)' /\ Untouched'
      /\ opened => "tmp" \in DOMAIN dir' /\ dir'["tmp"] = Appended(TmpFile, s)
  <2>1. CASE opened
    BY <1>1, <1>3, <1>6, <2>1, WithTmp
  <2>2. CASE ~opened
    BY <1>1, <1>3, <2>2 DEF Untouched
  <2> QED
    BY <2>1, <2>2
<1>8. CASE r = "echo" /\ NextBatch(written + BatchSize)
  <2>1. opened /\ Len(s) > 0 /\ written + BatchSize \in 0..Chunks
    BY <1>1, <1>2, <1>3, <1>8
  <2>2. Len(TmpFile) + Len(s) > 0
    BY <1>5, <1>6, <2>1
  <2> QED
    BY <1>1, <1>6, <1>7, <1>8, <2>1, <2>2, NextBatchLoose
<1>9. CASE Goes("batchSize")
  BY <1>1, <1>7, <1>9 DEF Goes, Loose
<1>10. CASE Ends("failed")
  BY <1>1, <1>7, <1>10 DEF Ends, Loose, Uploading
<1> QED
  BY <1>3, <1>8, <1>9, <1>10 DEF AfterReply

(* A size that is answered is that of a file, which is no shorter.         *)
LEMMA AnswersFacts ==
    ASSUME NEW n, NEW s \in Answers(n), n \in DOMAIN dir => Len(dir[n]) \in Nat
    PROVE  s # -1 => n \in DOMAIN dir /\ s \in Nat /\ s <= Len(dir[n])
BY DEF Answers, Size

LEMMA CheckBatchLoose == ASSUME Loose, CheckBatch PROVE Loose'
<1>1. /\ pc = "batchSize" /\ dir' = dir /\ Shaped(dir)' /\ Untouched' /\ result = "none"
      /\ written \in 0..Chunks /\ written < Chunks /\ written \in Nat
  BY PushConstants DEF CheckBatch, Loose, Uploading, Untouched
<1>2. BatchSize \in 1..(Chunks - written) /\ Chunks \in Nat
  BY <1>1, BatchSizeOK, PushConstants
<1>3. PICK s \in Answers("tmp") : JudgeBatch(s)
  BY DEF CheckBatch
<1>4. CASE s = written + BatchSize /\ NextBatch(written + BatchSize)
  <2>1. written + BatchSize \in 1..Chunks /\ written + BatchSize # -1
    BY <1>1, <1>2
  <2>2. "tmp" \in DOMAIN dir' /\ Len(dir'["tmp"]) > 0
    BY <1>1, <1>3, <1>4, <2>1, AnswersFacts DEF Shaped
  <2> QED
    BY <1>1, <1>4, <2>1, <2>2, NextBatchLoose
<1>5. CASE pc' = "batch" /\ UNCHANGED <<written, remoteSize, result>>
  BY <1>1, <1>5 DEF Loose
<1>6. CASE Ends("failed")
  BY <1>1, <1>6, EndsLoose
<1> QED
  BY <1>3, <1>4, <1>5, <1>6 DEF JudgeBatch

-----------------------------------------------------------------------------
(* The commit script, one step after the other.                            *)
LEMMA CommitShaped ==
    ASSUME Shaped(dir), Untouched, Filled, NEW works \in BOOLEAN,
           NEW e \in CommitSteps(works).stages \cup {CommitSteps(works).last}
    PROVE  /\ Shaped(e)
           /\ CommitSteps(works).ok /\ e = CommitSteps(works).last => "live" \in DOMAIN e
<1> DEFINE d1 == BackupDropped(dir)
           d2 == LiveSetAside(d1)
           renamed == works /\ "tmp" \in DOMAIN d2
           d3 == IF renamed THEN Moved(d2, "tmp", "live") ELSE Restored(d2)
           last == IF renamed THEN BackupDropped(d3) ELSE d3
           Holds(f) == f \in Seq(Pieces) /\ (f = <<>> => Chunks = 0)
<1>0. "tmp" \in DOMAIN dir => Holds(dir["tmp"])
  BY PushConstants DEF Shaped, Filled
<1> HIDE DEF Holds
<1>1. /\ Shaped(d1) /\ "bak" \notin DOMAIN d1
      /\ "live" \in DOMAIN d1 => OldLive(d1)
      /\ "tmp" \in DOMAIN d1 => Holds(d1["tmp"])
  <2>1. /\ DOMAIN d1 = DOMAIN dir \ {"bak"}
        /\ \A n \in DOMAIN dir : n # "bak" => d1[n] = dir[n]
    BY DroppedFacts
  <2> HIDE DEF d1
  <2>2. "tmp" \in DOMAIN d1 => "tmp" \in DOMAIN dir /\ d1["tmp"] = dir["tmp"]
    BY <2>1
  <2>3. "live" \in DOMAIN d1 => OldLive(d1)
    BY <2>1 DEF Untouched, OldLive
  <2> QED
    BY <1>0, <2>1, <2>2, <2>3 DEF Shaped, Names
<1>2. /\ Shaped(d2) /\ "live" \notin DOMAIN d2
      /\ "tmp" \in DOMAIN d2 => Holds(d2["tmp"])
  <2> HIDE DEF d1
  <2>1. CASE "live" \in DOMAIN d1
    <3>1. d2 = Moved(d1, "live", "bak")
      BY <2>1 DEF LiveSetAside
    <3> HIDE DEF d2
    <3>2. /\ DOMAIN d2 = (DOMAIN d1 \cup {"bak"}) \ {"live"}
          /\ d2["bak"] = d1["live"]
          /\ \A n \in DOMAIN d1 : n # "live" /\ n # "bak" => d2[n] = d1[n]
      BY <2>1, <3>1 DEF Moved, With, Without
    <3>3. "live" \notin DOMAIN d2 /\ OldSize > 0 /\ d2["bak"] = Old
      BY <1>1, <2>1, <3>2 DEF OldLive
    <3>4. "tmp" \in DOMAIN d2 => "tmp" \in DOMAIN d1 /\ d2["tmp"] = d1["tmp"]
      BY <3>2
    <3> QED
      BY <1>1, <3>2, <3>3, <3>4 DEF Shaped, Names
  <2>2. CASE "live" \notin DOMAIN d1
    BY <1>1, <2>2 DEF LiveSetAside
  <2> QED
    BY <2>1, <2>2
<1>3. Shaped(d3) /\ (renamed => "live" \in DOMAIN d3)
  <2> HIDE DEF d2
  <2>1. CASE renamed
    <3>1. d3 = Moved(d2, "tmp", "live") /\ "tmp" \in DOMAIN d2
      BY <2>1
    <3> HIDE DEF d3
    <3>2. /\ DOMAIN d3 = (DOMAIN d2 \cup {"live"}) \ {"tmp"}
          /\ d3["live"] = d2["tmp"]
          /\ \A n \in DOMAIN d2 : n # "tmp" /\ n # "live" => d3[n] = d2[n]
      BY <3>1 DEF Moved, With, Without
    <3>3. "live" \in DOMAIN d3 /\ "tmp" \notin DOMAIN d3 /\ NewLive(d3)
      BY <1>2, <3>1, <3>2 DEF NewLive, Holds
    <3>4. "bak" \in DOMAIN d3 => "bak" \in DOMAIN d2 /\ d3["bak"] = d2["bak"]
      BY <3>2
    <3> QED
      BY <1>2, <3>2, <3>3, <3>4 DEF Shaped, Names
  <2>2. CASE ~renamed /\ "bak" \in DOMAIN d2
    <3>1. d3 = Moved(d2, "bak", "live")
      BY <1>2, <2>2 DEF Restored
    <3> HIDE DEF d3
    <3>2. /\ DOMAIN d3 = (DOMAIN d2 \cup {"live"}) \ {"bak"}
          /\ d3["live"] = d2["bak"]
          /\ \A n \in DOMAIN d2 : n # "bak" /\ n # "live" => d3[n] = d2[n]
      BY <2>2, <3>1 DEF Moved, With, Without
    <3>3. "live" \in DOMAIN d3 /\ "bak" \notin DOMAIN d3 /\ OldLive(d3)
      BY <1>2, <2>2, <3>2 DEF OldLive, Shaped
    <3>4. "tmp" \in DOMAIN d3 => "tmp" \in DOMAIN d2 /\ d3["tmp"] = d2["tmp"]
      BY <3>2
    <3> QED
      BY <1>2, <2>2, <3>2, <3>3, <3>4 DEF Shaped, Names
  <2>3. CASE ~renamed /\ "bak" \notin DOMAIN d2
    BY <1>2, <2>3 DEF Restored
  <2> QED
    BY <2>1, <2>2, <2>3
<1>4. Shaped(last) /\ (renamed => "live" \in DOMAIN last)
  <2> HIDE DEF d3, renamed
  <2>1. CASE ~renamed
    BY <1>3, <2>1
  <2>2. CASE renamed
    <3>1. last = BackupDropped(d3)
      BY <2>2
    <3> HIDE DEF last
    <3>2. /\ DOMAIN last = DOMAIN d3 \ {"bak"}
          /\ \A n \in DOMAIN d3 : n # "bak" => last[n] = d3[n]
      BY <3>1, DroppedFacts
    <3>3. "tmp" \in DOMAIN last => "tmp" \in DOMAIN d3 /\ last["tmp"] = d3["tmp"]
      BY <3>2
    <3>4. "live" \in DOMAIN last /\ "live" \in DOMAIN d3 /\ last["live"] = d3["live"]
      BY <1>3, <2>2, <3>2
    <3>5. OldLive(last) \/ NewLive(last)
      BY <1>3, <3>2, <3>3, <3>4 DEF Shaped, OldLive, NewLive
    <3> QED
      BY <1>3, <3>2, <3>3, <3>4, <3>5 DEF Shaped, Names
  <2> QED
    BY <2>1, <2>2
<1>5. CommitSteps(works) = [stages |-> {dir, d1, d2, d3}, last |-> last, ok |-> renamed]
  BY DEF CommitSteps
<1> HIDE DEF d1, d2, d3, last, renamed
<1> QED
  BY <1>1, <1>2, <1>3, <1>4, <1>5

LEMMA CommitScriptLoose == ASSUME Loose, CommitScript PROVE Loose'
<1>1. /\ pc = "commit" /\ Shaped(dir) /\ Untouched /\ Filled /\ result = "none"
      /\ written \in 0..Chunks
  BY DEF CommitScript, Loose
<1>2. PICK r \in Replies, works \in BOOLEAN :
        /\ dir' \in CommitSteps(works).stages \cup {CommitSteps(works).last}
        /\ r = "echo" => CommitSteps(works).ok /\ dir' = CommitSteps(works).last
        /\ AfterReply(r, IF Len(dir'["live"]) = Chunks THEN Ends("ok")
                                                      ELSE Goes("commitLive"),
                      "commitLive")
  BY DEF CommitScript
<1>3. Shaped(dir)' /\ (r = "echo" => "live" \in DOMAIN dir')
  BY <1>1, <1>2, CommitShaped
<1>4. CASE r = "echo" /\ Len(dir'["live"]) = Chunks /\ Ends("ok")
  BY <1>1, <1>3, <1>4 DEF Ends, Loose, Uploading
<1>5. CASE Goes("commitLive")
  BY <1>1, <1>3, <1>5 DEF Goes, Loose, Uploading
<1>6. CASE Ends("failed")
  BY <1>1, <1>3, <1>6 DEF Ends, Loose, Uploading
<1> QED
  BY <1>2, <1>4, <1>5, <1>6 DEF AfterReply

LEMMA LiveLen ==
    ASSUME Loose PROVE "live" \in DOMAIN dir => Len(dir["live"]) \in Nat
<1>1. "live" \in DOMAIN dir => dir["live"] \in Seq(Pieces) \/ dir["live"] = Old
  BY DEF Loose, Shaped, OldLive, NewLive
<1> QED
  BY <1>1, PushConstants DEF Old

LEMMA CommitLiveLoose == ASSUME Loose, CommitLive PROVE Loose'
<1>1. /\ pc = "commitLive" /\ pc' = "commitTmp" /\ dir' = dir
      /\ written' = written /\ result' = result
  BY DEF CommitLive
<1>2. remoteSize' # -1 => "live" \in DOMAIN dir
  <2>1. remoteSize' \in Answers("live")
    BY DEF CommitLive
  <2> QED
    BY <2>1, LiveLen, AnswersFacts
<1> QED
  BY <1>1, <1>2 DEF Loose, Uploading

LEMMA CommitTmpLoose == ASSUME Loose, CommitTmp PROVE Loose'
<1>1. /\ pc = "commitTmp" /\ dir' = dir /\ Shaped(dir)' /\ result = "none"
      /\ written \in 0..Chunks /\ (remoteSize # -1 => "live" \in DOMAIN dir)
      /\ Chunks \in Nat
  BY PushConstants DEF CommitTmp, Loose
<1>2. PICK s \in Answers("tmp") :
        \/ CommitDone(s) /\ Ends("ok")
        \/ /\ CommitAgain(s) /\ pc' = "commit"
           /\ UNCHANGED <<written, remoteSize, result>>
        \/ Ends("failed")
  BY DEF CommitTmp
<1>3. CASE CommitDone(s) /\ Ends("ok")
  <2>1. "live" \in DOMAIN dir
    BY <1>1, <1>3 DEF CommitDone
  <2> QED
    BY <1>1, <1>3, <2>1 DEF Ends, Loose, Uploading
<1>4. CASE CommitAgain(s) /\ pc' = "commit" /\ UNCHANGED <<written, remoteSize, result>>
  <2>1. s = Chunks /\ Chunks # -1
    BY <1>1, <1>4 DEF CommitAgain
  <2>2. "tmp" \in DOMAIN dir /\ Len(dir["tmp"]) >= Chunks /\ dir["tmp"] \in Seq(Pieces)
    BY <1>1, <1>2, <2>1, AnswersFacts DEF Shaped
  <2>3. Untouched'
    BY <1>1, <2>2 DEF Untouched, Shaped, NewLive, OldLive
  <2>4. Filled'
    <3>1. Chunks > 0 => dir["tmp"] # <<>>
      BY <1>1, <2>2
    <3> QED
      BY <1>1, <2>2, <3>1 DEF Filled
  <2> QED
    BY <1>1, <1>4, <2>3, <2>4 DEF Loose
<1>5. CASE Ends("failed")
  BY <1>1, <1>5, EndsLoose
<1> QED
  BY <1>2, <1>3, <1>4, <1>5

LEMMA LooseStep == ASSUME Loose, [Next]_vars PROVE Loose'
<1>1. CASE UNCHANGED vars
  BY <1>1 DEF vars, Loose, Untouched, Filled, Uploading
<1>2. CASE QueryRaises
  BY <1>2, EndsLoose DEF QueryRaises
<1> QED
  BY <1>1, <1>2, InitScriptLoose, InitSizeLoose, BatchScriptLoose, CheckBatchLoose,
     CommitScriptLoose, CommitLiveLoose, CommitTmpLoose DEF Next

LEMMA LooseHolds == Spec => []Loose
BY InitLoose, LooseStep, PTL DEF Spec

LEMMA CountsStep == ASSUME Loose, Counts, [Next]_vars PROVE Counts'
<1> USE DEF Counts
<1>1. CASE InitScript \/ BatchScript \/ CommitScript
  BY <1>1 DEF InitScript, BatchScript, CommitScript, AfterReply, NextBatch, Goes, Ends
<1>2. CASE InitSize \/ QueryRaises
  BY <1>2 DEF InitSize, QueryRaises, NextBatch, Ends
<1>3. CASE CheckBatch
  BY <1>3 DEF CheckBatch, JudgeBatch, NextBatch, Ends
<1>4. CASE CommitLive
  <2>1. remoteSize' \in Answers("live")
    BY <1>4 DEF CommitLive
  <2>2. remoteSize' \in Nat \cup {-1}
    BY <2>1, LiveLen, AnswersFacts
  <2> QED
    BY <1>4, <2>2 DEF CommitLive
<1>5. CASE CommitTmp
  BY <1>5 DEF CommitTmp, Ends
<1>6. CASE UNCHANGED vars
  BY <1>6 DEF vars
<1> QED
  BY <1>1, <1>2, <1>3, <1>4, <1>5, <1>6 DEF Next

(* The files on the device hold pieces of the old and of the new file, and *)
(* nothing else, and the counters of the host keep their range.            *)
THEOREM PTyping == Spec => []PTypeOK
<1>1. Init => Counts
  BY DEF Init, Counts
<1>2. ASSUME Loose, Counts, Inv PROVE PTypeOK
  <2>1. Old \in Seq(0..Chunks) /\ Seq(Pieces) \subseteq Seq(0..Chunks)
    BY PushConstants DEF Old, Pieces
  <2>2. \A n \in DOMAIN dir : dir[n] = Old \/ dir[n] \in Seq(Pieces)
    BY <1>2 DEF Loose, Shaped, Names, OldLive, NewLive
  <2>3. DOMAIN dir \subseteq Names /\ written \in 0..Chunks /\ result \in {"none", "ok", "failed"}
    BY <1>2 DEF Loose, Shaped
  <2> QED
    BY <1>2, <2>1, <2>2, <2>3 DEF PTypeOK, Counts, Inv
<1> QED
  BY <1>1, <1>2, CountsStep, InvHolds, LooseHolds, PTL DEF Spec

-----------------------------------------------------------------------------
LEMMA OldIsOld ==
    ASSUME OldSize > 0 PROVE Old # Local /\ Old \notin Seq(Pieces)
<1>1. Len(Old) = OldSize /\ Old[1] = 0 /\ 1 \in 1..OldSize
  BY PushConstants DEF Old
<1>2. Old \notin Seq(Pieces)
  <2> SUFFICES ASSUME Old \in Seq(Pieces) PROVE FALSE
    OBVIOUS
  <2>1. Old[1] \in Pieces
    BY <1>1
  <2> QED
    BY <1>1, <2>1, PushConstants DEF Pieces
<1>3. Local \in Seq(Pieces)
  BY PushConstants DEF Local, Pieces
<1> QED
  BY <1>2, <1>3

(* What the live name and the backup hold, in the words of PushPromise.    *)
LEMMA ContentFacts ==
    ASSUME Loose
    PROVE  LET was == IF OldSize = 0 THEN "none" ELSE "old"
           IN  /\ Content("live") \in {"none", "new", "mixed", "part", was}
               /\ Content("tmp") \in {"none", "new", "part"}
               /\ Content("bak") \in {"none", was}
               /\ Content("live") = "old" => OldSize > 0 /\ dir["live"] = Old
               /\ "live" \in DOMAIN dir => Content("live") # "none"
               /\ Content("live") \notin {was, "none"} => Content("tmp") = "none"
               /\ Content("live") # "none" => Content("tmp") = "none" \/ Content("bak") = "none"
<1> DEFINE was == IF OldSize = 0 THEN "none" ELSE "old"
<1>1. Content("tmp") \in {"none", "new", "part"}
  BY DEF Content
<1>2. Content("bak") \in {"none", was}
  <2>1. CASE "bak" \notin DOMAIN dir
    BY <2>1 DEF Content
  <2>2. CASE "bak" \in DOMAIN dir
    <3>1. OldSize > 0 /\ dir["bak"] = Old /\ Old # Local
      BY <2>2, OldIsOld DEF Loose, Shaped
    <3> QED
      BY <2>2, <3>1, PushConstants DEF Content
  <2> QED
    BY <2>1, <2>2
<1>3. Content("live") = "old" => OldSize > 0 /\ dir["live"] = Old
  <2> SUFFICES ASSUME Content("live") = "old" PROVE OldSize > 0
    BY DEF Content
  <2>1. "live" \in DOMAIN dir /\ dir["live"] = Old /\ Old # Local
    BY DEF Content
  <2>2. OldSize = 0 => Old = <<>>
    BY DEF Old
  <2>3. Chunks = 0 => Local = <<>>
    BY DEF Local
  <2>4. OldLive(dir) \/ NewLive(dir)
    BY <2>1 DEF Loose, Shaped
  <2> QED
    BY <2>1, <2>2, <2>3, <2>4, PushConstants DEF OldLive, NewLive
<1>4. Content("live") \in {"none", "new", "mixed", "part", was}
  BY <1>3, PushConstants DEF Content
<1>5. "live" \in DOMAIN dir <=> Content("live") # "none"
  BY DEF Content
<1>6. "live" \in DOMAIN dir => OldLive(dir) \/ NewLive(dir)
  BY DEF Loose, Shaped
<1>7. OldLive(dir) => Content("live") \in {was, "none"} /\ Content("bak") = "none"
  BY OldIsOld, PushConstants DEF OldLive, Content
<1>8. NewLive(dir) => Content("tmp") = "none"
  BY DEF NewLive, Content
<1> QED
  BY <1>1, <1>2, <1>3, <1>4, <1>5, <1>6, <1>7, <1>8

(* A push that says ok has left the new file, or a size has been misread   *)
(* and there is a file.                                                    *)
LEMMA OkKeepsPromise ==
    ASSUME Loose, Inv, result = "ok"
    PROVE  \/ Content("live") = "new" /\ Content("tmp") = "none"
           \/ lost /\ Content("live") # "none"
<1>1. "live" \in DOMAIN dir
  BY DEF Loose
<1>2. CASE dir["live"] = Local
  <2>1. OldLive(dir) \/ NewLive(dir)
    BY <1>1 DEF Loose, Shaped
  <2>2. "tmp" \notin DOMAIN dir
    BY <1>2, <2>1, OldIsOld DEF OldLive, NewLive
  <2> QED
    BY <1>1, <1>2, <2>2 DEF Content
<1>3. CASE dir["live"] # Local
  <2>1. lost
    BY <1>3 DEF Inv, Core, OkRight
  <2> QED
    BY <1>1, <2>1, ContentFacts
<1> QED
  BY <1>2, <1>3

(* As long as no size has been misread, a whole file is left.                 *)
LEMMA WholeKeepsPromise ==
    ASSUME Loose, Inv, ~lost
    PROVE  LET was == IF OldSize = 0 THEN "none" ELSE "old"
           IN  /\ Content("live") \in {was, "new", "none"}
               /\ Content("live") = "none" => Content("bak") = was \/ Content("tmp") = "new"
<1> DEFINE was == IF OldSize = 0 THEN "none" ELSE "old"
<1>1. Content("live") \notin {"mixed", "part"}
  <2>1. "live" \in DOMAIN dir => dir["live"] \in {Old, Local}
    BY DEF Inv, Core, DirOK
  <2> QED
    BY <2>1 DEF Content
<1>2. Content("live") \in {was, "new", "none"}
  BY <1>1, ContentFacts
<1>3. ASSUME Content("live") = "none"
      PROVE  Content("bak") = was \/ Content("tmp") = "new"
  <2>1. "live" \notin DOMAIN dir
    BY <1>3, ContentFacts
  <2>2. CASE OldSize = 0
    BY <2>2, ContentFacts
  <2>3. CASE OldSize > 0
    <3>1. PICK n \in DOMAIN dir : dir[n] \in {Old, Local}
      BY <2>3 DEF Inv, Core, Whole
    <3>2. n \in {"tmp", "bak"}
      BY <2>1, <3>1 DEF Loose, Shaped, Names
    <3>3. CASE n = "bak"
      <4>1. dir["bak"] = Old /\ Old # Local /\ "bak" \in DOMAIN dir
        BY <2>3, <3>1, <3>3, OldIsOld DEF Loose, Shaped
      <4> QED
        BY <2>3, <4>1 DEF Content
    <3>4. CASE n = "tmp"
      <4>1. dir["tmp"] = Local /\ "tmp" \in DOMAIN dir
        BY <2>3, <3>1, <3>4, OldIsOld DEF Loose, Shaped
      <4> QED
        BY <4>1 DEF Content
    <3> QED
      BY <3>2, <3>3, <3>4
  <2> QED
    BY <2>2, <2>3, PushConstants
<1> QED
  BY <1>2, <1>3

(* Whatever exchanges fail, whatever sizes are misread and wherever a push is *)
(* stopped: what it has left on the device and what it has reported is one *)
(* of the outcomes that PushPromise lists, and Deploy starts from.         *)
THEOREM PushKeepsPromise == Spec => []PromiseKept
<1> DEFINE was == IF OldSize = 0 THEN "none" ELSE "old"
           s == [live |-> Content("live"), tmp |-> Content("tmp"), bak |-> Content("bak")]
<1>1. ASSUME Loose, Inv PROVE PromiseKept
  <2>1. /\ Content("live") \in {"none", was, "new", "mixed", "part"}
        /\ Content("tmp") \in {"none", "new", "part"}
        /\ Content("bak") \in {"none", was} /\ was \in {"none", "old"}
        /\ Content("live") \notin {was, "none"} => Content("tmp") = "none"
        /\ Content("live") # "none" => Content("tmp") = "none" \/ Content("bak") = "none"
    BY <1>1, ContentFacts
  <2>2. result = "ok" => \/ Content("live") = "new" /\ Content("tmp") = "none"
                         \/ lost /\ Content("live") # "none"
    BY <1>1, OkKeepsPromise
  <2>3. ~lost => /\ Content("live") \in {was, "new", "none"}
                 /\ Content("live") = "none" => Content("bak") = was \/ Content("tmp") = "new"
    BY <1>1, WholeKeepsPromise
  <2> HIDE DEF was
  <2>4. s \in [live : {"none", was, "new", "mixed", "part"}, tmp : {"none", "new", "part"},
                bak : {"none", was}]
    BY <2>1
  <2>5. s \in Leaves(was, result, lost)
    BY <2>1, <2>2, <2>3, <2>4 DEF Leaves
  <2> QED
    BY <2>5 DEF PromiseKept, was
<1> QED
  BY <1>1, InvHolds, LooseHolds, PTL

-----------------------------------------------------------------------------
\* The counters of a push: what is still to write, and the tries in progress.
Tries ==
    /\ written \in 0..Chunks /\ attempt \in Nat
    /\ pc \in {"init", "initSize", "batch", "batchSize", "commit",
               "commitLive", "commitTmp", "done"}
    /\ pc \in {"init", "initSize"} => written = 0 /\ attempt = 0
    /\ pc \in {"batch", "batchSize"} => written < Chunks /\ attempt <= Retries
    /\ pc \in {"commit", "commitLive", "commitTmp"} => attempt <= 2

\* Products, once for all.
LEMMA Products ==
    \A a, b, c \in Nat : a * c \in Nat /\ (a >= b => a * c >= b * c) /\ (a >= 1 => a * c >= c)
OBVIOUS

\* A chunk less to write is worth more than all the tries of a batch.
LEMMA ChunkCounts ==
    ASSUME NEW w \in 0..Chunks, NEW v \in 0..Chunks, v > w
    PROVE /\ PerChunk \in Nat /\ PerChunk = 2 * Retries + 2
          /\ (Chunks - w) * PerChunk \in Nat /\ (Chunks - v) * PerChunk \in Nat
          /\ (Chunks - v) * PerChunk + PerChunk <= (Chunks - w) * PerChunk
<1>1. PerChunk \in Nat /\ PerChunk = 2 * Retries + 2
  BY PushConstants DEF PerChunk
<1>2. PICK p \in Nat : p = PerChunk
  BY <1>1
<1>3. \A a, b, c \in Nat : a * c \in Nat /\ (a >= b => a * c >= b * c)
  OBVIOUS
<1>4. /\ Chunks - w \in Nat /\ Chunks - v \in Nat /\ Chunks - w - 1 \in Nat
      /\ Chunks - w - 1 >= Chunks - v
  BY PushConstants
<1>5. (Chunks - w - 1) * p >= (Chunks - v) * p
  BY <1>3, <1>4
<1>6. (Chunks - w - 1) * p = (Chunks - w) * p - p
  BY <1>4
<1>7. (Chunks - w) * p \in Nat /\ (Chunks - v) * p \in Nat
  BY <1>3, <1>4
<1> QED
  BY <1>1, <1>2, <1>5, <1>6, <1>7

\* What is left is never more than at the start, and nothing only at the end.
LEMMA LeftBounded ==
    ASSUME Tries
    PROVE LeftInRange /\ ExchangesLeft \in Int /\ (pc # "done" => ExchangesLeft > 0)
<1>1. Retries \in Nat /\ Chunks \in Nat /\ PerChunk \in Nat /\ PerChunk = 2 * Retries + 2
  BY PushConstants DEF PerChunk
<1>2. /\ written \in Nat /\ Chunks - written \in Nat /\ Chunks - written <= Chunks
      /\ attempt \in Nat
  BY <1>1 DEF Tries
<1>3. PICK m \in Nat : m = (Chunks - written) * PerChunk
  BY <1>1, <1>2, Products
<1>4. PICK n \in Nat : n = Chunks * PerChunk
  BY <1>1, Products
<1>5. m <= n
  BY <1>1, <1>2, <1>3, <1>4, Products
<1>6. CASE pc \in {"init", "initSize"}
  <2>1. attempt = 0
    BY <1>6 DEF Tries
  <2> QED
    BY <1>3, <1>4, <1>5, <1>6, <2>1 DEF LeftInRange, ExchangesLeft, UploadLeft
<1>7. CASE pc \in {"batch", "batchSize"}
  <2>1. written < Chunks /\ attempt <= Retries
    BY <1>7 DEF Tries
  <2>2. m >= PerChunk
    <3>1. Chunks - written >= 1
      BY <1>1, <1>2, <2>1
    <3> QED
      BY <1>1, <1>2, <1>3, <3>1, Products
  <2>3. 2 * attempt + 1 <= m /\ 2 * attempt \in Nat
    BY <1>1, <1>2, <2>1, <2>2
  <2>4. UploadLeft = 9 + m - 2 * attempt
    BY <1>3 DEF UploadLeft
  <2>5. ExchangesLeft \in {UploadLeft, UploadLeft - 1}
    BY <1>7 DEF ExchangesLeft
  <2> QED
    BY <1>3, <1>4, <1>5, <2>3, <2>4, <2>5 DEF LeftInRange
<1>8. CASE pc \in {"commit", "commitLive", "commitTmp", "done"}
  <2>1. pc # "done" => attempt \in 0..2
    BY <1>2, <1>8 DEF Tries
  <2> QED
    BY <1>4, <1>8, <2>1 DEF LeftInRange, ExchangesLeft, CommitLeft
<1> QED
  BY <1>6, <1>7, <1>8 DEF Tries

\* The next batch, or the commit, leaves fewer exchanges than a batch did.
LEMMA NextBatchCounts ==
    ASSUME Tries, NEW w \in 0..Chunks, NextBatch(w),
           \/ pc \in {"init", "initSize"} /\ w = 0
           \/ pc \in {"batch", "batchSize"} /\ w > written
    PROVE ExchangesLeft' < ExchangesLeft /\ Tries'
<1>1. /\ written' = w /\ attempt' = 0 /\ pc' \in {"batch", "commit"}
      /\ (pc' = "commit") <=> (w = Chunks)
  BY DEF NextBatch
<1>2. Tries'
  BY <1>1, PushConstants DEF Tries
<1>3. /\ Retries \in Nat /\ Chunks \in Nat /\ PerChunk \in Nat /\ PerChunk = 2 * Retries + 2
      /\ Chunks - w \in Nat
  BY PushConstants DEF PerChunk
<1>4. PICK m \in Nat : m = (Chunks - w) * PerChunk
  BY <1>3, Products
<1>5. ExchangesLeft' \in Int /\ ExchangesLeft' <= 9 + m
  <2>1. CASE pc' = "commit"
    BY <1>1, <1>4, <2>1 DEF ExchangesLeft, CommitLeft
  <2>2. CASE pc' = "batch"
    <3>1. UploadLeft' = 9 + m - 2 * 0
      BY <1>1, <1>4 DEF UploadLeft, PerChunk
    <3> QED
      BY <1>4, <2>2, <3>1 DEF ExchangesLeft
  <2> QED
    BY <1>1, <2>1, <2>2
<1>6. ExchangesLeft \in Int /\ ExchangesLeft > 9 + m
  <2>1. CASE pc \in {"init", "initSize"} /\ w = 0
    <3>1. written = w /\ attempt = 0
      BY <2>1 DEF Tries
    <3>2. UploadLeft = 9 + m - 2 * 0
      BY <1>4, <3>1 DEF UploadLeft
    <3> QED
      BY <1>4, <2>1, <3>2 DEF ExchangesLeft
  <2>2. CASE pc \in {"batch", "batchSize"} /\ w > written
    <3>1. attempt \in Nat /\ attempt <= Retries /\ written \in 0..Chunks
      BY <2>2 DEF Tries
    <3>2. /\ (Chunks - written) * PerChunk \in Nat
          /\ (Chunks - w) * PerChunk + PerChunk <= (Chunks - written) * PerChunk
      BY <2>2, <3>1, ChunkCounts
    <3>3. PICK n \in Nat : n = (Chunks - written) * PerChunk
      BY <3>2
    <3>4. m + PerChunk <= n
      BY <1>4, <3>2, <3>3
    <3>5. UploadLeft = 9 + n - 2 * attempt
      BY <3>3 DEF UploadLeft
    <3>6. ExchangesLeft \in {UploadLeft, UploadLeft - 1}
      BY <2>2 DEF ExchangesLeft
    <3> QED
      BY <1>3, <1>4, <3>1, <3>3, <3>4, <3>5, <3>6
  <2> QED
    BY <2>1, <2>2
<1> QED
  BY <1>2, <1>4, <1>5, <1>6

\* A push that ends has no exchange left.
LEMMA EndsCounts ==
    ASSUME Tries, pc # "done", NEW r, Ends(r)
    PROVE ExchangesLeft' < ExchangesLeft /\ Tries'
<1>1. pc' = "done" /\ UNCHANGED <<written, attempt>>
  BY DEF Ends
<1>2. Tries'
  BY <1>1 DEF Tries
<1>3. ExchangesLeft' = 0
  BY <1>1 DEF ExchangesLeft
<1> QED
  BY <1>2, <1>3, LeftBounded

\* The exchange that settles what an unsure one has done, or tries it again.
LEMMA UnsureCounts ==
    ASSUME Tries, Tries',
           \/ pc = "init" /\ pc' = "initSize" /\ UNCHANGED <<written, attempt>>
           \/ pc = "batch" /\ pc' = "batchSize" /\ UNCHANGED <<written, attempt>>
           \/ pc = "batchSize" /\ pc' = "batch" /\ written' = written /\ attempt' = attempt + 1
           \/ pc = "commit" /\ pc' = "commitLive" /\ UNCHANGED <<written, attempt>>
           \/ pc = "commitLive" /\ pc' = "commitTmp" /\ UNCHANGED <<written, attempt>>
           \/ pc = "commitTmp" /\ pc' = "commit" /\ written' = written /\ attempt' = attempt + 1
    PROVE ExchangesLeft' < ExchangesLeft
<1>1. attempt \in Nat /\ Chunks - written \in Nat /\ PerChunk \in Nat /\ PerChunk' = PerChunk
  BY PushConstants DEF Tries, PerChunk
<1>2. PICK m \in Nat : m = (Chunks - written) * PerChunk
  BY <1>1, Products
<1>3. UploadLeft = 9 + m - 2 * attempt /\ CommitLeft = 3 * (2 - attempt)
  BY <1>2 DEF UploadLeft, CommitLeft
<1>4. written' = written
  OBVIOUS
<1>5. UploadLeft' = 9 + m - 2 * attempt' /\ CommitLeft' = 3 * (2 - attempt')
  BY <1>1, <1>2, <1>4 DEF UploadLeft, CommitLeft
<1> QED
  BY <1>1, <1>2, <1>3, <1>5 DEF ExchangesLeft

LEMMA CountsDown == ASSUME Tries, Next PROVE ExchangesLeft' < ExchangesLeft /\ Tries'
<1> USE DEF Tries
<1>1. 0 \in 0..Chunks
  BY PushConstants
<1>2. CASE InitScript
  <2>1. CASE NextBatch(0)
    BY <1>1, <1>2, <2>1, NextBatchCounts DEF InitScript
  <2>2. CASE Goes("initSize")
    <3>1. Tries' /\ pc = "init" /\ pc' = "initSize" /\ UNCHANGED <<written, attempt>>
      BY <1>2, <2>2 DEF InitScript, Goes
    <3> QED
      BY <3>1, UnsureCounts
  <2>3. CASE Ends("failed")
    BY <1>2, <2>3, EndsCounts DEF InitScript
  <2> QED
    BY <1>2, <2>1, <2>2, <2>3 DEF InitScript, AfterReply
<1>3. CASE InitSize
  BY <1>1, <1>3, NextBatchCounts, EndsCounts DEF InitSize
<1>4. pc \in {"batch", "batchSize"} => written + BatchSize \in 0..Chunks /\ written + BatchSize > written
  BY PushConstants DEF BatchSize
<1>5. CASE BatchScript
  <2>1. CASE NextBatch(written + BatchSize)
    BY <1>4, <1>5, <2>1, NextBatchCounts DEF BatchScript
  <2>2. CASE Goes("batchSize")
    <3>1. Tries' /\ pc = "batch" /\ pc' = "batchSize" /\ UNCHANGED <<written, attempt>>
      BY <1>5, <2>2 DEF BatchScript, Goes
    <3> QED
      BY <3>1, UnsureCounts
  <2>3. CASE Ends("failed")
    BY <1>5, <2>3, EndsCounts DEF BatchScript
  <2> QED
    BY <1>5, <2>1, <2>2, <2>3 DEF BatchScript, AfterReply
<1>6. CASE CheckBatch
  <2>1. CASE NextBatch(written + BatchSize)
    BY <1>4, <1>6, <2>1, NextBatchCounts DEF CheckBatch
  <2>2. CASE attempt < Retries /\ attempt' = attempt + 1 /\ pc' = "batch" /\ written' = written
    <3>1. Tries' /\ pc = "batchSize"
      BY <1>6, <2>2, PushConstants DEF CheckBatch
    <3> QED
      BY <2>2, <3>1, UnsureCounts
  <2>3. CASE Ends("failed")
    BY <1>6, <2>3, EndsCounts DEF CheckBatch
  <2> QED
    BY <1>6, <2>1, <2>2, <2>3 DEF CheckBatch, JudgeBatch
<1>7. CASE CommitScript
  <2>1. pc = "commit" /\ (Goes("commitLive") \/ Ends("ok") \/ Ends("failed"))
    BY <1>7 DEF CommitScript, AfterReply
  <2>2. CASE Goes("commitLive")
    <3>1. Tries' /\ pc = "commit" /\ pc' = "commitLive" /\ UNCHANGED <<written, attempt>>
      BY <2>1, <2>2 DEF Goes
    <3> QED
      BY <3>1, UnsureCounts
  <2> QED
    BY <2>1, <2>2, EndsCounts
<1>8. CASE CommitLive
  <2>1. Tries' /\ pc = "commitLive" /\ pc' = "commitTmp" /\ UNCHANGED <<written, attempt>>
    BY <1>8 DEF CommitLive
  <2> QED
    BY <2>1, UnsureCounts
<1>9. CASE CommitTmp
  <2>1. CASE Ends("ok") \/ Ends("failed")
    BY <1>9, <2>1, EndsCounts DEF CommitTmp
  <2>2. CASE attempt < 2 /\ attempt' = attempt + 1 /\ pc' = "commit" /\ written' = written
    <3>1. Tries' /\ pc = "commitTmp"
      BY <1>9, <2>2 DEF CommitTmp
    <3> QED
      BY <2>2, <3>1, UnsureCounts
  <2> QED
    BY <1>9, <2>1, <2>2 DEF CommitTmp, CommitAgain
<1>10. CASE QueryRaises
  BY <1>10, EndsCounts DEF QueryRaises
<1> QED
  BY <1>2, <1>3, <1>5, <1>6, <1>7, <1>8, <1>9, <1>10 DEF Next

LEMMA TriesHold == Spec => []Tries
<1>1. Init => Tries
  BY PushConstants DEF Init, Tries
<1>2. Tries /\ UNCHANGED vars => Tries'
  BY DEF Tries, vars
<1> QED
  BY <1>1, <1>2, CountsDown, PTL DEF Spec

\* Every exchange uses up one of those that are left, and these are never less
\* than none or more than 11 + Chunks * (2 * Retries + 2): no retry of
\* run_push_repl is unbounded, whatever the device does and answers (413-640).
THEOREM ExchangesAreBounded == Spec => []LeftInRange /\ ExchangesCountDown
<1>1. Tries => LeftInRange
  BY LeftBounded
<1>2. Tries /\ [Next]_vars => [ExchangesLeft' < ExchangesLeft]_vars
  BY CountsDown
<1> QED
  BY <1>1, <1>2, TriesHold, PTL DEF Spec, ExchangesCountDown

-----------------------------------------------------------------------------
\* What a batch has appended, the tries in progress included.
Fits ==
    /\ pc \in {"init", "initSize"} => Len(TmpFile) = 0
    /\ pc = "batch" => Len(TmpFile) <= written * (Retries + 1) + attempt * BatchSize
    /\ pc = "batchSize" => Len(TmpFile) <= written * (Retries + 1) + (attempt + 1) * BatchSize
    /\ UploadBounded

LEMMA TmpLen == ASSUME Loose PROVE Len(TmpFile) \in Nat
BY DEF Loose, Shaped, TmpFile

\* The tries of a batch, all of them, fit into the file's share of it.
LEMMA TriesFit ==
    ASSUME Tries, pc \in {"batch", "batchSize"}, NEW n \in Nat,
           n <= written * (Retries + 1) + (attempt + 1) * BatchSize
    PROVE  /\ BatchSize \in Nat /\ written + BatchSize \in 0..Chunks
           /\ n <= (written + BatchSize) * (Retries + 1) /\ n <= Chunks * (Retries + 1)
<1>1. BatchSize \in 1..(Chunks - written) /\ written \in Nat /\ Chunks \in Nat /\ Retries \in Nat
      /\ attempt \in Nat /\ attempt <= Retries
  BY BatchSizeOK, PushConstants DEF Tries
<1>2. PICK b \in Nat, t \in Nat, w \in Nat : b = BatchSize /\ t = Retries + 1 /\ w = written
  BY <1>1
<1>3. PICK a \in Nat : a = attempt + 1 /\ a <= t
  BY <1>1, <1>2
<1>4. a * b <= t * b
  BY <1>3, Products
<1>5. w * t + t * b = (w + b) * t
  OBVIOUS
<1>6. (w + b) * t <= Chunks * t
  BY <1>1, <1>2, Products
<1>7. a * b \in Nat /\ t * b \in Nat /\ w * t \in Nat /\ (w + b) * t \in Nat /\ Chunks * t \in Nat
  BY <1>1, Products
<1>8. n <= w * t + a * b
  BY <1>2, <1>3
<1>9. n <= (w + b) * t /\ n <= Chunks * t
  BY <1>4, <1>5, <1>6, <1>7, <1>8
<1> QED
  BY <1>1, <1>2, <1>9

LEMMA NextBatchFits ==
    ASSUME Tries', NEW w \in 0..Chunks, NextBatch(w), Loose',
           Len(TmpFile') <= w * (Retries + 1), UploadBounded'
    PROVE  Fits'
<1>1. /\ written' = w /\ attempt' = 0 /\ pc' \in {"batch", "commit"} /\ w \in Nat /\ Retries \in Nat
  BY PushConstants DEF NextBatch
<1>2. w * (Retries + 1) \in Nat
  BY <1>1, Products
<1>3. CASE pc' = "commit"
  BY <1>3 DEF Fits
<1>4. CASE pc' = "batch"
  <2>1. BatchSize' \in Nat
    BY <1>1, <1>4, PushConstants DEF BatchSize, Tries
  <2>2. PICK b \in Nat : b = BatchSize'
    BY <2>1
  <2>3. PICK n \in Nat : n = w * (Retries + 1)
    BY <1>2
  <2>4. 0 * b = 0
    OBVIOUS
  <2>5. Len(TmpFile') <= n + 0 * b
    BY <2>3, <2>4
  <2>6. Len(TmpFile') <= written' * (Retries + 1) + attempt' * BatchSize'
    BY <1>1, <2>2, <2>3, <2>5
  <2> QED
    BY <1>4, <2>6 DEF Fits
<1> QED
  BY <1>1, <1>3, <1>4

LEMMA NoneFits == ASSUME Tries PROVE 0 <= Chunks * (Retries + 1) /\ 0 * (Retries + 1) = 0
<1>1. Chunks \in Nat /\ Retries + 1 \in Nat
  BY PushConstants
<1> QED
  BY <1>1, Products

LEMMA BatchScriptFits ==
    ASSUME Loose, Loose', Tries, Tries', Fits, BatchScript PROVE Fits'
<1>1. /\ pc = "batch" /\ written \in Nat /\ written < Chunks /\ written \in 0..Chunks
      /\ Chunks \in Nat /\ Retries \in Nat /\ attempt \in Nat
  BY PushConstants DEF BatchScript, Tries
<1>2. PICK r \in Replies, s \in Executed, opened \in BOOLEAN :
        /\ dir' = IF opened THEN With(dir, "tmp", Appended(TmpFile, s)) ELSE dir
        /\ AfterReply(r, NextBatch(written + BatchSize), "batchSize")
  BY DEF BatchScript
<1>3. BatchSize \in 1..(Chunks - written)
  BY <1>1, BatchSizeOK
<1>4. Len(s) \in 0..BatchSize /\ BatchSize \in Nat
  BY <1>3, ExecutedFacts
<1>5. Len(TmpFile) \in Nat /\ Len(TmpFile') \in Nat /\ Len(TmpFile') <= Len(TmpFile) + BatchSize
  <2>1. CASE opened
    <3>1. TmpFile' = Appended(TmpFile, s)
      BY <1>2, <2>1 DEF With, TmpFile
    <3> QED
      BY <1>4, <3>1, TmpLen DEF Appended
  <2>2. CASE ~opened
    <3>1. TmpFile' = TmpFile
      BY <1>2, <2>2 DEF TmpFile
    <3> QED
      BY <1>4, <3>1, TmpLen
  <2> QED
    BY <2>1, <2>2
<1>6. PICK a \in Nat, p \in Nat, q \in Nat :
        a = written * (Retries + 1) /\ p = attempt * BatchSize /\ q = (attempt + 1) * BatchSize
  BY <1>1, <1>4, Products
<1>7. q = p + BatchSize
  BY <1>1, <1>4, <1>6
<1>8. Len(TmpFile') <= a + q
  BY <1>1, <1>4, <1>5, <1>6, <1>7 DEF Fits
<1>9. /\ Len(TmpFile') <= (written + BatchSize) * (Retries + 1)
      /\ Len(TmpFile') <= Chunks * (Retries + 1) /\ written + BatchSize \in 0..Chunks
  BY <1>1, <1>5, <1>6, <1>8, TriesFit
<1>10. UploadBounded'
  BY <1>9 DEF UploadBounded
<1>11. CASE NextBatch(written + BatchSize)
  BY <1>9, <1>10, <1>11, NextBatchFits
<1>12. CASE Goes("batchSize")
  <2>1. written' = written /\ attempt' = attempt /\ BatchSize' = BatchSize /\ pc' = "batchSize"
    BY <1>12 DEF Goes, BatchSize
  <2> QED
    BY <1>6, <1>8, <1>10, <2>1 DEF Fits
<1>13. CASE Ends("failed")
  BY <1>10, <1>13 DEF Ends, Fits
<1> QED
  BY <1>2, <1>11, <1>12, <1>13 DEF AfterReply

LEMMA CheckBatchFits ==
    ASSUME Loose, Loose', Tries, Tries', Fits, CheckBatch PROVE Fits'
<1>1. pc = "batchSize" /\ dir' = dir /\ TmpFile' = TmpFile /\ Len(TmpFile) \in Nat
  BY TmpLen DEF CheckBatch, TmpFile
<1>2. UploadBounded' /\ Len(TmpFile') <= written * (Retries + 1) + (attempt + 1) * BatchSize
  BY <1>1 DEF Fits, UploadBounded
<1>3. CASE NextBatch(written + BatchSize)
  <2>1. written + BatchSize \in 0..Chunks /\ Len(TmpFile') <= (written + BatchSize) * (Retries + 1)
    BY <1>1, <1>2, TriesFit
  <2> QED
    BY <1>2, <1>3, <2>1, NextBatchFits
<1>4. CASE attempt' = attempt + 1 /\ pc' = "batch" /\ UNCHANGED <<written, remoteSize, result>>
  <2>1. BatchSize' = BatchSize
    BY <1>4 DEF BatchSize
  <2> QED
    BY <1>2, <1>4, <2>1 DEF Fits
<1>5. CASE Ends("failed")
  BY <1>2, <1>5 DEF Ends, Fits
<1> QED
  BY <1>3, <1>4, <1>5 DEF CheckBatch, JudgeBatch

\* No line of the commit writes to the temporary name.
LEMMA CommitTmpSame ==
    ASSUME NEW works \in BOOLEAN,
           NEW e \in CommitSteps(works).stages \cup {CommitSteps(works).last}
    PROVE  "tmp" \in DOMAIN e => "tmp" \in DOMAIN dir /\ e["tmp"] = dir["tmp"]
<1> DEFINE d1 == BackupDropped(dir)
           d2 == LiveSetAside(d1)
           renamed == works /\ "tmp" \in DOMAIN d2
           d3 == IF renamed THEN Moved(d2, "tmp", "live") ELSE Restored(d2)
           last == IF renamed THEN BackupDropped(d3) ELSE d3
           Same(d, c) == "tmp" \in DOMAIN d => "tmp" \in DOMAIN c /\ d["tmp"] = c["tmp"]
<1>1. \A d : Same(BackupDropped(d), d)
  BY DroppedFacts
<1>2. \A d : \A a, b \in {"live", "tmp", "bak"} : b # "tmp" => Same(Moved(d, a, b), d)
  BY DEF Moved, With, Without
<1>3. Same(d2, d1)
  BY <1>2 DEF LiveSetAside
<1>4. Same(d3, d2)
  BY <1>2 DEF Restored
<1>5. Same(last, d3)
  BY <1>1
<1>6. CommitSteps(works) = [stages |-> {dir, d1, d2, d3}, last |-> last, ok |-> renamed]
  BY DEF CommitSteps
<1>7. Same(d1, dir)
  BY <1>1
<1> HIDE DEF d1, d2, d3, last, renamed
<1> QED
  BY <1>3, <1>4, <1>5, <1>6, <1>7

LEMMA CommitScriptFits ==
    ASSUME Loose, Loose', Fits, CommitScript PROVE Fits'
<1>1. PICK works \in BOOLEAN :
        dir' \in CommitSteps(works).stages \cup {CommitSteps(works).last}
  BY DEF CommitScript
<1>2. TmpFile' = TmpFile \/ TmpFile' = <<>>
  BY <1>1, CommitTmpSame DEF TmpFile
<1>3. Len(TmpFile') <= Len(TmpFile) /\ Len(TmpFile) \in Nat /\ Len(TmpFile') \in Nat
  BY <1>2, TmpLen
<1>4. Chunks * (Retries + 1) \in Nat
  BY PushConstants, Products
<1>5. UploadBounded'
  BY <1>3, <1>4 DEF Fits, UploadBounded
<1>6. pc' \in {"commitLive", "done"}
  BY DEF CommitScript, AfterReply, Goes, Ends
<1> QED
  BY <1>5, <1>6 DEF Fits

LEMMA FitsStep == ASSUME Loose, Loose', Tries, Tries', Fits, [Next]_vars PROVE Fits'
<1>1. CASE InitScript
  <2>1. dir' = With(dir, "tmp", <<>>) \/ dir' = dir
    BY <1>1 DEF InitScript
  <2>2. Len(TmpFile) = 0 /\ Len(<<>>) = 0
    BY <1>1 DEF Fits, InitScript
  <2>3. Len(TmpFile') = 0
    <3>1. CASE dir' = dir
      BY <2>2, <3>1 DEF TmpFile
    <3>2. CASE dir' = With(dir, "tmp", <<>>)
      <4>1. "tmp" \in DOMAIN dir' /\ dir'["tmp"] = <<>>
        BY <3>2 DEF With
      <4> QED
        BY <2>2, <4>1 DEF TmpFile
    <3> QED
      BY <2>1, <3>1, <3>2
  <2>4. UploadBounded'
    BY <2>3, NoneFits DEF UploadBounded
  <2>5. CASE NextBatch(0)
    <3>1. 0 \in 0..Chunks
      BY PushConstants
    <3> QED
      BY <2>3, <2>4, <2>5, <3>1, NextBatchFits, NoneFits
  <2>6. CASE Goes("initSize") \/ Ends("failed")
    BY <2>3, <2>4, <2>6 DEF Goes, Ends, Fits
  <2> QED
    BY <1>1, <2>5, <2>6 DEF InitScript, AfterReply
<1>2. CASE InitSize
  <2>1. Len(TmpFile') = 0 /\ UploadBounded'
    BY <1>2 DEF InitSize, Fits, TmpFile, UploadBounded
  <2>2. CASE NextBatch(0)
    <3>1. 0 \in 0..Chunks
      BY PushConstants
    <3> QED
      BY <2>1, <2>2, <3>1, NextBatchFits, NoneFits
  <2>3. CASE Ends("failed")
    BY <2>1, <2>3 DEF Ends, Fits
  <2> QED
    BY <1>2, <2>2, <2>3 DEF InitSize
<1>3. CASE CommitLive \/ CommitTmp \/ QueryRaises
  <2>1. dir' = dir /\ pc' \in {"commitTmp", "commit", "done"}
    BY <1>3 DEF CommitLive, CommitTmp, QueryRaises, Ends
  <2> QED
    BY <2>1 DEF Fits, UploadBounded, TmpFile
<1>4. CASE UNCHANGED vars
  BY <1>4 DEF vars, Fits, UploadBounded, TmpFile, BatchSize
<1> QED
  BY <1>1, <1>2, <1>3, <1>4, BatchScriptFits, CheckBatchFits, CommitScriptFits DEF Next

\* Whatever sizes are misread, and batches appended again for it, the temporary
\* file of run_push_repl (484-560) stays within the file for each try of a batch.
THEOREM UploadIsBounded == Spec => []UploadBounded
<1>1. Init => Fits
  <2>1. Init => TmpFile = <<>> /\ pc = "init" /\ Tries
    BY PushConstants DEF Init, TmpFile, Tries
  <2> QED
    BY <2>1, NoneFits DEF Fits, UploadBounded
<1>2. Fits => UploadBounded
  BY DEF Fits
<1> QED
  BY <1>1, <1>2, FitsStep, LooseHolds, TriesHold, PTL DEF Spec
=============================================================================
