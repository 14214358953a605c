------------------------ MODULE TempFileServerProofs ------------------------
(***************************************************************************)
(* Proofs about TempFileServer, for any number of uploads and downloads of *)
(* one name and bodies of any size, with restarts at any point.            *)
(***************************************************************************)
EXTENDS TempFileServer, TLAPS

-----------------------------------------------------------------------------
(* The types.                                                              *)

LEMMA InitTypeOK == Init => TypeOK
BY ServerAssumption DEF Init, TypeOK, uploading, downloading

\* A download only looks for the size of a file that was found.
LEMMA StepTypeOK == TypeOK /\ ServerInv /\ [Next]_vars => TypeOK'
<1> SUFFICES ASSUME TypeOK, ServerInv, [Next]_vars PROVE TypeOK'
  OBVIOUS
<1> USE ServerAssumption DEF TypeOK, uploading, downloading, Move, Step
<1>1. CASE UNCHANGED vars
  BY <1>1 DEF vars
<1>2. ASSUME NEW u \in Uploads, Upload(u) PROVE TypeOK'
  <2>1. CASE ReceiveChunk(u)
    <3>1. written' = [written EXCEPT ![u] = @ + 1] /\ written[u] < Size[u]
      BY <2>1 DEF ReceiveChunk, Remaining
    <3>2. written' \in [Uploads -> Nat] /\ \A v \in Uploads : written'[v] <= Size[v]
      BY <3>1
    <3>3. QED
      BY <2>1, <3>2 DEF ReceiveChunk
  <2>2. CASE CreateTemporary(u) \/ CloseTemporary(u) \/ Fails(u)
    BY <2>2 DEF CreateTemporary, CloseTemporary, Fails
  <2>3. CASE Replace(u) \/ UnlinkTemporary(u) \/ ReplyCreated(u)
    BY <2>3 DEF Replace, UnlinkTemporary, Unlinked, ReplyCreated
  <2>4. QED
    BY <1>2, <2>1, <2>2, <2>3 DEF Upload
<1>3. ASSUME NEW d \in Downloads, Download(d) PROVE TypeOK'
  <2>1. CASE StatSize(d)
    <3>1. file \in Uploads
      BY <2>1 DEF StatSize, ServerInv, LookupsFind
    <3>2. QED
      BY <2>1, <3>1 DEF StatSize
  <2>2. CASE SendChunk(d)
    BY <2>2 DEF SendChunk
  <2>3. CASE Find(d) \/ Open(d) \/ EndOfFile(d) \/ Breaks(d)
    BY <2>3 DEF Find, Open, EndOfFile, Breaks
  <2>4. QED
    BY <1>3, <2>1, <2>2, <2>3 DEF Download
<1>4. CASE Restart
  BY <1>4 DEF Restart
<1>5. QED
  BY <1>1, <1>2, <1>3, <1>4 DEF Next

-----------------------------------------------------------------------------
(* The inductive invariant.                                                *)

LEMMA InitServerInv == Init => ServerInv
BY DEF Init, ServerInv, RenamesWhole, FileLanded, TemporariesInUse, LookupsFind, StreamsOpened,
       StreamsLanded, DownloadSendsOneFile

\* What has landed stays as it is, whatever the handlers do and when they die.
LEMMA LandedStays ==
    TypeOK /\ [Next]_vars =>
        \A u \in Uploads : Landed(u) => Landed(u)' /\ written'[u] = written[u]
<1> SUFFICES ASSUME TypeOK, [Next]_vars, NEW u \in Uploads, Landed(u)
             PROVE  Landed(u)' /\ written'[u] = written[u]
  OBVIOUS
<1> USE DEF TypeOK, Landed, uploading, downloading, Move
<1>1. CASE UNCHANGED vars
  BY <1>1 DEF vars
<1>2. ASSUME NEW v \in Uploads, Upload(v) PROVE Landed(u)' /\ written'[u] = written[u]
  BY <1>2 DEF Upload, CreateTemporary, ReceiveChunk, CloseTemporary, Fails, Replace,
              UnlinkTemporary, ReplyCreated
<1>3. ASSUME NEW d \in Downloads, Download(d) PROVE Landed(u)' /\ written'[u] = written[u]
  BY <1>3 DEF Download, Find, StatSize, Open, SendChunk, EndOfFile, Breaks
<1>4. CASE Restart
  BY <1>4 DEF Restart, UploadEnded
<1>5. QED
  BY <1>1, <1>2, <1>3, <1>4 DEF Next

\* An upload renames its file after the last byte, and takes its temporary name away.
LEMMA StepUploads ==
    TypeOK /\ ServerInv /\ [Next]_vars => RenamesWhole' /\ FileLanded' /\ TemporariesInUse'
<1> SUFFICES ASSUME TypeOK, ServerInv, [Next]_vars
             PROVE  RenamesWhole' /\ FileLanded' /\ TemporariesInUse'
  OBVIOUS
<1> USE DEF uploading, downloading, Move
<1>0. /\ RenamesWhole /\ FileLanded /\ TemporariesInUse
      /\ upc \in [Uploads -> {"idle", "receiving", "renaming", "replying", "failing",
                              "created", "failed", "broken", "killed"}]
      /\ written \in [Uploads -> Nat] /\ temporary \subseteq Uploads
      /\ file \in Uploads \cup {NoFile}
  BY DEF ServerInv, TypeOK
<1>1. CASE UNCHANGED vars
  BY <1>0, <1>1 DEF vars, RenamesWhole, FileLanded, TemporariesInUse, Landed
<1>2. ASSUME NEW u \in Uploads, Upload(u)
      PROVE  RenamesWhole' /\ FileLanded' /\ TemporariesInUse'
  <2>1. RenamesWhole'
    BY <1>0, <1>2 DEF Upload, CreateTemporary, ReceiveChunk, CloseTemporary, WholeBody, Fails,
                      Replace, UnlinkTemporary, ReplyCreated, RenamesWhole
  <2>2. TemporariesInUse'
    BY <1>0, <1>2 DEF Upload, CreateTemporary, ReceiveChunk, CloseTemporary, Fails,
                      Replace, UnlinkTemporary, Unlinked, ReplyCreated, TemporariesInUse
  <2>3. CASE Replace(u)
    BY <1>0, <2>1, <2>2, <2>3 DEF Replace, RenamesWhole, FileLanded, Landed
  <2>4. CASE ~Replace(u)
    <3>1. file' = file
      BY <1>2, <2>4 DEF Upload, CreateTemporary, ReceiveChunk, CloseTemporary, Fails,
                        UnlinkTemporary, ReplyCreated
    <3>2. QED
      BY <1>0, <2>1, <2>2, <3>1, LandedStays DEF FileLanded
  <2>5. QED
    BY <2>3, <2>4
<1>3. ASSUME NEW d \in Downloads, Download(d)
      PROVE  RenamesWhole' /\ FileLanded' /\ TemporariesInUse'
  BY <1>0, <1>3 DEF Download, Find, StatSize, Open, SendChunk, EndOfFile, Breaks,
                    RenamesWhole, FileLanded, TemporariesInUse, Landed
<1>4. CASE Restart
  <2>1. RenamesWhole' /\ TemporariesInUse'
    BY <1>0, <1>4 DEF Restart, UploadEnded, RenamesWhole, TemporariesInUse
  <2>2. FileLanded'
    BY <1>0, <1>4, LandedStays DEF Restart, FileLanded
  <2>3. QED
    BY <2>1, <2>2
<1>5. QED
  BY <1>1, <1>2, <1>3, <1>4 DEF Next

\* A download opens a file that has landed, and sends that one to its end.
LEMMA StepDownloads ==
    TypeOK /\ ServerInv /\ [Next]_vars =>
        LookupsFind' /\ StreamsOpened' /\ StreamsLanded' /\ DownloadSendsOneFile'
<1> SUFFICES ASSUME TypeOK, ServerInv, [Next]_vars
             PROVE  LookupsFind' /\ StreamsOpened' /\ StreamsLanded' /\ DownloadSendsOneFile'
  OBVIOUS
<1> USE ServerAssumption DEF uploading, downloading, Step
<1>0. /\ LookupsFind /\ StreamsOpened /\ StreamsLanded /\ DownloadSendsOneFile /\ FileLanded
      /\ written \in [Uploads -> Nat] /\ file \in Uploads \cup {NoFile}
      /\ dpc \in [Downloads -> {"idle", "sizing", "opening", "sending", "done", "notFound",
                                "broken", "killed"}]
      /\ stream \in [Downloads -> Uploads \cup {NoFile}] /\ sent \in [Downloads -> Nat]
  BY DEF ServerInv, TypeOK
<1>1. ASSUME file' = NoFile => file = NoFile, UNCHANGED <<stream, sent>>,
             \A d \in Downloads : dpc'[d] \in {dpc[d], "killed"},
             \A d \in Downloads : dpc[d] \in {"done", "broken", "killed"} => dpc'[d] = dpc[d]
      PROVE  LookupsFind' /\ StreamsOpened' /\ StreamsLanded' /\ DownloadSendsOneFile'
  <2>1. LookupsFind' /\ StreamsOpened' /\ DownloadSendsOneFile'
    BY <1>0, <1>1 DEF LookupsFind, StreamsOpened, DownloadSendsOneFile
  <2>2. StreamsLanded'
    BY <1>0, <1>1, LandedStays DEF StreamsLanded
  <2>3. QED
    BY <2>1, <2>2
<1>2. CASE UNCHANGED vars
  BY <1>1, <1>2 DEF vars
<1>3. ASSUME NEW u \in Uploads, Upload(u)
      PROVE  LookupsFind' /\ StreamsOpened' /\ StreamsLanded' /\ DownloadSendsOneFile'
  BY <1>1, <1>3 DEF Upload, CreateTemporary, ReceiveChunk, CloseTemporary, Fails,
                    Replace, UnlinkTemporary, ReplyCreated
<1>4. ASSUME NEW d \in Downloads, Download(d)
      PROVE  LookupsFind' /\ StreamsOpened' /\ StreamsLanded' /\ DownloadSendsOneFile'
  <2>1. UNCHANGED <<upc, written, file>>
    BY <1>4 DEF Download, Find, StatSize, Open, SendChunk, EndOfFile, Breaks
  <2>2. CASE Find(d) \/ StatSize(d) \/ Breaks(d)
    BY <1>0, <2>1, <2>2 DEF Find, StatSize, Breaks, LookupsFind, StreamsOpened, StreamsLanded,
                            Landed, DownloadSendsOneFile
  <2>3. CASE Open(d)
    <3>1. /\ dpc[d] = "opening" /\ dpc' = [dpc EXCEPT ![d] = "sending"]
          /\ stream' = [stream EXCEPT ![d] = file] /\ sent' = sent
      BY <2>3 DEF Open
    <3>2. file \in Uploads /\ Landed(file) /\ sent[d] = 0
      BY <1>0, <3>1 DEF LookupsFind, FileLanded, StreamsOpened, StreamsLanded
    <3>3. LookupsFind' /\ StreamsOpened' /\ DownloadSendsOneFile'
      BY <1>0, <2>1, <3>1, <3>2 DEF LookupsFind, StreamsOpened, DownloadSendsOneFile
    <3>4. StreamsLanded'
      BY <1>0, <2>1, <3>1, <3>2 DEF StreamsLanded, Landed
    <3>5. QED
      BY <3>3, <3>4
  <2>4. CASE SendChunk(d)
    <3>1. /\ dpc[d] = "sending" /\ sent[d] < written[stream[d]] /\ UNCHANGED <<dpc, stream>>
          /\ sent' = [sent EXCEPT ![d] = @ + 1]
      BY <2>4 DEF SendChunk
    <3>2. stream[d] \in Uploads
      BY <1>0, <3>1 DEF StreamsOpened
    <3>3. sent'[d] <= written[stream[d]] /\ \A e \in Downloads \ {d} : sent'[e] = sent[e]
      BY <1>0, <3>1, <3>2
    <3>4. LookupsFind' /\ StreamsOpened' /\ DownloadSendsOneFile'
      BY <1>0, <2>1, <3>1, <3>3 DEF LookupsFind, StreamsOpened, DownloadSendsOneFile
    <3>5. StreamsLanded'
      BY <1>0, <2>1, <3>1, <3>2, <3>3 DEF StreamsLanded, Landed
    <3>6. QED
      BY <3>4, <3>5
  <2>5. CASE EndOfFile(d)
    <3>1. /\ dpc[d] = "sending" /\ dpc' = [dpc EXCEPT ![d] = "done"]
          /\ sent[d] = written[stream[d]] /\ UNCHANGED <<stream, sent>>
      BY <2>5 DEF EndOfFile
    <3>2. sent[d] = Size[stream[d]]
      BY <1>0, <3>1 DEF StreamsOpened, StreamsLanded, Landed
    <3>3. LookupsFind' /\ StreamsOpened' /\ DownloadSendsOneFile'
      BY <1>0, <2>1, <3>1, <3>2 DEF LookupsFind, StreamsOpened, DownloadSendsOneFile
    <3>4. StreamsLanded'
      BY <1>0, <2>1, <3>1 DEF StreamsLanded, Landed
    <3>5. QED
      BY <3>3, <3>4
  <2>6. QED
    BY <1>4, <2>2, <2>3, <2>4, <2>5 DEF Download
<1>5. CASE Restart
  BY <1>0, <1>1, <1>5 DEF Restart, DownloadEnded
<1>6. QED
  BY <1>2, <1>3, <1>4, <1>5 DEF Next

LEMMA StepServerInv == TypeOK /\ ServerInv /\ [Next]_vars => ServerInv'
BY StepUploads, StepDownloads DEF ServerInv

LEMMA ServerInvariance == Spec => [](TypeOK /\ ServerInv)
BY InitTypeOK, InitServerInv, StepTypeOK, StepServerInv, PTL DEF Spec

\* Type correctness of the server's handlers and its directory.
THEOREM TypeCorrect == Spec => []TypeOK
<1>1. QED
  BY ServerInvariance, PTL

\* Handlers, directory entries and bytes agree in every state.
THEOREM ServerInvariant == Spec => []ServerInv
<1>1. QED
  BY ServerInvariance, PTL

\* The name leads to a whole upload or to nothing, whatever races, fails or dies.
THEOREM FilesAreWhole == Spec => []FileIsWhole
<1>1. ServerInv => FileIsWhole
  BY DEF ServerInv, FileLanded, Landed, FileIsWhole
<1>2. QED
  BY <1>1, ServerInvariance, PTL

\* An upload that was answered has no temporary file.
THEOREM TemporariesGo == Spec => []NoTemporaryLeft
<1>1. ServerInv => NoTemporaryLeft
  BY DEF ServerInv, TemporariesInUse, NoTemporaryLeft
<1>2. QED
  BY <1>1, ServerInvariance, PTL

\* A download that ends has sent one upload from its first byte to its last.
THEOREM DownloadsAreWhole == Spec => []DownloadSendsOneFile
<1>1. ServerInv => DownloadSendsOneFile
  BY DEF ServerInv
<1>2. QED
  BY <1>1, ServerInvariance, PTL
=============================================================================
