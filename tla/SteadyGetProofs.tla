--------------------------- MODULE SteadyGetProofs ---------------------------
(***************************************************************************)
(* Proofs about SteadyGet, for any number of processes with one output and *)
(* any number of uploads they may download.  What TempFileServerProofs     *)
(* says of the server holds inside, since processes change nothing of it.  *)
(***************************************************************************)
EXTENDS SteadyGet, TempFileServerProofs

-----------------------------------------------------------------------------
(* The server inside.                                                      *)

LEMMA GetStepsServe == [GetNext]_gvars => [Next]_vars
<1> SUFFICES ASSUME [GetNext]_gvars PROVE [Next]_vars
  OBVIOUS
<1>1. CASE UNCHANGED gvars
  BY <1>1 DEF gvars
<1>2. CASE ServerStep
  BY <1>2 DEF ServerStep, Next
<1>3. ASSUME NEW g \in Downloads, Serve(g) PROVE [Next]_vars
  BY <1>3 DEF Serve, Next
<1>4. ASSUME NEW g \in Downloads, Process(g) PROVE UNCHANGED vars
  BY <1>4 DEF Process, Start, DownloadReturns, DownloadFails, OpenPart, WriteBody, WriteFails,
              ClosePart, CloseFails, RenamePart, FileFails, Kill
<1>5. QED
  BY <1>1, <1>2, <1>3, <1>4 DEF GetNext

\* Whatever the processes do, the server is the server.
THEOREM ServerInside == GetSpec => Spec
<1>1. GetInit => Init
  BY DEF GetInit
<1>2. QED
  BY <1>1, GetStepsServe, PTL DEF GetSpec, Spec

-----------------------------------------------------------------------------
(* The body of a process, and what writing it leaves in FILE.part.         *)

LEMMA BodyOfReceived ==
    ASSUME TypeOK, ServerInv, NEW g \in Downloads, Received(g)
    PROVE  /\ stream[g] \in Uploads /\ total[g] \in Nat
           /\ Body(g) = [i \in 1..total[g] |-> stream[g]]
           /\ Body(g) \in Seq(Uploads)
           /\ Len(Body(g)) = total[g]
           /\ IsPartOf(Body(g), g)
<1>1. stream[g] \in Uploads /\ total[g] \in Nat /\ dpc[g] # "notFound"
  BY DEF TypeOK, ServerInv, StreamsOpened, Received
<1>2. Body(g) = [i \in 1..total[g] |-> stream[g]]
  BY <1>1 DEF Body
<1>3. Body(g) \in Seq(Uploads) /\ Len(Body(g)) = total[g] /\ DOMAIN Body(g) = 1..total[g]
  BY <1>1, <1>2
<1>4. IsPartOf(Body(g), g)
  BY <1>1, <1>2, <1>3 DEF IsPartOf
<1>5. QED
  BY <1>1, <1>2, <1>3, <1>4

LEMMA SomeOfBody ==
    ASSUME TypeOK, ServerInv, NEW g \in Downloads, Received(g),
           NEW k \in 0..(Len(Body(g)) - 1)
    PROVE  /\ SubSeq(Body(g), 1, k) \in Seq(Uploads)
           /\ IsPartOf(SubSeq(Body(g), 1, k), g)
<1> DEFINE some == SubSeq(Body(g), 1, k)
<1>1. /\ stream[g] \in Uploads /\ total[g] \in Nat /\ Body(g) \in Seq(Uploads)
      /\ Len(Body(g)) = total[g] /\ \A i \in 1..total[g] : Body(g)[i] = stream[g]
  BY BodyOfReceived
<1>2. /\ some \in Seq(Uploads) /\ Len(some) = k /\ DOMAIN some = 1..k
      /\ \A i \in 1..k : some[i] = Body(g)[i]
  BY <1>1
<1>3. k <= total[g] /\ \A i \in 1..k : i \in 1..total[g]
  BY <1>1
<1>4. IsPartOf(some, g)
  BY <1>1, <1>2, <1>3 DEF IsPartOf
<1>5. QED
  BY <1>2, <1>4

LEMMA OverNothing == ASSUME NEW new \in Seq(Uploads) PROVE Over(<< >>, new) = new
<1>1. SubSeq(<< >>, Len(new) + 1, Len(<< >>)) = << >>
  OBVIOUS
<1>2. new \o << >> = new
  OBVIOUS
<1>3. QED
  BY <1>1, <1>2 DEF Over

\* Once a process has its body the server changes nothing about it.
LEMMA ReceivedStays ==
    TypeOK /\ ServerInv /\ [GetNext]_gvars =>
        \A g \in Downloads : Received(g) =>
            /\ Received(g)' /\ Body(g)' = Body(g)
            /\ stream'[g] = stream[g] /\ total'[g] = total[g]
<1> SUFFICES ASSUME TypeOK, ServerInv, [GetNext]_gvars, NEW g \in Downloads, Received(g)
             PROVE  /\ Received(g)' /\ Body(g)' = Body(g)
                    /\ stream'[g] = stream[g] /\ total'[g] = total[g]
  OBVIOUS
<1> USE DEF uploading, downloading, Step
<1>1. /\ dpc[g] \in {"sending", "done", "broken", "killed"}
      /\ dpc \in [Downloads -> {"idle", "sizing", "opening", "sending", "done", "notFound",
                                "broken", "killed"}]
      /\ total \in [Downloads -> Nat] /\ sent \in [Downloads -> Nat]
      /\ stream \in [Downloads -> Uploads \cup {NoFile}]
  BY DEF TypeOK, ServerInv, StreamsOpened, Received
<1>2. /\ dpc'[g] # "notFound" /\ stream'[g] = stream[g] /\ total'[g] = total[g]
      /\ sent'[g] >= sent[g]
  <2>1. CASE UNCHANGED vars
    BY <1>1, <2>1 DEF vars
  <2>2. ASSUME NEW u \in Uploads, Upload(u)
        PROVE  UNCHANGED <<dpc, total, stream, sent>>
    BY <2>2 DEF Upload, CreateTemporary, ReceiveChunk, CloseTemporary, Fails, Replace,
                UnlinkTemporary, ReplyCreated
  <2>3. ASSUME NEW d \in Downloads, Download(d)
        PROVE  /\ dpc'[g] # "notFound" /\ stream'[g] = stream[g] /\ total'[g] = total[g]
               /\ sent'[g] >= sent[g]
    <3>1. CASE Find(d) \/ StatSize(d) \/ Open(d)
      BY <1>1, <3>1 DEF Find, StatSize, Open
    <3>2. CASE SendChunk(d) \/ EndOfFile(d) \/ Breaks(d)
      BY <1>1, <3>2 DEF SendChunk, EndOfFile, Breaks
    <3>3. QED
      BY <2>3, <3>1, <3>2 DEF Download
  <2>4. CASE Restart
    BY <1>1, <2>4 DEF Restart
  <2>5. QED
    BY <1>1, <2>1, <2>2, <2>3, <2>4, GetStepsServe DEF Next
<1>3. Received(g)'
  <2>1. sent[g] \in Nat /\ total[g] \in Nat /\ sent[g] >= total[g] /\ stream[g] # NoFile
    BY <1>1 DEF Received
  <2>2. sent'[g] \in Nat
    BY StepTypeOK, GetStepsServe DEF TypeOK
  <2>3. QED
    BY <1>2, <2>1, <2>2 DEF Received
<1>4. Body(g)' = Body(g)
  BY <1>1, <1>2 DEF Body
<1>5. QED
  BY <1>2, <1>3, <1>4

-----------------------------------------------------------------------------
(* The inductive invariant.                                                *)

LEMMA InitGetInv == GetInit => GetTypeOK /\ GetInv
<1> SUFFICES ASSUME GetInit PROVE GetTypeOK /\ GetInv
  OBVIOUS
<1>1. NoEntry.by = NoGet /\ NoEntry.data = << >>
  BY DEF NoEntry
<1>2. GetTypeOK
  BY DEF GetInit, GetTypeOK, GetPC, NoEntry, Entry
<1>3. GetInv
  BY <1>1 DEF GetInit, GetInv, SavesWhatCame, OneWriter, PartFits, OutputFits, OutputIsWhole, InFile
<1>4. QED
  BY <1>2, <1>3

\* Where a process goes is no concern of the others.
LEMMA PassMoves ==
    ASSUME gpc \in [Downloads -> GetPC], NEW g \in Downloads, NEW from, NEW to \in GetPC,
           Pass(g, from, to)
    PROVE  /\ gpc[g] = from /\ gpc'[g] = to
           /\ \A h \in Downloads \ {g} : gpc'[h] = gpc[h]
           /\ gpc' \in [Downloads -> GetPC]
BY DEF Pass

\* The step of a process leaves all bodies as they are.
LEMMA BodiesUnmoved ==
    ASSUME UNCHANGED vars
    PROVE  \A g \in Downloads :
              /\ Received(g)' <=> Received(g)
              /\ Body(g)' = Body(g)
              /\ stream'[g] = stream[g] /\ total'[g] = total[g]
BY DEF vars, uploading, downloading, Received, Body

\* What came to a process, and to others, does not change: nor does what was saved of
\* it, if neither the process nor the file system is at work.
LEMMA SavedStays ==
    ASSUME GetTypeOK, GetInv, UNCHANGED output, lost \subseteq lost',
           \A g \in Downloads : Received(g) =>
               /\ Received(g)' /\ Body(g)' = Body(g)
               /\ stream'[g] = stream[g] /\ total'[g] = total[g],
           \A g \in Downloads : gpc[g] = "exit0" => gpc'[g] = "exit0"
    PROVE  OutputFits' /\ OutputIsWhole'
<1> SUFFICES ASSUME output.by # NoGet PROVE OutputFits' /\ OutputIsWhole'
  BY DEF OutputFits, OutputIsWhole
<1>1. output.by \in Downloads
  BY DEF GetTypeOK, Entry
<1>2. Received(output.by) /\ gpc[output.by] = "exit0"
  BY DEF GetInv, OutputFits
<1>3. OutputFits'
  BY <1>1, <1>2 DEF GetInv, OutputFits, IsPartOf
<1>4. OutputIsWhole'
  BY <1>1, <1>2 DEF GetInv, OutputIsWhole
<1>5. QED
  BY <1>3, <1>4

\* A step of the server, or of nobody.
LEMMA ServedStays ==
    ASSUME TypeOK, ServerInv, GetTypeOK, GetInv, [GetNext]_gvars, UNCHANGED <<gpc, saving>>
    PROVE  GetTypeOK' /\ GetInv'
<1>1. UNCHANGED <<part, output, lost>>
  BY DEF saving
<1>2. GetTypeOK'
  BY <1>1 DEF GetTypeOK
<1>3. SavesWhatCame' /\ OneWriter'
  BY ReceivedStays DEF GetInv, SavesWhatCame, OneWriter
<1>4. PartFits'
  BY <1>1, ReceivedStays DEF GetInv, SavesWhatCame, PartFits, IsPartOf
<1>5. OutputFits' /\ OutputIsWhole'
  BY <1>1, ReceivedStays, SavedStays
<1>6. QED
  BY <1>2, <1>3, <1>4, <1>5 DEF GetInv

\* A process that does not write leaves the files to those that do.
LEMMA IdleStays ==
    ASSUME GetTypeOK, GetInv, UNCHANGED <<vars, saving>>, NEW g \in Downloads,
           gpc[g] # "exit0", gpc'[g] \notin InFile, gpc'[g] = "saving" => Received(g),
           gpc' \in [Downloads -> GetPC], \A h \in Downloads \ {g} : gpc'[h] = gpc[h]
    PROVE  GetTypeOK' /\ GetInv'
<1>1. UNCHANGED <<part, output, lost>>
  BY DEF saving
<1>2. GetTypeOK'
  BY <1>1 DEF GetTypeOK
<1>3. SavesWhatCame' /\ OneWriter'
  BY BodiesUnmoved DEF GetInv, SavesWhatCame, OneWriter
<1>4. PartFits'
  BY <1>1, BodiesUnmoved DEF GetInv, PartFits, IsPartOf
<1>5. OutputFits' /\ OutputIsWhole'
  BY <1>1, BodiesUnmoved, SavedStays
<1>6. QED
  BY <1>2, <1>3, <1>4, <1>5 DEF GetInv

\* The one process in its file, now or next, is g, and what it leaves there fits.
LEMMA WriterFits ==
    ASSUME GetTypeOK, GetInv, UNCHANGED <<vars, output>>, lost \subseteq lost',
           NEW g \in Downloads, Received(g), gpc[g] # "exit0",
           \A h \in Downloads \ {g} : gpc[h] \notin InFile /\ gpc'[h] = gpc[h],
           gpc' \in [Downloads -> GetPC], lost' \subseteq Downloads,
           part' \in Entry,
           gpc'[g] \in InFile =>
               /\ part'.by = g
               /\ gpc'[g] \in {"writing", "buffered"} => part'.data = << >>
               /\ gpc'[g] = "written" => part'.data = Body(g)
               /\ gpc'[g] = "renaming" =>
                     IsPartOf(part'.data, g) /\ (g \notin lost' => part'.data = Body(g))
    PROVE  GetTypeOK' /\ GetInv'
<1>1. GetTypeOK'
  BY DEF GetTypeOK
<1>2. SavesWhatCame' /\ OneWriter'
  BY BodiesUnmoved DEF GetInv, SavesWhatCame, OneWriter
<1>3. PartFits'
  BY BodiesUnmoved DEF PartFits, IsPartOf
<1>4. OutputFits' /\ OutputIsWhole'
  BY BodiesUnmoved, SavedStays
<1>5. QED
  BY <1>1, <1>2, <1>3, <1>4 DEF GetInv

\* A process: only one writes at a time, and what it renames is part of its body, or
\* all of it unless the last write failed unseen.
LEMMA ProcessStays ==
    ASSUME TypeOK, ServerInv, GetTypeOK, GetInv, NEW g \in Downloads, Process(g)
    PROVE  GetTypeOK' /\ GetInv'
<1> USE DEF saving
<1>0. /\ gpc \in [Downloads -> GetPC] /\ lost \subseteq Downloads
      /\ part \in Entry
      /\ SavesWhatCame /\ OneWriter /\ PartFits /\ OutputIsWhole
  BY DEF GetTypeOK, GetInv
<1>1. ASSUME gpc[g] \in InFile
      PROVE  /\ Received(g) /\ part.by = g
             /\ \A h \in Downloads \ {g} : gpc[h] \notin InFile
  BY <1>0, <1>1 DEF SavesWhatCame, OneWriter, PartFits
<1>2. CASE Start(g) \/ DownloadFails(g) \/ FileFails(g) \/ Kill(g)
  <2>1. PICK from \in GetPC \ {"exit0"}, to \in GetPC \ (InFile \cup {"saving"}) : Pass(g, from, to)
    BY <1>2 DEF Start, DownloadFails, FileFails, Kill, GetPC, InFile
  <2>2. UNCHANGED <<vars, saving>>
    BY <1>2 DEF Start, DownloadFails, FileFails, Kill
  <2>3. QED
    BY <1>0, <2>1, <2>2, PassMoves, IdleStays
<1>3. CASE DownloadReturns(g)
  <2>1. Received(g)
    BY <1>3 DEF DownloadReturns, Answered, IsSuccess, Received
  <2>2. Pass(g, "downloading", "saving") /\ UNCHANGED <<vars, saving>> /\ "saving" \in GetPC
        /\ "saving" \notin InFile
    BY <1>3 DEF DownloadReturns, GetPC, InFile
  <2>3. QED
    BY <1>0, <2>1, <2>2, PassMoves, IdleStays
<1>4. CASE OpenPart(g)
  <2>1. /\ Pass(g, "saving", "writing") /\ UNCHANGED <<vars, output, lost>>
        /\ part' = [by |-> g, data |-> << >>]
        /\ \A h \in Downloads : gpc[h] \notin InFile
        /\ "writing" \in GetPC
    BY <1>4 DEF OpenPart, Truncated, GetPC, InFile
  <2>2. Received(g)
    BY <1>0, <2>1 DEF Pass, SavesWhatCame
  <2>3. part'.by = g /\ part'.data = << >> /\ part' \in Entry
    BY <2>1 DEF Entry
  <2>4. QED
    BY <1>0, <2>1, <2>2, <2>3, PassMoves, WriterFits
<1>5. CASE WriteBody(g)
  <2>1. gpc[g] = "writing" /\ gpc[g] \in InFile
    BY <1>5 DEF WriteBody, Pass, InFile
  <2>2. Received(g) /\ part.by = g /\ part.data = << >>
    BY <1>0, <1>1, <2>1 DEF PartFits
  <2>3. Body(g) \in Seq(Uploads) /\ Over(part.data, Body(g)) = Body(g)
    BY <2>2, BodyOfReceived, OverNothing
  <2>4. ASSUME Pass(g, "writing", "written"), part' = [part EXCEPT !.data = Body(g)]
        PROVE  GetTypeOK' /\ GetInv'
    <3>1. part' \in Entry /\ part'.by = g /\ part'.data = Body(g)
      BY <1>0, <2>2, <2>3, <2>4 DEF Entry
    <3>2. "written" \in GetPC
      BY DEF GetPC, InFile
    <3>3. QED
      BY <1>0, <1>1, <1>5, <2>1, <2>2, <2>4, <3>1, <3>2, PassMoves, WriterFits DEF WriteBody
  <2>5. ASSUME Pass(g, "writing", "buffered"), UNCHANGED part
        PROVE  GetTypeOK' /\ GetInv'
    <3>1. "buffered" \in GetPC
      BY DEF GetPC, InFile
    <3>2. QED
      BY <1>0, <1>1, <1>5, <2>1, <2>2, <2>5, <3>1, PassMoves, WriterFits DEF WriteBody
  <2>6. QED
    BY <1>5, <2>3, <2>4, <2>5 DEF WriteBody
<1>6. CASE WriteFails(g)
  <2>1. gpc[g] = "writing" /\ gpc[g] \in InFile
    BY <1>6 DEF WriteFails, Pass, InFile
  <2>2. Received(g) /\ part.by = g /\ part.data = << >>
    BY <1>0, <1>1, <2>1 DEF PartFits
  <2>3. PICK k \in 0..(Len(Body(g)) - 1) :
            part' = [part EXCEPT !.data = Over(@, SubSeq(Body(g), 1, k))]
    BY <1>6 DEF WriteFails
  <2>4. SubSeq(Body(g), 1, k) \in Seq(Uploads)
    BY <2>2, SomeOfBody
  <2>5. part' \in Entry
    BY <1>0, <2>2, <2>3, <2>4, OverNothing DEF Entry
  <2>6. Pass(g, "writing", "exit2") /\ "exit2" \in GetPC /\ "exit2" \notin InFile
    BY <1>6 DEF WriteFails, Checked, GetPC, InFile
  <2>7. QED
    BY <1>0, <1>1, <1>6, <2>1, <2>2, <2>5, <2>6, PassMoves, WriterFits DEF WriteFails
<1>7. CASE ClosePart(g)
  <2>1. gpc[g] \in {"written", "buffered"} /\ gpc[g] \in InFile
        /\ Pass(g, gpc[g], "renaming") /\ "renaming" \in GetPC
    BY <1>7 DEF ClosePart, Pass, InFile, GetPC
  <2>2. Received(g) /\ part.by = g
    BY <1>1, <2>1
  <2>3. Body(g) \in Seq(Uploads) /\ Over(<< >>, Body(g)) = Body(g) /\ IsPartOf(Body(g), g)
    BY <2>2, BodyOfReceived, OverNothing
  <2>4. part' \in Entry /\ part'.by = g /\ part'.data = Body(g)
    <3>1. CASE gpc[g] = "written"
      BY <1>0, <1>7, <2>2, <3>1 DEF ClosePart, Pass, PartFits, InFile
    <3>2. CASE gpc[g] = "buffered"
      <4>1. part.data = << >>
        BY <1>0, <3>2 DEF PartFits, InFile
      <4>2. part' = [part EXCEPT !.data = Body(g)]
        BY <1>7, <2>3, <3>2, <4>1 DEF ClosePart, Pass
      <4>3. QED
        BY <1>0, <2>2, <2>3, <4>2 DEF Entry
    <3>3. QED
      BY <2>1, <3>1, <3>2
  <2>5. QED
    BY <1>0, <1>1, <1>7, <2>1, <2>2, <2>3, <2>4, PassMoves, WriterFits DEF ClosePart
<1>8. CASE CloseFails(g)
  <2>1. /\ gpc[g] = "buffered" /\ gpc[g] \in InFile
        /\ Pass(g, "buffered", "renaming") /\ "renaming" \in GetPC
        /\ lost' = lost \cup {g} /\ UNCHANGED <<vars, output>>
    BY <1>8 DEF CloseFails, Pass, InFile, GetPC
  <2>2. Received(g) /\ part.by = g /\ part.data = << >>
    BY <1>0, <1>1, <2>1 DEF PartFits
  <2>3. PICK k \in 0..(Len(Body(g)) - 1) :
            part' = [part EXCEPT !.data = Over(@, SubSeq(Body(g), 1, k))]
    BY <1>8 DEF CloseFails
  <2>4. SubSeq(Body(g), 1, k) \in Seq(Uploads) /\ IsPartOf(SubSeq(Body(g), 1, k), g)
    BY <2>2, SomeOfBody
  <2>5. /\ part' \in Entry /\ part'.by = g /\ IsPartOf(part'.data, g)
    BY <1>0, <2>2, <2>3, <2>4, OverNothing DEF Entry
  <2>6. QED
    BY <1>0, <1>1, <2>1, <2>2, <2>5, PassMoves, WriterFits
<1>9. CASE RenamePart(g)
  <2>1. /\ gpc[g] = "renaming" /\ gpc[g] \in InFile
        /\ Pass(g, "renaming", "exit0") /\ "exit0" \in GetPC /\ "exit0" \notin InFile
        /\ output' = part /\ part' = NoEntry /\ UNCHANGED <<vars, lost>>
    BY <1>9 DEF RenamePart, Pass, InFile, GetPC
  <2>2. /\ Received(g) /\ part.by = g /\ IsPartOf(part.data, g)
        /\ g \notin lost => part.data = Body(g)
    BY <1>0, <1>1, <2>1 DEF PartFits
  <2>3. /\ gpc'[g] = "exit0" /\ gpc' \in [Downloads -> GetPC]
        /\ \A h \in Downloads \ {g} : gpc'[h] = gpc[h]
    BY <1>0, <2>1, PassMoves
  <2>4. GetTypeOK'
    BY <1>0, <2>1, <2>3 DEF GetTypeOK, NoEntry, Entry
  <2>5. SavesWhatCame' /\ OneWriter' /\ PartFits'
    BY <1>0, <1>1, <2>1, <2>3, BodiesUnmoved DEF SavesWhatCame, OneWriter, PartFits
  <2>6. OutputFits' /\ OutputIsWhole'
    BY <2>1, <2>2, <2>3, BodiesUnmoved DEF OutputFits, OutputIsWhole, IsPartOf
  <2>7. QED
    BY <2>4, <2>5, <2>6 DEF GetInv
<1>10. QED
  BY <1>2, <1>3, <1>4, <1>5, <1>6, <1>7, <1>8, <1>9 DEF Process

LEMMA StepGetInv ==
    TypeOK /\ ServerInv /\ GetTypeOK /\ GetInv /\ [GetNext]_gvars => GetTypeOK' /\ GetInv'
<1> SUFFICES ASSUME TypeOK, ServerInv, GetTypeOK, GetInv, [GetNext]_gvars
             PROVE  GetTypeOK' /\ GetInv'
  OBVIOUS
<1>1. CASE UNCHANGED gvars
  BY <1>1, ServedStays DEF gvars
<1>2. CASE ServerStep
  BY <1>2, ServedStays DEF ServerStep
<1>3. ASSUME NEW g \in Downloads, Serve(g) PROVE GetTypeOK' /\ GetInv'
  BY <1>3, ServedStays DEF Serve
<1>4. ASSUME NEW g \in Downloads, Process(g) PROVE GetTypeOK' /\ GetInv'
  BY <1>4, ProcessStays
<1>5. QED
  BY <1>1, <1>2, <1>3, <1>4 DEF GetNext

LEMMA GetInvariance == GetSpec => [](TypeOK /\ ServerInv /\ GetTypeOK /\ GetInv)
<1>1. GetInit => GetTypeOK /\ GetInv
  BY InitGetInv
<1>2. TypeOK /\ ServerInv /\ GetTypeOK /\ GetInv /\ [GetNext]_gvars => GetTypeOK' /\ GetInv'
  BY StepGetInv
<1>3. QED
  BY <1>1, <1>2, ServerInside, ServerInvariance, PTL DEF GetSpec

\* Type correctness of the processes and the two directory entries they share.
THEOREM GetTypeCorrect == GetSpec => []GetTypeOK
<1>1. QED
  BY GetInvariance, PTL

\* Processes and files agree in every state, whoever was killed where.
THEOREM GetInvariant == GetSpec => []GetInv
<1>1. QED
  BY GetInvariance, PTL

\* FILE holds all its process received, unless the last write failed unseen.
THEOREM OutputsAreWhole == GetSpec => []OutputIsWhole
<1>1. GetInv => OutputIsWhole
  BY DEF GetInv
<1>2. QED
  BY <1>1, GetInvariance, PTL

\* From end to end: FILE holds bytes of one complete upload and never an error page.
THEOREM OutputsComeFromUploads == GetSpec => []OutputComesFromUpload
<1>1. TypeOK /\ ServerInv /\ GetTypeOK /\ GetInv => OutputComesFromUpload
  <2> SUFFICES ASSUME TypeOK, ServerInv, GetTypeOK, GetInv, output.by # NoGet
               PROVE  \E u \in Uploads :
                          /\ written[u] = Size[u]
                          /\ Len(output.data) <= Size[u]
                          /\ \A i \in DOMAIN output.data : output.data[i] = u
    BY DEF OutputComesFromUpload
  <2> DEFINE g == output.by
             u == stream[g]
  <2>1. g \in Downloads /\ output.data \in Seq(Uploads)
    BY DEF GetTypeOK, Entry
  <2>2. Received(g) /\ IsPartOf(output.data, g)
    BY DEF GetInv, OutputFits
  <2>3. /\ u \in Uploads /\ written[u] = Size[u] /\ sent[g] <= written[u]
        /\ sent[g] \in Nat /\ total[g] \in Nat /\ written[u] \in Nat
    BY <2>1, <2>2 DEF TypeOK, ServerInv, StreamsLanded, Landed, Received
  <2>4. Len(output.data) <= Size[u] /\ \A i \in DOMAIN output.data : output.data[i] = u
    <3>1. Len(output.data) \in Nat /\ Len(output.data) <= total[g] /\ total[g] <= sent[g]
      BY <2>1, <2>2, <2>3 DEF IsPartOf, Received
    <3>2. QED
      BY <2>2, <2>3, <3>1 DEF IsPartOf
  <2>5. QED
    BY <2>3, <2>4
<1>2. QED
  BY <1>1, GetInvariance, PTL
=============================================================================
