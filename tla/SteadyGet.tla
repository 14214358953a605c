------------------------------ MODULE SteadyGet ------------------------------
(***************************************************************************)
(* SteadyGet/src/main.cpp against HttpTempFileServer: each download of the *)
(* server is made by one process of steady-get, which saves the body as    *)
(* FILE.part and renames it to FILE.  All processes have the same output;  *)
(* their downloads may overlap, the writing of their files does not.       *)
(*                                                                         *)
(* The download is the last attempt of the client's run(): what the        *)
(* attempts before it received, run() discards.                            *)
(*                                                                         *)
(* A body of the size of the stream's buffer or less stays there until the *)
(* stream is closed.  A process may be killed at any point; the machine    *)
(* stays up, so what was handed to the file system is not lost.            *)
(***************************************************************************)
EXTENDS TempFileServer, Sequences

CONSTANTS NoGet

ASSUME GetAssumption == NoGet \notin Downloads

VARIABLES gpc,     \* where each process is, then how it ended
          part,    \* the directory entry FILE.part: who wrote it, and its bytes
          output,  \* the directory entry FILE
          lost     \* processes whose last write failed unseen

saving == <<part, output, lost>>
gvars == <<vars, gpc, saving>>

Entry == [by : Downloads \cup {NoGet}, data : Seq(Uploads)]
NoEntry == [by |-> NoGet, data |-> << >>]
InFile == {"writing", "buffered", "written", "renaming"}
GetPC == {"idle", "downloading", "saving", "exit0", "exit1", "exit2", "killed"} \cup InFile

GetTypeOK ==
    /\ gpc \in [Downloads -> GetPC]
    /\ part \in Entry
    /\ output \in Entry
    /\ lost \in SUBSET Downloads

GetInit ==
    /\ Init
    /\ gpc = [g \in Downloads |-> "idle"]
    /\ part = NoEntry
    /\ output = NoEntry
    /\ lost = {}

-----------------------------------------------------------------------------
(* Helpers.                                                                *)

Pass(g, from, to) == gpc[g] = from /\ gpc' = [gpc EXCEPT ![g] = to]

\* What the client hands over: as much of the opened file as was announced.  A
\* page that says 404 is one chunk of no upload.
Body(g) ==
    IF dpc[g] = "notFound" THEN <<NoFile>> ELSE [i \in 1..total[g] |-> stream[g]]

\* run() makes an error of a response that is not 2xx, unless told otherwise.
AnyStatus(g) == TRUE
IsSuccess(g) == dpc[g] # "notFound"

Answered(g) ==
    IF dpc[g] = "notFound" THEN TRUE ELSE stream[g] # NoFile /\ sent[g] >= total[g]

\* What opening FILE.part leaves of its bytes, and a write at its beginning.
Untouched(data) == data
Truncated(data) == << >>
Over(data, new) == new \o SubSeq(data, Len(new) + 1, Len(data))

\* What main() does about a stream whose write failed.
Unchecked == "written"
Checked == "exit2"

-----------------------------------------------------------------------------
(* Steps of a process.                                                     *)

\* parse(), the CA file and the client's constructor.
Start(g) ==
    /\ \E to \in {"downloading", "exit2"} : Pass(g, "idle", to)
    /\ UNCHANGED <<vars, saving>>

\* The server's step for the connection of a process.
Serve(g) ==
    /\ dpc[g] = "idle" => gpc[g] = "downloading"
    /\ Download(g)
    /\ UNCHANGED <<gpc, saving>>

DownloadReturns(g) ==
    /\ Answered(g) /\ IsSuccess(g)
    /\ Pass(g, "downloading", "saving")
    /\ UNCHANGED <<vars, saving>>

\* An error of any kind, the refused status among them.
DownloadFails(g) ==
    /\ Pass(g, "downloading", "exit1")
    /\ UNCHANGED <<vars, saving>>

OpenPart(g) ==
    /\ \A h \in Downloads : gpc[h] \notin InFile
    /\ Pass(g, "saving", "writing")
    /\ part' = [by |-> g, data |-> Truncated(part.data)]
    /\ UNCHANGED <<vars, output, lost>>

WriteBody(g) ==
    /\ \/ /\ Pass(g, "writing", "written")
          /\ part' = [part EXCEPT !.data = Over(@, Body(g))]
       \/ Pass(g, "writing", "buffered") /\ UNCHANGED part
    /\ UNCHANGED <<vars, output, lost>>

\* No space: some bytes are written, and the stream remembers.
WriteFails(g) ==
    /\ Pass(g, "writing", Checked)
    /\ \E k \in 0..(Len(Body(g)) - 1) :
          part' = [part EXCEPT !.data = Over(@, SubSeq(Body(g), 1, k))]
    /\ UNCHANGED <<vars, output, lost>>

\* The destructor of the stream writes what is still in its buffer ...
ClosePart(g) ==
    /\ \/ Pass(g, "written", "renaming") /\ UNCHANGED part
       \/ /\ Pass(g, "buffered", "renaming")
          /\ part' = [part EXCEPT !.data = Over(@, Body(g))]
    /\ UNCHANGED <<vars, output, lost>>

\* ... and has no way to say that it could not.
CloseFails(g) ==
    /\ Pass(g, "buffered", "renaming")
    /\ \E k \in 0..(Len(Body(g)) - 1) :
          part' = [part EXCEPT !.data = Over(@, SubSeq(Body(g), 1, k))]
    /\ lost' = lost \cup {g}
    /\ UNCHANGED <<vars, output>>

RenamePart(g) ==
    /\ Pass(g, "renaming", "exit0")
    /\ output' = part
    /\ part' = NoEntry
    /\ UNCHANGED <<vars, lost>>

\* FILE.part cannot be opened, or not be renamed.
FileFails(g) ==
    /\ \E from \in {"saving", "renaming"} : Pass(g, from, "exit2")
    /\ UNCHANGED <<vars, saving>>

Kill(g) ==
    /\ \E from \in {"downloading", "saving"} \cup InFile : Pass(g, from, "killed")
    /\ UNCHANGED <<vars, saving>>

-----------------------------------------------------------------------------
(* The specification: processes and server.                                *)

Process(g) ==
    \/ Start(g) \/ DownloadReturns(g) \/ DownloadFails(g)
    \/ OpenPart(g) \/ WriteBody(g) \/ WriteFails(g) \/ ClosePart(g) \/ CloseFails(g)
    \/ RenamePart(g) \/ FileFails(g) \/ Kill(g)

ServerStep ==
    /\ Restart \/ \E u \in Uploads : Upload(u)
    /\ UNCHANGED <<gpc, saving>>

GetNext ==
    \/ ServerStep
    \/ \E g \in Downloads : Serve(g) \/ Process(g)

GetSpec == GetInit /\ [][GetNext]_gvars

-----------------------------------------------------------------------------
(* Properties.                                                             *)

\* FILE holds everything its process received, although processes are killed,
\* leave their FILE.part behind and run out of space, except that nobody notices
\* when the last write, in the stream's destructor, fails.
OutputIsWhole ==
    output.by \notin lost \cup {NoGet} => output.data = Body(output.by)

\* From end to end: FILE holds bytes of one complete upload and never an error page,
\* whatever uploads raced, failed or died meanwhile.  (That they are its first ones
\* is how Body models a connection.)
OutputComesFromUpload ==
    output.by # NoGet =>
        \E u \in Uploads :
            /\ written[u] = Size[u]
            /\ Len(output.data) <= Size[u]
            /\ \A i \in DOMAIN output.data : output.data[i] = u

-----------------------------------------------------------------------------
(* What the properties rest on.                                            *)

\* A process that has its body saves it; neither the body nor where it is from
\* changes any more.
Received(g) == stream[g] # NoFile /\ sent[g] >= total[g]

SavesWhatCame == \A g \in Downloads : gpc[g] \in {"saving"} \cup InFile => Received(g)

OneWriter == \A g, h \in Downloads : gpc[g] \in InFile /\ gpc[h] \in InFile => g = h

\* At most all of the body of a process, and nothing else.
IsPartOf(data, g) ==
    Len(data) <= total[g] /\ \A i \in DOMAIN data : data[i] = stream[g]

\* What the process that writes has in FILE.part.
PartFits ==
    \A g \in Downloads : gpc[g] \in InFile =>
        /\ part.by = g
        /\ gpc[g] \in {"writing", "buffered"} => part.data = << >>
        /\ gpc[g] = "written" => part.data = Body(g)
        /\ gpc[g] = "renaming" =>
              IsPartOf(part.data, g) /\ (g \notin lost => part.data = Body(g))

OutputFits ==
    output.by # NoGet =>
        /\ gpc[output.by] = "exit0"
        /\ Received(output.by)
        /\ IsPartOf(output.data, output.by)

\* The inductive invariant of the processes, on top of ServerInv.
GetInv ==
    /\ SavesWhatCame
    /\ OneWriter
    /\ PartFits
    /\ OutputFits
    /\ OutputIsWhole
=============================================================================
