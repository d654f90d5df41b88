------------------------------ MODULE ImageStore ------------------------------
(***************************************************************************)
(* One file of ./img: writeImage and sendImage of                          *)
(* CentralServer/lfrconnection.cpp, called by the work threads of several  *)
(* connections for the same name, with no lock.                            *)
(*                                                                         *)
(* An image is a sequence of units that carry the name of the upload they  *)
(* came with.  An ofstream truncates the file when it is opened and writes *)
(* at its own position; an ifstream is measured first and read afterwards. *)
(* Either is cut into pieces by the library in any way.                    *)
(***************************************************************************)
EXTENDS Naturals, Sequences

CONSTANTS
  Uploads, Downloads,
  Size           \* the number of units of each upload's image

ASSUME ImageStoreAssumption ==
  /\ Size \in [Uploads -> Nat \ {0}]
  /\ Uploads \cap {"blank", "none"} = {}

VARIABLES
  directory,  \* ./img exists
  file,       \* what the file holds; <<>> also when there is none
  upload,     \* each: "ready", "open", "done" or "lost"
  written,    \* the position of its stream
  latest,     \* the upload that opened the file last, or "none"
  mixed,      \* the uploads that were under way while another one was, or were cut off
  download,   \* each: "ready", "open", "measured", "done", "threw" or "lost"
  data,       \* what it has read, padded with blanks to the size measured
  place,      \* the position of its stream
  source      \* the upload whose image it has to find: "none" if one is under way,
              \* or comes in, or if the last was mixed

vars == <<directory, file, upload, written, latest, mixed, download, data, place, source>>
uploadVars == <<upload, written, latest, mixed>>
downloadVars == <<download, data, place, source>>

Image(u) == [i \in 1..Size[u] |-> u]
Writing == {u \in Uploads : upload[u] = "open"}
Reading == {d \in Downloads : download[d] \in {"open", "measured"}}

Init ==
  /\ directory \in BOOLEAN
  /\ file = <<>>
  /\ upload = [u \in Uploads |-> "ready"] /\ written = [u \in Uploads |-> 0]
  /\ latest = "none" /\ mixed = {}
  /\ download = [d \in Downloads |-> "ready"]
  /\ data = [d \in Downloads |-> <<>>] /\ place = [d \in Downloads |-> 0]
  /\ source = [d \in Downloads |-> "none"]

-----------------------------------------------------------------------------
(* writeImage.                                                             *)

Disturbed == [d \in Downloads |-> IF d \in Reading THEN "none" ELSE source[d]]

\* (mutant) The file is opened without being truncated.
OpenKeeping(u) ==
  /\ upload[u] = "ready"
  /\ upload' = [upload EXCEPT ![u] = "open"]
  /\ latest' = u
  /\ mixed' = mixed \cup (IF Writing = {} THEN {} ELSE Writing \cup {u})
  /\ source' = Disturbed
  /\ UNCHANGED <<directory, file, written, download, data, place>>

\* Without the directory the stream fails, and so does all that is done with it: no
\* error is looked at.
OpenForWriting(u) ==
  /\ upload[u] = "ready"
  /\ upload' = [upload EXCEPT ![u] = "open"]
  /\ file' = <<>>
  /\ latest' = u
  /\ mixed' = mixed \cup (IF Writing = {} THEN {} ELSE Writing \cup {u})
  /\ source' = Disturbed
  /\ UNCHANGED <<directory, written, download, data, place>>

\* (mutant) The gap beyond the end of the file is not filled.
WriteUnitOverGap(u) ==
  /\ upload[u] = "open" /\ written[u] < Size[u]
  /\ written' = [written EXCEPT ![u] = @ + 1]
  /\ file' = IF ~directory THEN file
             ELSE [i \in 1..(IF Len(file) > written[u] THEN Len(file) ELSE written'[u]) |->
                     IF i = written'[u] THEN u
                     ELSE IF i <= Len(file) THEN file[i] ELSE "none"]
  /\ UNCHANGED <<directory, upload, latest, mixed, downloadVars>>

\* One more unit, at the position of the stream; beyond the end of a file that
\* was truncated meanwhile the gap reads as blanks.
WriteUnit(u) ==
  /\ upload[u] = "open" /\ written[u] < Size[u]
  /\ written' = [written EXCEPT ![u] = @ + 1]
  /\ file' = IF ~directory THEN file
             ELSE [i \in 1..(IF Len(file) > written[u] THEN Len(file) ELSE written'[u]) |->
                     IF i = written'[u] THEN u
                     ELSE IF i <= Len(file) THEN file[i] ELSE "blank"]
  /\ UNCHANGED <<directory, upload, latest, mixed, downloadVars>>

Close(u) ==
  /\ upload[u] = "open" /\ written[u] = Size[u]
  /\ upload' = [upload EXCEPT ![u] = "done"]
  /\ UNCHANGED <<directory, file, written, latest, mixed, downloadVars>>

-----------------------------------------------------------------------------
(* sendImage.                                                              *)

OpenForReading(d) ==
  /\ download[d] = "ready" /\ directory /\ latest # "none"
  /\ download' = [download EXCEPT ![d] = "open"]
  /\ source' = [source EXCEPT ![d] =
       IF Writing = {} /\ latest \notin mixed THEN latest ELSE "none"]
  /\ UNCHANGED <<directory, file, uploadVars, data, place>>

\* (mutant) The stream is not put back to the start of the file.
MeasureOnly(d) ==
  /\ download[d] = "open"
  /\ download' = [download EXCEPT ![d] = "measured"]
  /\ data' = [data EXCEPT ![d] = [i \in 1..Len(file) |-> "blank"]]
  /\ place' = [place EXCEPT ![d] = Len(file)]
  /\ UNCHANGED <<directory, file, uploadVars, source>>

\* seekg to the end, tellg, the string of that many blanks, seekg to the start.
Measure(d) ==
  /\ download[d] = "open"
  /\ download' = [download EXCEPT ![d] = "measured"]
  /\ data' = [data EXCEPT ![d] = [i \in 1..Len(file) |-> "blank"]]
  /\ UNCHANGED <<directory, file, uploadVars, place, source>>

ReadUnit(d) ==
  /\ download[d] = "measured"
  /\ place[d] < Len(data[d]) /\ place[d] < Len(file)
  /\ place' = [place EXCEPT ![d] = @ + 1]
  /\ data' = [data EXCEPT ![d][place[d] + 1] = file[place[d] + 1]]
  /\ UNCHANGED <<directory, file, uploadVars, download, source>>

\* All is read, or the file has become shorter; the blanks are sent as well.
Send(d) ==
  /\ download[d] = "measured"
  /\ place[d] >= Len(data[d]) \/ place[d] >= Len(file)
  /\ download' = [download EXCEPT ![d] = "done"]
  /\ UNCHANGED <<directory, file, uploadVars, data, place, source>>

-----------------------------------------------------------------------------

\* The process is lost; what was written stays.  It is started again.
ProcessLost ==
  /\ upload' = [u \in Uploads |-> IF upload[u] = "open" THEN "lost" ELSE upload[u]]
  /\ mixed' = mixed \cup Writing
  /\ UNCHANGED <<directory, file, written, latest, data, place, source>>

\* A missing file has the size -1, and no string can be that long.
OpenThrows(d) ==
  /\ download[d] = "ready" /\ (~directory \/ latest = "none")
  /\ download' = [e \in Downloads |->
       IF e = d THEN "threw" ELSE IF e \in Reading THEN "lost" ELSE download[e]]
  /\ ProcessLost

Lost ==
  /\ Writing # {} \/ Reading # {}
  /\ download' = [e \in Downloads |-> IF e \in Reading THEN "lost" ELSE download[e]]
  /\ ProcessLost

Next ==
  \/ \E u \in Uploads : OpenForWriting(u) \/ WriteUnit(u) \/ Close(u)
  \/ \E d \in Downloads :
       OpenForReading(d) \/ Measure(d) \/ ReadUnit(d) \/ Send(d) \/ OpenThrows(d)
  \/ Lost

Spec == Init /\ [][Next]_vars

-----------------------------------------------------------------------------
(* Properties.                                                             *)

\* Every variable has its type.
TypeOK ==
  /\ directory \in BOOLEAN
  /\ file \in Seq(Uploads \cup {"blank"})
  /\ upload \in [Uploads -> {"ready", "open", "done", "lost"}]
  /\ written \in [Uploads -> Nat] /\ place \in [Downloads -> Nat]
  /\ latest \in Uploads \cup {"none"} /\ mixed \subseteq Uploads
  /\ download \in [Downloads -> {"ready", "open", "measured", "done", "threw", "lost"}]
  /\ data \in [Downloads -> Seq(Uploads \cup {"blank"})]
  /\ source \in [Downloads -> Uploads \cup {"none"}]

\* An upload that was alone replaces whatever was there, longer images and the
\* remains of mixed or lost uploads too: the file is its image to the last unit.
LatestIsWhole ==
  \A u \in Uploads :
    directory /\ latest = u /\ upload[u] = "done" /\ u \notin mixed => file = Image(u)

\* A download that starts on such a file, and that no upload disturbs, delivers it as
\* it is, however many connections download it: measuring and reading agree.
UndisturbedIsWhole ==
  \A d \in Downloads :
    download[d] = "done" /\ source[d] # "none" => data[d] = Image(source[d])
================================================================================
