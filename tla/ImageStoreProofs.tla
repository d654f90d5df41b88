--------------------------- MODULE ImageStoreProofs ---------------------------
(***************************************************************************)
(* The safety of ImageStore, for any uploads, downloads and sizes.         *)
(***************************************************************************)
EXTENDS ImageStore, SequenceTheorems, TLAPS

Content == Uploads \cup {"blank"}

\* Where each upload is; two that are under way at once are both mixed.
UploadsInv ==
  /\ \A u \in Uploads :
       /\ upload[u] = "lost" => u \in mixed
       /\ upload[u] = "done" => written[u] = Size[u]
       /\ upload[u] = "ready" => written[u] = 0 /\ latest # u
  /\ \A u, v \in Uploads :
       upload[u] = "open" /\ upload[v] = "open" /\ u # v => u \in mixed

\* The file is what the latest upload has written so far, if it is alone.
FileInv ==
  \A u \in Uploads :
    directory /\ latest = u /\ u \notin mixed =>
      /\ \A v \in Uploads : upload[v] = "open" => v = u
      /\ Len(file) = written[u]
      /\ \A i \in 1..written[u] : file[i] = u

\* An undisturbed download has its source before it, and has read a part of it.
DownloadsInv ==
  \A d \in Downloads :
    /\ download[d] \in {"ready", "open"} => place[d] = 0
    /\ source[d] # "none" /\ download[d] \in {"open", "measured"} =>
         /\ directory /\ latest = source[d] /\ source[d] \notin mixed
         /\ \A v \in Uploads : upload[v] # "open"
         /\ upload[source[d]] = "done"
    /\ source[d] # "none" /\ download[d] = "measured" =>
         /\ Len(data[d]) = Size[source[d]]
         /\ \A i \in 1..Size[source[d]] : i <= place[d] => data[d][i] = source[d]
    /\ source[d] # "none" /\ download[d] = "done" =>
         /\ Len(data[d]) = Size[source[d]]
         /\ \A i \in 1..Size[source[d]] : data[d][i] = source[d]

Facts == UploadsInv /\ FileInv /\ DownloadsInv

IInv == TypeOK /\ Facts

-------------------------------------------------------------------------------
(* Every variable keeps its type.                                          *)

LEMMA TypeInit == Init => TypeOK
  <1> SUFFICES ASSUME Init PROVE TypeOK
    OBVIOUS
  <1>1. <<>> \in Seq(Content) /\ file = <<>>
    BY DEF Init
  <1>2. data \in [Downloads -> Seq(Content)]
    BY <1>1 DEF Init
  <1>3. upload \in [Uploads -> {"ready", "open", "done", "lost"}]
        /\ written \in [Uploads -> Nat] /\ place \in [Downloads -> Nat]
        /\ source \in [Downloads -> Uploads \cup {"none"}]
        /\ latest \in Uploads \cup {"none"} /\ mixed \subseteq Uploads
    BY DEF Init
  <1>4. download \in [Downloads -> {"ready", "open", "measured", "done", "threw", "lost"}]
    BY DEF Init
  <1> QED
    BY <1>1, <1>2, <1>3, <1>4 DEF Init, TypeOK, Content

LEMMA TypeNext == TypeOK /\ [Next]_vars => TypeOK'
  <1> SUFFICES ASSUME TypeOK, [Next]_vars PROVE TypeOK'
    OBVIOUS
  <1> USE ImageStoreAssumption DEF uploadVars, downloadVars
  <1>1. ASSUME NEW u \in Uploads, OpenForWriting(u) PROVE TypeOK'
    BY <1>1 DEF OpenForWriting, TypeOK, Disturbed, Writing
  <1>2. ASSUME NEW u \in Uploads, WriteUnit(u) PROVE TypeOK'
    <2>1. written[u] \in Nat /\ Len(file) \in Nat
          /\ \A i \in 1..Len(file) : file[i] \in Content
      BY DEF TypeOK, Content
    <2>2. written' = [written EXCEPT ![u] = @ + 1] /\ written' \in [Uploads -> Nat]
      BY <1>2, <2>1 DEF WriteUnit, TypeOK
    <2>3. file' \in Seq(Content)
      <3> DEFINE n == IF Len(file) > written[u] THEN Len(file) ELSE written'[u]
      <3>1. n \in Nat
        BY <2>1, <2>2 DEF TypeOK
      <3>2. CASE directory
        <4>1. file' \in [1..n -> Content]
          BY <1>2, <2>1, <3>2 DEF WriteUnit, Content
        <4> QED
          BY <3>1, <4>1, SeqDef
      <3>3. CASE ~directory
        BY <1>2, <3>3 DEF WriteUnit, TypeOK, Content
      <3> QED
        BY <3>2, <3>3
    <2> QED
      BY <1>2, <2>2, <2>3 DEF WriteUnit, TypeOK, Content
  <1>3. ASSUME NEW u \in Uploads, Close(u) PROVE TypeOK'
    BY <1>3 DEF Close, TypeOK
  <1>4. ASSUME NEW d \in Downloads, OpenForReading(d) PROVE TypeOK'
    BY <1>4 DEF OpenForReading, TypeOK
  <1>5. ASSUME NEW d \in Downloads, Measure(d) PROVE TypeOK'
    <2>1. [i \in 1..Len(file) |-> "blank"] \in Seq(Content)
      BY SeqDef DEF TypeOK, Content
    <2> QED
      BY <1>5, <2>1 DEF Measure, TypeOK, Content
  <1>6. ASSUME NEW d \in Downloads, ReadUnit(d) PROVE TypeOK'
    <2>1. place[d] \in Nat /\ place[d] + 1 \in 1..Len(data[d])
          /\ file[place[d] + 1] \in Content /\ data[d] \in Seq(Content)
      BY <1>6 DEF ReadUnit, TypeOK, Content
    <2>2. [data[d] EXCEPT ![place[d] + 1] = file[place[d] + 1]] \in Seq(Content)
      BY <2>1, ExceptSeq
    <2>3. data' \in [Downloads -> Seq(Content)]
      BY <1>6, <2>2 DEF ReadUnit, TypeOK, Content
    <2> QED
      BY <1>6, <2>1, <2>3 DEF ReadUnit, TypeOK, Content
  <1>7. ASSUME NEW d \in Downloads, Send(d) PROVE TypeOK'
    BY <1>7 DEF Send, TypeOK
  <1>8. ASSUME NEW d \in Downloads, OpenThrows(d) PROVE TypeOK'
    BY <1>8 DEF OpenThrows, ProcessLost, Writing, TypeOK
  <1>9. CASE Lost
    BY <1>9 DEF Lost, ProcessLost, Writing, TypeOK
  <1>10. CASE UNCHANGED vars
    BY <1>10 DEF vars, TypeOK
  <1> QED
    BY <1>1, <1>2, <1>3, <1>4, <1>5, <1>6, <1>7, <1>8, <1>9, <1>10 DEF Next

-------------------------------------------------------------------------------
(* The facts are kept.                                                     *)

LEMMA InitFacts == Init => Facts
  BY ImageStoreAssumption DEF Init, Facts, UploadsInv, FileInv, DownloadsInv

LEMMA OpenForWritingFacts ==
  ASSUME IInv, NEW u \in Uploads, OpenForWriting(u)
  PROVE  Facts'
  <1> USE ImageStoreAssumption DEF IInv, Facts, TypeOK, OpenForWriting, Writing
  <1>1. UploadsInv'
    BY DEF UploadsInv
  <1>2. FileInv'
    BY DEF UploadsInv, FileInv
  <1>3. DownloadsInv'
    BY DEF DownloadsInv, Disturbed, Reading
  <1> QED
    BY <1>1, <1>2, <1>3

LEMMA WriteUnitFacts ==
  ASSUME IInv, NEW u \in Uploads, WriteUnit(u)
  PROVE  Facts'
  <1> USE ImageStoreAssumption DEF IInv, Facts, TypeOK, WriteUnit, downloadVars
  <1>1. UploadsInv'
    BY DEF UploadsInv
  <1>2. FileInv'
    <2> SUFFICES ASSUME NEW v \in Uploads, directory, latest = v, v \notin mixed
                 PROVE  /\ \A w \in Uploads : upload'[w] = "open" => w = v
                        /\ Len(file') = written'[v]
                        /\ \A i \in 1..written'[v] : file'[i] = v
      BY DEF FileInv
    <2>1. u = v /\ Len(file) = written[v] /\ written[v] \in Nat
          /\ \A i \in 1..written[v] : file[i] = v
      BY DEF FileInv
    <2>2. written'[v] = written[v] + 1
      BY <2>1
    <2>3. file' = [i \in 1..written'[v] |->
                     IF i = written'[v] THEN v
                     ELSE IF i <= Len(file) THEN file[i] ELSE "blank"]
      BY <2>1
    <2>4. \A w \in Uploads : upload'[w] = "open" => w = v
      BY DEF FileInv
    <2> HIDE DEF WriteUnit, IInv
    <2>5. Len(file') = written'[v]
      BY <2>1, <2>2, <2>3
    <2> QED
      BY <2>1, <2>2, <2>3, <2>4, <2>5
  <1>3. DownloadsInv'
    BY DEF DownloadsInv
  <1> QED
    BY <1>1, <1>2, <1>3

LEMMA CloseFacts ==
  ASSUME IInv, NEW u \in Uploads, Close(u)
  PROVE  Facts'
  BY ImageStoreAssumption
  DEF IInv, Facts, TypeOK, Close, UploadsInv, FileInv, DownloadsInv, downloadVars

LEMMA OpenForReadingFacts ==
  ASSUME IInv, NEW d \in Downloads, OpenForReading(d)
  PROVE  Facts'
  <1> USE ImageStoreAssumption DEF IInv, Facts, TypeOK, OpenForReading, uploadVars
  <1>1. UploadsInv' /\ FileInv'
    BY DEF UploadsInv, FileInv
  <1>2. DownloadsInv'
    BY DEF UploadsInv, DownloadsInv, Writing
  <1> QED
    BY <1>1, <1>2

LEMMA MeasureFacts ==
  ASSUME IInv, NEW d \in Downloads, Measure(d)
  PROVE  Facts'
  <1> USE ImageStoreAssumption DEF IInv, Facts, TypeOK, Measure, uploadVars
  <1>1. UploadsInv' /\ FileInv'
    BY DEF UploadsInv, FileInv
  <1>2. DownloadsInv'
    <2>1. source[d] # "none" => Len(file) = Size[source[d]]
      BY DEF UploadsInv, FileInv, DownloadsInv
    <2>2. Len(data'[d]) = Len(file) /\ place[d] = 0 /\ download'[d] = "measured"
      BY DEF DownloadsInv
    <2>3. \A e \in Downloads \ {d} : data'[e] = data[e] /\ download'[e] = download[e]
      OBVIOUS
    <2> QED
      BY <2>1, <2>2, <2>3 DEF DownloadsInv
  <1> QED
    BY <1>1, <1>2

LEMMA ReadUnitFacts ==
  ASSUME IInv, NEW d \in Downloads, ReadUnit(d)
  PROVE  Facts'
  <1> USE ImageStoreAssumption DEF IInv, Facts, TypeOK, ReadUnit, uploadVars
  <1>1. UploadsInv' /\ FileInv'
    BY DEF UploadsInv, FileInv
  <1>2. DownloadsInv'
    <2> DEFINE p == place[d] + 1
    <2>1. p \in 1..Len(data[d]) /\ p \in 1..Len(file) /\ place'[d] = p
      OBVIOUS
    <2>2. source[d] # "none" => file[p] = source[d]
      BY <2>1 DEF UploadsInv, FileInv, DownloadsInv
    <2>3. Len(data'[d]) = Len(data[d]) /\ data'[d][p] = file[p]
          /\ \A i \in 1..Len(data[d]) : i # p => data'[d][i] = data[d][i]
      BY <2>1
    <2>4. \A e \in Downloads \ {d} : data'[e] = data[e] /\ place'[e] = place[e]
      OBVIOUS
    <2> QED
      BY <2>1, <2>2, <2>3, <2>4 DEF DownloadsInv
  <1> QED
    BY <1>1, <1>2

LEMMA SendFacts ==
  ASSUME IInv, NEW d \in Downloads, Send(d)
  PROVE  Facts'
  <1> USE ImageStoreAssumption DEF IInv, Facts, TypeOK, Send, uploadVars
  <1>1. UploadsInv' /\ FileInv'
    BY DEF UploadsInv, FileInv
  <1>2. source[d] # "none" => place[d] >= Size[source[d]]
    BY DEF UploadsInv, FileInv, DownloadsInv
  <1>3. DownloadsInv'
    BY <1>2 DEF DownloadsInv
  <1> QED
    BY <1>1, <1>3

LEMMA LostFacts ==
  ASSUME IInv, ProcessLost,
         \A d \in Downloads :
           download'[d] \in {"threw", "lost"} \/ download'[d] = download[d],
         \A d \in Downloads : download'[d] \notin {"open", "measured"}
  PROVE  Facts'
  <1> USE ImageStoreAssumption DEF IInv, Facts, TypeOK, ProcessLost, Writing
  <1>1. UploadsInv'
    BY DEF UploadsInv
  <1>2. FileInv'
    BY DEF FileInv
  <1>3. DownloadsInv'
    BY DEF DownloadsInv
  <1> QED
    BY <1>1, <1>2, <1>3

LEMMA NextInv == IInv /\ [Next]_vars => IInv'
  <1> SUFFICES ASSUME IInv, [Next]_vars PROVE Facts'
    BY TypeNext DEF IInv
  <1>1. ASSUME NEW d \in Downloads, OpenThrows(d) PROVE Facts'
    BY <1>1, LostFacts DEF OpenThrows, Reading, IInv, TypeOK
  <1>2. CASE Lost
    BY <1>2, LostFacts DEF Lost, Reading, IInv, TypeOK
  <1>3. CASE UNCHANGED vars
    BY <1>3 DEF vars, uploadVars, downloadVars, IInv, Facts, UploadsInv, FileInv, DownloadsInv
  <1> QED
    BY <1>1, <1>2, <1>3, OpenForWritingFacts, WriteUnitFacts, CloseFacts,
       OpenForReadingFacts, MeasureFacts, ReadUnitFacts, SendFacts DEF Next

LEMMA SpecInv == Spec => []IInv
  <1>1. Init => IInv
    BY TypeInit, InitFacts DEF IInv
  <1> QED
    BY <1>1, NextInv, PTL DEF Spec

\* Every variable of the image file and its users has its type
\* (lfrconnection.cpp:375-403).
THEOREM TypeCorrect == Spec => []TypeOK
  <1>1. IInv => TypeOK
    BY DEF IInv
  <1> QED
    BY <1>1, SpecInv, PTL

\* After an upload that was alone the file is its image, whatever was in it before
\* (lfrconnection.cpp:375-380).
THEOREM LatestWhole == Spec => []LatestIsWhole
  <1>1. IInv => LatestIsWhole
    <2> SUFFICES ASSUME IInv, NEW u \in Uploads, directory, latest = u,
                        upload[u] = "done", u \notin mixed
                 PROVE  file = Image(u)
      BY DEF LatestIsWhole
    <2>1. Len(file) = Size[u] /\ \A i \in 1..Size[u] : file[i] = u
      BY DEF IInv, Facts, UploadsInv, FileInv
    <2> QED
      BY <2>1 DEF Image, IInv, TypeOK
  <1> QED
    BY <1>1, SpecInv, PTL

\* A download that no upload disturbs delivers the image that is in the file
\* (lfrconnection.cpp:382-403).
THEOREM UndisturbedWhole == Spec => []UndisturbedIsWhole
  <1>1. IInv => UndisturbedIsWhole
    <2> SUFFICES ASSUME IInv, NEW d \in Downloads, download[d] = "done", source[d] # "none"
                 PROVE  data[d] = Image(source[d])
      BY DEF UndisturbedIsWhole
    <2>1. Len(data[d]) = Size[source[d]]
          /\ \A i \in 1..Size[source[d]] : data[d][i] = source[d]
      BY DEF IInv, Facts, DownloadsInv
    <2> QED
      BY <2>1 DEF Image, IInv, TypeOK
  <1> QED
    BY <1>1, SpecInv, PTL
===============================================================================
