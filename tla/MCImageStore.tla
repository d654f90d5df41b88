----------------------------- MODULE MCImageStore -----------------------------
(***************************************************************************)
(* ImageStore for the model checker, with what the README says of the      *)
(* photos, for the run that refutes it.                                    *)
(***************************************************************************)
EXTENDS ImageStore

\* A short image and longer ones, so that either can come first.
MCUploads == {"u1", "u2", "u3"}
MCTwoUploads == {"u1", "u2"}
MCSize == [u \in {"u1", "u2", "u3"} |-> IF u = "u1" THEN 1 ELSE 2]
MCTwoSizes == [u \in {"u1", "u2"} |-> IF u = "u1" THEN 1 ELSE 2]

\* README.md:2, the application receives, stores and transmits photos: once no upload
\* is under way, and none was lost, the file is one of the photos.
StoredIsAPhoto ==
  directory /\ Writing = {} /\ latest # "none" /\ (\A u \in Uploads : upload[u] # "lost") =>
    \E u \in Uploads : file = Image(u)
================================================================================
