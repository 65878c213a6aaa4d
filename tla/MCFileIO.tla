------------------------------ MODULE MCFileIO -------------------------------
(* Instances of FileIO for TLC. *)
EXTENDS FileIO

\* Found, not found, and an error of the device.
AnyResult == {0, 1}

\* What a tree that has no entry answers.
NotFound == {1}
=============================================================================
