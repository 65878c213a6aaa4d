------------------------------- MODULE Listing -------------------------------
(***************************************************************************)
(* What a directory of spfs promises its readers: it is a list of children *)
(* that grows at its end, and a stream that is opened on it is given the   *)
(* children from the first one on, each once, and comes to its end only    *)
(* after all that were there when it was opened.  A directory may lose its *)
(* children, and a stream may fail; nothing is promised to it from then on *)
(* until it is closed.  Directory.tla is shown to implement this           *)
(* specification.                                                          *)
(***************************************************************************)
EXTENDS Naturals, Sequences

CONSTANTS
    Streams,   \* the open directories
    Child      \* what a directory can contain

VARIABLES
    entries,   \* the children, in the order of their creation
    given,     \* what each stream has been given
    due,       \* how many children it has to be given before its end
    sound      \* it has not failed

list_vars == <<entries, given, due, sound>>

ListInit ==
    /\ entries = << >>
    /\ given = [s \in Streams |-> << >>]
    /\ due = [s \in Streams |-> 0]
    /\ sound = [s \in Streams |-> TRUE]

\* A child is added behind the others.
Insert(c) ==
    /\ \A i \in 1 .. Len(entries) : entries[i] # c
    /\ entries' = Append(entries, c)
    /\ UNCHANGED <<given, due, sound>>

\* Streams that were told about the children in the directory.
Informed == {s \in Streams : given[s] # << >> \/ due[s] # 0}

\* The children are lost, all but a new one; the streams in S notice.
Replace(children, S) ==
    /\ Informed \subseteq S
    /\ entries' = children
    /\ given' = [s \in Streams |-> IF s \in S THEN << >> ELSE given[s]]
    /\ due' = [s \in Streams |-> IF s \in S THEN 0 ELSE due[s]]
    /\ sound' = [s \in Streams |-> IF s \in S THEN FALSE ELSE sound[s]]

Open(s) ==
    /\ sound[s] /\ given[s] = << >>
    /\ due' = [due EXCEPT ![s] = Len(entries)]
    /\ UNCHANGED <<entries, given, sound>>

\* The next child that the stream does not have yet.
Give(s) ==
    /\ sound[s] /\ Len(given[s]) < Len(entries)
    /\ given' = [given EXCEPT ![s] = Append(@, entries[Len(@) + 1])]
    /\ UNCHANGED <<entries, due, sound>>

Fail(s) ==
    /\ given' = [given EXCEPT ![s] = << >>]
    /\ due' = [due EXCEPT ![s] = 0]
    /\ sound' = [sound EXCEPT ![s] = FALSE]
    /\ UNCHANGED entries

\* The stream has come to its end.
Close(s) ==
    /\ sound[s] => Len(given[s]) >= due[s]
    /\ given' = [given EXCEPT ![s] = << >>]
    /\ due' = [due EXCEPT ![s] = 0]
    /\ sound' = [sound EXCEPT ![s] = TRUE]
    /\ UNCHANGED entries

ListNext ==
    \/ \E c \in Child : Insert(c)
    \/ \E children \in {<< >>} \cup {<<c>> : c \in Child}, S \in SUBSET Streams :
          Replace(children, S)
    \/ \E s \in Streams : Open(s) \/ Give(s) \/ Fail(s) \/ Close(s)

ListSpec == ListInit /\ [][ListNext]_list_vars

=============================================================================
