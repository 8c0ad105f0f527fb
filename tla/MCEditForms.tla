---------------------------- MODULE MCEditForms ----------------------------
(* Small instances of EditForms for TLC. *)
EXTENDS EditForms, TLC

\* Leading blanks are trimmed, and a text of blanks is blank.
MCTrim == [t \in Text \cup {""} |-> CASE t = " old" -> "old" [] t = " " -> ""
                                      [] OTHER -> t]

\* Devices and sites that do not exist yet are interchangeable, and no property
\* is a temporal one.
Symmetric == Permutations(Device \ {Camera}) \cup Permutations(Site \ {Home})
=============================================================================
