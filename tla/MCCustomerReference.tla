------------------------ MODULE MCCustomerReference ------------------------
(***************************************************************************)
(* CustomerReference on tables of a few rows.                              *)
(***************************************************************************)
EXTENDS CustomerReference

\* One such as "ACME", which the serializer accepts.
MCWord == [number |-> NoNumber, form |-> "CL-0"]

MCSupplied == {Reference(2), MCWord}
MCNone == {}

MCOne == {Reference(1)}
MCTwo == {Reference(1), MCWord}
=============================================================================
