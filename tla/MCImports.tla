----------------------------- MODULE MCImports -----------------------------
(***************************************************************************)
(* An instance of Uploads and Imports for TLC: an upload whose content a   *)
(* scanner may recognise, and an import that asks for a name.              *)
(***************************************************************************)
EXTENDS Imports, TLC

CONSTANTS card, i1, u1, alice

MCJobs == Uploads \cup Imports
MCContent == [u \in Uploads |-> card]
MCName == [i \in Imports |-> alice]
=============================================================================
