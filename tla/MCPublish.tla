----------------------------- MODULE MCPublish -----------------------------
(* Instances of Publish for TLC. *)
EXTENDS Publish, TLC

Symmetry == Permutations(Requests) \cup Permutations(Releases) \cup Permutations(Labels)
            \cup Permutations(Revisions) \cup Permutations(Keys)
            \cup Permutations(Visibilities) \cup Permutations(Workers)
=============================================================================
