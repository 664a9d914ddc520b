------------------------------ MODULE MCDrafts ------------------------------
(***************************************************************************)
(* An instance of Drafts for TLC: an owner, a collaborator and a           *)
(* contribution that proposes another license, or none.                    *)
(***************************************************************************)
EXTENDS Drafts, TLC

CONSTANTS alice, bob, alice1, bob1, free, strict

MCUserOf == [s \in Sessions |-> IF s = bob1 THEN bob ELSE alice]
MCProposals == {[license |-> "same", covers |-> {free}],
                [license |-> strict, covers |-> {free, strict}]}
\* The repository holds what the contribution leads to.
MCPushed == [p \in Pushes |-> [text |-> Contributions, license |-> free]]

\* The draft begins under the free license; it may go to the other one and back.
MCInit == Init /\ License = free
MCSpec == MCInit /\ [][Next]_vars
=============================================================================
