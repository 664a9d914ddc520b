----------------------------- MODULE MCServices -----------------------------
(***************************************************************************)
(* An instance of three components that share no state: the audit log, the *)
(* bindings to GitHub and the editor of a draft.  One of them runs and the *)
(* others stay where they began: what one component does in a behaviour of *)
(* all three, it also does alone.                                          *)
(***************************************************************************)
EXTENDS AuditChain, Bindings, DraftEditor, TLC

CONSTANTS user, log, o1, e1, e2, x1

MCPlans == {<<user, log>>, <<log, user>>, <<log, log>>}
MCObjectOf == e1 :> "scene" @@ x1 :> "scene" @@ e2 :> "title"
MCFirstOwner == [r \in Repos |-> o1]

VARIABLE running

services == <<running, auditVars, bindingsVars, editorVars>>

Init ==
    /\ running \in {"audit", "bindings", "editor"}
    /\ AuditInit /\ BindingsInit /\ EditorInit

Next ==
    /\ UNCHANGED running
    /\ \/ running = "audit" /\ AuditNext /\ UNCHANGED <<bindingsVars, editorVars>>
       \/ running = "bindings" /\ BindingsNext /\ UNCHANGED <<auditVars, editorVars>>
       \/ running = "editor" /\ EditorNext /\ UNCHANGED <<auditVars, bindingsVars>>

\* No fair action of a component is enabled where it began.
Spec == Init /\ [][Next]_services /\ AuditFairness /\ BindingsFairness
=============================================================================
