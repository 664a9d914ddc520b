--------------------------- MODULE DraftRegister ---------------------------
(***************************************************************************)
(* What `If-Match` and the version read by a merge promise: the draft is a *)
(* register that is written only by who has seen its present value.  A     *)
(* link is a sight of that value; any write ends all of them, but the      *)
(* writer may keep the sight of what it wrote.                             *)
(* Source: the 409 of PUT draft (api/routes/drafts.ts) and the null of     *)
(* acceptContribution (registry/contributions.ts).                         *)
(***************************************************************************)
CONSTANTS Values, Viewers

VARIABLES value, links

vars == <<value, links>>

Init == value \in Values /\ links = {}

\* A viewer reads the register.
Look(v) == links' = links \cup {v} /\ UNCHANGED value

\* A viewer forgets what it saw.
Forget(v) == links' = links \ {v} /\ UNCHANGED value

\* A viewer replaces what it saw; it may know that it did.
Store(v) == /\ v \in links
            /\ value' \in Values
            /\ links' \subseteq {v}

\* A change that depends on no sight of the whole: the terms an import's owner confirms.
Amend == value' \in Values /\ links' = {}

Next == \/ \E v \in Viewers : Look(v) \/ Forget(v) \/ Store(v)
        \/ Amend

Spec == Init /\ [][Next]_vars
=============================================================================
