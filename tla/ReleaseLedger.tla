--------------------------- MODULE ReleaseLedger ---------------------------
(***************************************************************************)
(* What publishing promises about one creation: a label is reserved by one *)
(* release at a time, the reservation either becomes permanent with the    *)
(* content it was made for or is given back, and the creation's newest     *)
(* release is the one that was made permanent last.                        *)
(* Source: the rules at the head of registry/publish.ts and of             *)
(* db/schema/releases.ts.                                                  *)
(***************************************************************************)
CONSTANTS Labels, Releases, Revisions, None

VARIABLES slot,     \* label -> the release that holds it, or Free
          newest    \* the release published last, or None

vars == <<slot, newest>>

Free == [state |-> "free"]
Held(r, v, s) == [release |-> r, content |-> v, state |-> s]

Init == /\ slot = [l \in Labels |-> Free]
        /\ newest = None

\* A free label is reserved for content v under the release id r.
Reserve(l, r, v) ==
    /\ slot[l] = Free
    /\ \A k \in Labels : slot[k] # Free => slot[k].release # r
    /\ slot' = [slot EXCEPT ![l] = Held(r, v, "pending")]
    /\ UNCHANGED newest

\* The reservation becomes permanent, with the content it was made for.
Publish(l) ==
    /\ slot[l].state = "pending"
    /\ slot' = [slot EXCEPT ![l].state = "done"]
    /\ newest' = slot[l].release

\* The build failed: the label can be reserved again.
GiveBack(l) ==
    /\ slot[l].state = "pending"
    /\ slot' = [slot EXCEPT ![l] = Free]
    /\ UNCHANGED newest

Next == \E l \in Labels :
            \/ \E r \in Releases, v \in Revisions : Reserve(l, r, v)
            \/ Publish(l)
            \/ GiveBack(l)

Spec == Init /\ [][Next]_vars
=============================================================================
