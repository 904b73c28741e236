---------------------------- MODULE ImageCustody ----------------------------
(***************************************************************************)
(* What scale/rotation.py promises about images, with no process, lock,    *)
(* lease file or docker command in it.  An image is in the custody of at   *)
(* most one user.  A user may come to rely on a resident image in its      *)
(* custody; while it does, the image stays resident and in custody.        *)
(* Everything not in custody may be evicted at any moment.  A crash ends   *)
(* every reliance and every custody at once and leaves the images behind.  *)
(***************************************************************************)
CONSTANT Ref                    \* images of the harness's registry namespace

VARIABLES resident,             \* images on the host
          owned,                \* images in the custody of a live user
          relied                \* images a live user is working inside

vars == <<resident, owned, relied>>

TypeOK == /\ resident \subseteq Ref
          /\ owned \subseteq Ref
          /\ relied \subseteq Ref

\* The point of custody: what a live user works inside is there, and is its own.
Custody == relied \subseteq resident \cap owned

Init == /\ resident \in SUBSET Ref      \* whatever earlier runs left behind
        /\ owned = {}
        /\ relied = {}

Own(r) == /\ r \notin owned
          /\ owned' = owned \cup {r}
          /\ UNCHANGED <<resident, relied>>

\* A pull ends; it may be one whose user is gone.
Land(r) == /\ resident' = resident \cup {r}
           /\ UNCHANGED <<owned, relied>>

Rely(r) == /\ r \in resident \cap owned
           /\ relied' = relied \cup {r}
           /\ UNCHANGED <<resident, owned>>

StopRelying(r) == /\ relied' = relied \ {r}
                  /\ UNCHANGED <<resident, owned>>

\* Removal by the sweep (nobody's image) or by the owner once it has finished.
Evict(r) == /\ r \notin relied
            /\ resident' = resident \ {r}
            /\ UNCHANGED <<owned, relied>>

Disown(r) == /\ r \notin relied
             /\ owned' = owned \ {r}
             /\ UNCHANGED <<resident, relied>>

\* An owner's removal of its image and the end of its custody, in one step.
Return(r) == /\ r \notin relied
             /\ resident' = resident \ {r}
             /\ owned' = owned \ {r}
             /\ UNCHANGED relied

StopAll == /\ relied' = {}
           /\ UNCHANGED <<resident, owned>>

Crash == /\ owned' = {}
         /\ relied' = {}
         /\ UNCHANGED resident

Next == \/ \E r \in Ref : \/ Own(r) \/ Land(r) \/ Rely(r) \/ StopRelying(r)
                          \/ Evict(r) \/ Disown(r) \/ Return(r)
        \/ StopAll
        \/ Crash

Spec == Init /\ [][Next]_vars
=============================================================================
