--------------------------- MODULE FrameOwnership ---------------------------
(***************************************************************************)
(* What the bootloader's frame allocator promises: every frame of physical *)
(* memory has one owner, only usable frames change owner, and a frame that *)
(* was taken is never given out again.                                     *)
(***************************************************************************)
CONSTANTS Frame, Owner

VARIABLE owner    \* the owner of every frame

Unlisted == "Unlisted"    \* owner of a frame the firmware does not list

Owners == [Frame -> Owner \cup {"Usable", Unlisted}]

Init == owner = [f \in Frame |-> Unlisted]

(* The firmware's list of the memory becomes known. *)
List == Init /\ owner' \in Owners

(* Some usable frames, all at once, get an owner; no other frame changes. *)
Claim ==
    \E o \in Owner :
        /\ owner' \in Owners
        /\ \A f \in Frame :
              owner'[f] # owner[f] => owner[f] = "Usable" /\ owner'[f] = o

Next == List \/ Claim

Spec == Init /\ [][Next]_owner
=============================================================================
