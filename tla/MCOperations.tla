----------------------------- MODULE MCOperations -----------------------------
(***************************************************************************)
(* Operations and Listings for TLC.  They share no state, so every          *)
(* behaviour of the two together is one of each; here either the one moves   *)
(* or the other, which keeps TLC from multiplying them.  Callers and peers   *)
(* are interchangeable; so is what is listed, which is therefore numbered    *)
(* from the top of the list as it is when a listing begins, and a last       *)
(* message is the first of Messages until it changes.  The checks of         *)
(* MCConversions are made at the start.                                      *)
(***************************************************************************)
EXTENDS Operations, Listings, MCConversions, TLC

Symmetry == Permutations(Callers) \cup Permutations(Peers)

First == CHOOSE m \in Messages : TRUE

\* Below the dialogs there is a place to sink to.
MCInit ==
    /\ kind \in {"message", "index", "dialog"}
    /\ newest \in 0..Cardinality(Items)
    /\ LET last == IF kind = "dialog" THEN 2 ELSE 1 IN
         stamp = [i \in Items |-> IF i + last <= newest + 1 THEN newest + 1 - i ELSE 0]
    /\ message \in [Items -> {First, NoMessage}]
    /\ \A i \in Items : stamp[i] = 0 \/ kind # "dialog" => message[i] = NoMessage
    /\ Init
    /\ ListingInit

\* Operations start where the listing is at its first, empty beginning.
OperationsOnly ==
    /\ kind = "message" /\ newest = 0 /\ walk = "idle"
    /\ Next
    /\ UNCHANGED listingVars

ListingsOnly ==
    /\ \A c \in Callers : end[c] = "none"
    /\ ListingNext
    /\ UNCHANGED vars

\* A listing that is over stays so, and so does one whose caller asks for no more.
ListingIsOver ==
    /\ walk = "over" \/ (walk = "idle" /\ offset >= MaxRows)
    /\ UNCHANGED <<vars, listingVars>>

MCNext == OperationsOnly \/ ListingsOnly \/ ListingIsOver

MCSpec == MCInit /\ [][MCNext]_<<vars, listingVars>>

MCTypeOK == TypeOK /\ ListingTypeOK
===============================================================================
