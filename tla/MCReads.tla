------------------------------ MODULE MCReads ------------------------------
(***************************************************************************)
(* The two halves of reading posts, side by side: lists of up to three     *)
(* rows with two keys, in a program whose ints have five bits; and titles  *)
(* of up to six runes, of which e folds to itself, ss to two letters,      *)
(* dot to nothing and acute is a combining mark.  The halves share nothing,*)
(* so one steps only while the other is where it started.                  *)
(***************************************************************************)
EXTENDS Listing, Slugs

CONSTANTS e, ss, dot, acute

MCRawPages == {-1, 1, 2, 3, 8, 12, 15, 99}
MCRawLimits == {0, 1, 2, 3, 4, 99}

MCRunes == {e, ss, dot, acute}
MCFold == [r \in MCRunes |-> CASE r = e -> <<e>> [] r = ss -> <<ss, ss>> [] OTHER -> <<>>]
MCItoa == [n \in 1 .. 12 |-> IF n < 10 THEN <<n>> ELSE <<n \div 10, n % 10>>]

MCInit == Init /\ SlugInit

ListingStep == title = <<>> /\ slug = NotYet /\ Next /\ UNCHANGED slugVars
SlugStep == pc = "idle" /\ present = {} /\ answer = NoAnswer /\ SlugNext /\ UNCHANGED vars

MCNext == ListingStep \/ SlugStep

MCSpec == MCInit /\ [][MCNext]_<<vars, slugVars>>
=============================================================================
