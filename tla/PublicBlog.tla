---------------------------- MODULE PublicBlog -----------------------------
(***************************************************************************)
(* What the blog promises about posts, without requests, statements,       *)
(* clocks or failures: a post is added under a slug nobody ever had, may   *)
(* be shown to and hidden from the public any number of times, and once    *)
(* removed stays removed.  Each is one indivisible step.                   *)
(***************************************************************************)
CONSTANTS PostIds, Slugs

VARIABLES
  slugOf,  \* the slug of every post ever added
  shown,   \* the posts the public sees
  removed  \* the posts removed for good

bvars == <<slugOf, shown, removed>>

Used == {slugOf[p] : p \in DOMAIN slugOf}

Add(p, s) ==
  /\ p \notin DOMAIN slugOf /\ s \notin Used
  /\ slugOf' = [q \in DOMAIN slugOf \cup {p} |-> IF q = p THEN s ELSE slugOf[q]]
  /\ shown' \in {shown, shown \cup {p}}
  /\ UNCHANGED removed

Show(p) ==
  /\ p \in DOMAIN slugOf \ removed
  /\ shown' = shown \cup {p}
  /\ UNCHANGED <<slugOf, removed>>

Hide(p) ==
  /\ p \in DOMAIN slugOf \ removed
  /\ shown' = shown \ {p}
  /\ UNCHANGED <<slugOf, removed>>

Remove(p) ==
  /\ p \in DOMAIN slugOf \ removed
  /\ removed' = removed \cup {p}
  /\ shown' = shown \ {p}
  /\ UNCHANGED slugOf

Init == slugOf = [p \in {} |-> p] /\ shown = {} /\ removed = {}

Next ==
  \E p \in PostIds :
    \/ \E s \in Slugs : Add(p, s)
    \/ Show(p) \/ Hide(p) \/ Remove(p)

Spec == Init /\ [][Next]_bvars
=============================================================================
