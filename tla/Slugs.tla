------------------------------- MODULE Slugs -------------------------------
(***************************************************************************)
(* Slugify reads the lower-cased title rune by rune; the result, with a    *)
(* number appended if it is taken, is stored by PostService.Create and     *)
(* asked for by GetPublishedBySlug, which first checks that it could be    *)
(* one.  A slug is a sequence over Chars, a rune an element of Runes, of   *)
(* which only its fold matters: ASCII letters and digits fold to           *)
(* themselves, a listed Latin letter to one or two, everything else to     *)
(* nothing.  strconv.Itoa is external.                                     *)
(***************************************************************************)
EXTENDS Naturals, FiniteSetsExt, SequencesExt

CONSTANTS
  Chars, Hyphen,           \* [a-z0-9], and '-'
  Runes, Fold,             \* latinFold, and what needs no folding
  Marks,                   \* the category Mn
  MaxTitle,                \* bound: runes of a title
  MaxSlugBaseLen, MaxSlugLen, MaxSlugAttempts,
  Itoa, NotYet

Alphabet == Chars \cup {Hyphen}

ASSUME SlugsAssumption ==
  /\ Hyphen \notin Chars
  /\ Fold \in [Runes -> Seq(Chars)] /\ Marks \subseteq {r \in Runes : Fold[r] = <<>>}
  /\ MaxSlugBaseLen \in Nat \ {0} /\ MaxSlugLen \in Nat /\ MaxSlugAttempts \in Nat
  /\ MaxSlugBaseLen <= MaxSlugLen
  /\ Itoa \in [1 .. MaxSlugAttempts -> Seq(Chars)]
  /\ \A n, m \in 1 .. MaxSlugAttempts : Itoa[n] = Itoa[m] => n = m
  /\ \A n \in 1 .. MaxSlugAttempts : MaxSlugBaseLen + 1 + Len(Itoa[n]) <= MaxSlugLen
  /\ NotYet \notin Seq(Alphabet)

VARIABLES
  title,                   \* history: the runes read so far
  b, pendingHyphen,        \* the builder, and whether a separator is due
  slug                     \* what Slugify returned

slugVars == <<title, b, pendingHyphen, slug>>

-----------------------------------------------------------------------------
Usable(r) == Fold[r] # <<>>

\* Mutant: a separator is due even if nothing came before it.
KeepFoldsLeading(r) ==
  /\ Usable(r)
  /\ b' = b \o (IF pendingHyphen \/ b = <<>> THEN <<Hyphen>> ELSE <<>>) \o Fold[r]
  /\ pendingHyphen' = FALSE

KeepFolds(r) ==
  /\ Usable(r)
  /\ b' = b \o (IF pendingHyphen THEN <<Hyphen>> ELSE <<>>) \o Fold[r]
  /\ pendingHyphen' = FALSE

\* A combining mark does not split the word it is in.
SkipMark(r) == r \in Marks /\ UNCHANGED <<b, pendingHyphen>>

\* A run of anything else, between letters, is one hyphen.
Separate(r) ==
  /\ ~Usable(r) /\ r \notin Marks
  /\ pendingHyphen' = (b # <<>>)
  /\ UNCHANGED b

Read ==
  /\ slug = NotYet /\ Len(title) < MaxTitle
  /\ \E r \in Runes :
       /\ title' = Append(title, r)
       /\ KeepFolds(r) \/ SkipMark(r) \/ Separate(r)
  /\ UNCHANGED slug

\* strings.TrimRight(s, "-")
TrimRight(s) ==
  LET end == CHOOSE m \in 0 .. Len(s) :
               /\ m > 0 => s[m] # Hyphen
               /\ \A i \in m + 1 .. Len(s) : s[i] = Hyphen
  IN SubSeq(s, 1, end)

\* Mutant: the room for a suffix is forgotten.
CutNothing(s) == IF Len(s) <= MaxSlugLen THEN s ELSE TrimRight(SubSeq(s, 1, MaxSlugLen))

Cut(s) == IF Len(s) <= MaxSlugBaseLen THEN s ELSE TrimRight(SubSeq(s, 1, MaxSlugBaseLen))

Return ==
  /\ slug = NotYet
  /\ slug' = Cut(b)
  /\ UNCHANGED <<title, b, pendingHyphen>>

\* The next title.
Call ==
  /\ slug # NotYet
  /\ title' = <<>> /\ b' = <<>> /\ pendingHyphen' = FALSE /\ slug' = NotYet

WithSuffix(base, n) == IF n <= 1 THEN base ELSE base \o <<Hyphen>> \o Itoa[n]

ValidSlug(s) == s # <<>> /\ Len(s) <= MaxSlugLen /\ \A i \in DOMAIN s : s[i] \in Alphabet

SlugInit ==
  /\ title = <<>>
  /\ b = <<>> /\ pendingHyphen = FALSE
  /\ slug = NotYet

SlugNext == Call \/ Read \/ Return

SlugSpec == SlugInit /\ [][SlugNext]_slugVars

-----------------------------------------------------------------------------
(* Properties *)

\* What a title is refused for: it has no letter or digit.
Empty == \A i \in DOMAIN title : ~Usable(title[i])

\* Some word has ended before place i of the title, and no letter has come since.
Gap(i) == \E k \in 1 .. i - 1 : /\ ~Usable(title[k]) /\ title[k] \notin Marks
                                /\ \E j \in 1 .. k - 1 : Usable(title[j])
                                /\ \A j \in k + 1 .. i - 1 : ~Usable(title[j])

\* What place i of the title contributes: its letters, and the hyphen before a
\* word that is not the first.
Spelling(i) == IF ~Usable(title[i]) THEN <<>>
               ELSE (IF Gap(i) THEN <<Hyphen>> ELSE <<>>) \o Fold[title[i]]

Reference == FlattenSeq([i \in 1 .. Len(title) |-> Spelling(i)])

\* A rune at a time gives what looking at the whole title would: its words
\* joined by single hyphens, cut to the longest prefix that leaves room for a
\* suffix and does not end in a hyphen ("every other run of characters collapsed
\* to a single hyphen, no leading or trailing hyphen").
SlugifyIsReference ==
  slug # NotYet =>
    LET ends == {m \in 1 .. Len(Reference) : m <= MaxSlugBaseLen /\ Reference[m] # Hyphen}
    IN slug = IF ends = {} THEN <<>> ELSE SubSeq(Reference, 1, Max(ends))

\* Every slug that PostService.Create can store, up to its last attempt, is one
\* that GetPublishedBySlug looks up: no post is written that cannot be read.
SlugsReadable ==
  slug # NotYet =>
    /\ slug = <<>> <=> Empty
    /\ slug # <<>> => \A n \in 1 .. MaxSlugAttempts : ValidSlug(WithSuffix(slug, n))
=============================================================================
