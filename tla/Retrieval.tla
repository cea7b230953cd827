------------------------------ MODULE Retrieval ------------------------------
(* How core-api merges the results of its two searches, the nearest vectors and
   the best full-text matches, into the sources of a prompt. *)
EXTENDS Lists, FiniteSets, FiniteSetsExt

RrfK == 60

(* Lists a search over these chunks may return: at most n, none of them twice. *)
Rankings(chunks, n) ==
  UNION {{s \in [1..i -> chunks] : \A a, b \in 1..i : s[a] = s[b] => a = b} : i \in 0..n}

(* 1 / (RrfK + rank) as a whole number: every fraction over one denominator. *)
Denominator(n) ==
  LET product[r \in 0..n] == IF r = 0 THEN 1 ELSE product[r - 1] * (RrfK + r)
  IN product[n]

Rank(s, x) == CHOOSE i \in DOMAIN s : s[i] = x

Share(s, x, n) == IF Contains(s, x) THEN Denominator(n) \div (RrfK + Rank(s, x)) ELSE 0

(* Mutant: the two lists are put one after the other, without their scores. *)
Concatenate(semantic, lexical, limit) ==
  LET both == semantic \o lexical
  IN SubSeq(both, 1, IF Len(both) < limit THEN Len(both) ELSE limit)

(* The chunks of both lists as they are first seen. *)
Seen(semantic, lexical) == semantic \o Kept(lexical, Range(lexical) \ Range(semantic))

(* The scores of both lists are added; equal scores keep the order in which the
   chunks were first seen. *)
Precedence(semantic, lexical) ==
  LET n == Len(semantic) + Len(lexical)
      seen == Seen(semantic, lexical)
      Score(x) == Share(semantic, x, n) + Share(lexical, x, n)
      Before(x, y) == \/ Score(x) > Score(y)
                      \/ Score(x) = Score(y) /\ Rank(seen, x) < Rank(seen, y)
  IN {pair \in Range(seen) \X Range(seen) : Before(pair[1], pair[2])}

(* A set as a list: the place of an element is the number of those before it. *)
Ordered(set, before) ==
  [i \in 1..Cardinality(set) |->
     CHOOSE x \in set : Cardinality({y \in set : <<y, x>> \in before}) = i - 1]

Rrf(semantic, lexical) ==
  Ordered(Range(Seen(semantic, lexical)), Precedence(semantic, lexical))

(* The best of them; a source's place is the number it is cited by. *)
Fuse(semantic, lexical, limit) ==
  LET fused == Rrf(semantic, lexical)
  IN SubSeq(fused, 1, IF Len(fused) < limit THEN Len(fused) ELSE limit)
=============================================================================
