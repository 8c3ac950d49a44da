------------------------------- MODULE Globs -------------------------------
(***************************************************************************)
(* Glob patterns as lists of tokens (scripts/policy_boundary.py _tokenize) *)
(* and the offline comparison of two of them.  A subject is a sequence of  *)
(* characters.  Case and the spelling of a bracket class are left out.     *)
(***************************************************************************)
EXTENDS Naturals, Sequences

Lit(c)    == [kind |-> "lit",   chars |-> {c}]
Class(cs) == [kind |-> "class", chars |-> cs]
One       == [kind |-> "one",   chars |-> {}]
Star      == [kind |-> "star",  chars |-> {}]
Tokens    == [kind : {"lit", "class", "one", "star"}, chars : SUBSET STRING]

(* _tokenize writes a run of stars as one.                                 *)
Tokenized(glob) ==
  \A i \in DOMAIN glob : i > 1 /\ glob[i] = Star => glob[i - 1] # Star

(* A glob against a list of n items: a star takes any number of them, any  *)
(* other token one, that fits it.                                          *)
Walk(glob, n, fits) ==
  LET passes[at \in (1..(Len(glob) + 1)) \X (1..(n + 1))] ==
        LET j == at[1]
            i == at[2]
        IN  IF j > Len(glob) THEN i > n
            ELSE \/ /\ glob[j] = Star
                    /\ passes[<<j + 1, i>>] \/ (i <= n /\ passes[<<j, i + 1>>])
                 \/ /\ glob[j] # Star /\ i <= n /\ <<j, i>> \in fits
                    /\ passes[<<j + 1, i + 1>>]
  IN  passes[<<1, 1>>]

Pairs(s, t) == (DOMAIN s) \X (DOMAIN t)

(* fnmatchcase: what a pattern accepts.                                    *)
GlobMatches(glob, subject) ==
  Walk(glob, Len(subject),
       {at \in Pairs(glob, subject) :
          glob[at[1]] = One \/ subject[at[2]] \in glob[at[1]].chars})

(* A token of the boundary that is no star, against one of the candidate.  *)
(* Two classes are compared by their text.                                 *)
TokenCovers(b, p) ==
  /\ p # Star
  /\ \/ b = One
     \/ p = b
     \/ b.kind = "class" /\ p.kind = "lit" /\ p.chars \subseteq b.chars

(* True only if every subject of candidate is one of boundary: not proven  *)
(* is no.                                                                  *)
GlobSubsumes(boundary, candidate) ==
  Walk(boundary, Len(candidate),
       {at \in Pairs(boundary, candidate) :
          TokenCovers(boundary[at[1]], candidate[at[2]])})
=============================================================================
