----------------------- MODULE EventIdentitiesProofs -----------------------
(***************************************************************************)
(* Theorems about EventIdentities, for every Code a candidate may have,    *)
(* with fields in any order and of any number, and for all events.         *)
(*                                                                         *)
(* First what joining computes: values without the separator can be read   *)
(* back from the text they are joined to, so an identity tells two events  *)
(* apart exactly by the fields it joins.  Then what the judges ask of the  *)
(* fields: the controller's verifier and the repository's tests both ask   *)
(* for what Discerning says, no more and no less.                          *)
(***************************************************************************)
EXTENDS EventIdentities, FiniteSetTheorems, SequenceTheorems,
        WellFoundedInduction, TLAPS

-----------------------------------------------------------------------------
(***************************************************************************)
(* Induction over the natural numbers, said of a set and not of an         *)
(* operator: the numbers that are not in the set would have a least one.   *)
(***************************************************************************)
\* A set of natural numbers has a least element.
LEMMA LeastNumber ==
    ASSUME NEW T \in SUBSET Nat, T # {}
    PROVE  \E n \in T : \A m \in T : n <= m
<1> DEFINE R == OpToRel(<, Nat)
<1>1. IsWellFoundedOn(R, Nat)
  BY NatLessThanWellFounded
<1>2. \A x, y \in Nat : x < y => <<x, y>> \in R
  BY DEF OpToRel
<1> HIDE DEF R
<1>3. PICK x \in T : \A y \in T : ~(<<y, x>> \in R)
  BY <1>1, WFMin, Zenon
<1>4. \A y \in T : ~(y < x)
  BY <1>2, <1>3
<1>5. QED
  BY <1>4

\* A set with 0 and every successor of its numbers has all of them.
LEMMA SetInduction ==
    ASSUME NEW S, 0 \in S, \A n \in Nat : n \in S => n + 1 \in S
    PROVE  Nat \subseteq S
<1> SUFFICES ASSUME Nat \ S # {}
             PROVE  FALSE
  OBVIOUS
<1>1. PICK n \in Nat \ S : \A m \in Nat \ S : n <= m
  BY LeastNumber
<1>2. n # 0 /\ n - 1 \in Nat
  BY <1>1
<1>3. n - 1 \in S
  BY <1>1, <1>2
<1>4. n \in S
  BY <1>2, <1>3
<1>5. QED
  BY <1>1, <1>4

-----------------------------------------------------------------------------
(***************************************************************************)
(* What Join computes.                                                     *)
(***************************************************************************)
\* The text after n parts, given the texts after fewer.
Joined(separator, parts, before, n) ==
    IF n = 0 THEN <<>>
    ELSE IF n = 1 THEN parts[1]
    ELSE (before[n - 1] \o separator) \o parts[n]

\* The defining equation of Prefixes has a solution, up to any length.
LEMMA PrefixesExist ==
    ASSUME NEW sep, NEW parts, NEW m \in Nat
    PROVE  \E f : f = [n \in 0 .. m |-> Joined(sep, parts, f, n)]
<1> DEFINE S == {k \in Nat :
                  \E f : f = [n \in 0 .. k |-> Joined(sep, parts, f, n)]}
<1>1. 0 \in S
  <2> DEFINE g == [n \in 0 .. 0 |-> <<>>]
  <2>1. g = [n \in 0 .. 0 |-> Joined(sep, parts, g, n)]
    BY DEF Joined
  <2>2. QED
    BY <2>1
<1>2. ASSUME NEW k \in Nat, k \in S
      PROVE  k + 1 \in S
  <2>1. PICK f : f = [n \in 0 .. k |-> Joined(sep, parts, f, n)]
    BY <1>2
  <2> DEFINE g == [n \in 0 .. (k + 1) |->
                     IF n <= k THEN f[n] ELSE Joined(sep, parts, f, n)]
  <2>2. \A n \in 0 .. (k + 1) : g[n] = Joined(sep, parts, g, n)
    <3> SUFFICES ASSUME NEW n \in 0 .. (k + 1)
                 PROVE  g[n] = Joined(sep, parts, g, n)
      OBVIOUS
    <3>1. g[n] = Joined(sep, parts, f, n)
      BY <2>1
    <3>2. n > 1 => g[n - 1] = f[n - 1]
      OBVIOUS
    <3> HIDE DEF g
    <3>3. QED
      BY <3>1, <3>2 DEF Joined
  <2>3. g = [n \in 0 .. (k + 1) |-> g[n]]
    OBVIOUS
  <2> HIDE DEF g
  <2>4. g = [n \in 0 .. (k + 1) |-> Joined(sep, parts, g, n)]
    BY <2>2, <2>3
  <2>5. QED
    BY <2>4
<1> HIDE DEF S
<1>3. Nat \subseteq S
  BY <1>1, <1>2, SetInduction
<1>4. QED
  BY <1>3 DEF S

\* Prefixes satisfies its equation.
LEMMA PrefixesDef ==
    ASSUME NEW sep, NEW parts, Len(parts) \in Nat
    PROVE  Prefixes(sep, parts)
             = [n \in 0 .. Len(parts) |->
                  Joined(sep, parts, Prefixes(sep, parts), n)]
<1>1. \E f : f = [n \in 0 .. Len(parts) |-> Joined(sep, parts, f, n)]
  BY PrefixesExist
<1>2. Prefixes(sep, parts)
        = CHOOSE f : f = [n \in 0 .. Len(parts) |-> Joined(sep, parts, f, n)]
  BY Zenon DEF Prefixes, Joined
<1>3. QED
  BY <1>1, <1>2, Zenon

-----------------------------------------------------------------------------
(***************************************************************************)
(* Values without the separator can be read back from what they were       *)
(* joined to.                                                              *)
(***************************************************************************)
\* A text, the separator and one more part.
Glued(text, part) == (text \o <<":">>) \o part

\* What follows the last separator of a text, and what is before it.
LEMMA SplitAtLast ==
    ASSUME NEW Token, ":" \notin Token,
           NEW A \in Seq(Token \cup {":"}), NEW B \in Seq(Token \cup {":"}),
           NEW u \in Seq(Token), NEW v \in Seq(Token),
           Glued(A, u) = Glued(B, v)
    PROVE  A = B /\ u = v
<1> DEFINE Text == Token \cup {":"}
           s == (A \o <<":">>) \o u
           t == (B \o <<":">>) \o v
<1>1. ASSUME NEW C \in Seq(Text), NEW w \in Seq(Token)
      PROVE  /\ Len((C \o <<":">>) \o w) = Len(C) + 1 + Len(w)
             /\ ((C \o <<":">>) \o w)[Len(C) + 1] = ":"
             /\ \A i \in 1 .. Len(C) : ((C \o <<":">>) \o w)[i] = C[i]
             /\ \A i \in 1 .. Len(w) :
                  ((C \o <<":">>) \o w)[Len(C) + 1 + i] = w[i]
  <2>1. /\ <<":">> \in Seq(Text) /\ Len(<<":">>) = 1 /\ <<":">>[1] = ":"
        /\ w \in Seq(Text)
    <3>1. w \in Seq(Text)
      BY SeqMonotonic
    <3>2. <<":">> \in Seq(Text) /\ Len(<<":">>) = 1 /\ <<":">>[1] = ":"
      OBVIOUS
    <3>3. QED
      BY <3>1, <3>2
  <2> DEFINE D == C \o <<":">>
  <2>2. /\ D \in Seq(Text) /\ Len(D) = Len(C) + 1
        /\ D[Len(C) + 1] = ":" /\ \A i \in 1 .. Len(C) : D[i] = C[i]
    BY <2>1, ConcatProperties
  <2> HIDE DEF D, Text
  <2>3. /\ Len(D \o w) = Len(D) + Len(w)
        /\ \A i \in 1 .. Len(D) + Len(w) :
             (D \o w)[i] = IF i <= Len(D) THEN D[i] ELSE w[i - Len(D)]
    BY <2>1, <2>2, ConcatProperties
  <2>4. Len(C) \in Nat /\ Len(w) \in Nat
    OBVIOUS
  <2>5. \A i \in 1 .. Len(w) : (D \o w)[Len(D) + i] = w[i]
    <3> SUFFICES ASSUME NEW i \in 1 .. Len(w)
                 PROVE  (D \o w)[Len(D) + i] = w[i]
      OBVIOUS
    <3>1. /\ Len(D) + i \in 1 .. Len(D) + Len(w) /\ ~(Len(D) + i <= Len(D))
          /\ (Len(D) + i) - Len(D) = i
      BY <2>2, <2>4
    <3>2. QED
      BY <2>3, <3>1
  <2>6. QED
    BY <2>2, <2>3, <2>4, <2>5 DEF D
<1>2. A \in Seq(Text) /\ B \in Seq(Text)
  OBVIOUS
<1>3. /\ Len(A) \in Nat /\ Len(B) \in Nat /\ Len(u) \in Nat /\ Len(v) \in Nat
      /\ \A i \in 1 .. Len(u) : u[i] # ":"
      /\ \A i \in 1 .. Len(v) : v[i] # ":"
  OBVIOUS
<1>4. /\ Len(s) = Len(A) + 1 + Len(u) /\ s[Len(A) + 1] = ":"
      /\ \A i \in 1 .. Len(A) : s[i] = A[i]
      /\ \A i \in 1 .. Len(u) : s[Len(A) + 1 + i] = u[i]
  BY <1>1, <1>2
<1>5. /\ Len(s) = Len(B) + 1 + Len(v) /\ s[Len(B) + 1] = ":"
      /\ \A i \in 1 .. Len(B) : s[i] = B[i]
      /\ \A i \in 1 .. Len(v) : s[Len(B) + 1 + i] = v[i]
  <2>1. s = t
    BY DEF Glued
  <2> HIDE DEF s
  <2>2. QED
    BY <1>1, <1>2, <2>1
<1> HIDE DEF s, Text
<1>6. ~(Len(A) < Len(B))
  <2> SUFFICES ASSUME Len(A) < Len(B)
               PROVE  FALSE
    OBVIOUS
  <2> DEFINE i == Len(B) - Len(A)
  <2>1. i \in 1 .. Len(u) /\ Len(A) + 1 + i = Len(B) + 1
    BY <1>3, <1>4, <1>5
  <2>2. s[Len(A) + 1 + i] = u[i] /\ u[i] # ":"
    BY <1>3, <1>4, <1>5, <2>1
  <2> HIDE DEF i
  <2>3. QED
    BY <1>4, <1>5, <2>1, <2>2
<1>7. ~(Len(B) < Len(A))
  <2> SUFFICES ASSUME Len(B) < Len(A)
               PROVE  FALSE
    OBVIOUS
  <2> DEFINE i == Len(A) - Len(B)
  <2>1. i \in 1 .. Len(v) /\ Len(B) + 1 + i = Len(A) + 1
    BY <1>3, <1>4, <1>5
  <2>2. s[Len(B) + 1 + i] = v[i] /\ v[i] # ":"
    BY <1>3, <1>4, <1>5, <2>1
  <2> HIDE DEF i
  <2>3. QED
    BY <1>4, <1>5, <2>1, <2>2
<1>8. Len(A) = Len(B) /\ Len(u) = Len(v)
  BY <1>3, <1>4, <1>5, <1>6, <1>7
<1>9. /\ \A i \in 1 .. Len(A) : A[i] = B[i]
      /\ \A i \in 1 .. Len(u) : u[i] = v[i]
  BY <1>4, <1>5, <1>8
<1>10. QED
  BY <1>2, <1>8, <1>9, SeqEqual

\* Each text of the joining is one.
LEMMA PrefixesType ==
    ASSUME NEW Token, NEW p \in Seq(Seq(Token)),
           NEW sep \in Seq(Token \cup {":"})
    PROVE  \A n \in 0 .. Len(p) : Prefixes(sep, p)[n] \in Seq(Token \cup {":"})
<1> DEFINE Text == Token \cup {":"}
           S == {n \in Nat :
                  n \in 0 .. Len(p) => Prefixes(sep, p)[n] \in Seq(Text)}
<1>1. \A n \in 0 .. Len(p) :
        Prefixes(sep, p)[n] = Joined(sep, p, Prefixes(sep, p), n)
  BY PrefixesDef
<1>2. \A n \in 1 .. Len(p) : p[n] \in Seq(Text)
  <2> SUFFICES ASSUME NEW n \in 1 .. Len(p)
               PROVE  p[n] \in Seq(Text)
    OBVIOUS
  <2>1. p[n] \in Seq(Token)
    OBVIOUS
  <2>2. QED
    BY <2>1, SeqMonotonic
<1>3. sep \in Seq(Text)
  OBVIOUS
<1> HIDE DEF Text
<1>4. 0 \in S
  <2>1. 0 \in 0 .. Len(p)
    OBVIOUS
  <2>2. Prefixes(sep, p)[0] = <<>>
    BY <1>1, <2>1 DEF Joined
  <2>3. <<>> \in Seq(Text)
    OBVIOUS
  <2>4. QED
    BY <2>2, <2>3
<1>5. ASSUME NEW n \in Nat, n \in S
      PROVE  n + 1 \in S
  <2> SUFFICES ASSUME n + 1 \in 0 .. Len(p)
               PROVE  Prefixes(sep, p)[n + 1] \in Seq(Text)
    OBVIOUS
  <2>1. Prefixes(sep, p)[n] \in Seq(Text) /\ p[n + 1] \in Seq(Text)
    BY <1>2, <1>5
  <2>2. (Prefixes(sep, p)[n] \o sep) \o p[n + 1] \in Seq(Text)
    BY <1>3, <2>1, ConcatProperties
  <2>3. Prefixes(sep, p)[n + 1] = IF n = 0 THEN p[1]
                             ELSE (Prefixes(sep, p)[n] \o sep) \o p[n + 1]
    BY <1>1 DEF Joined
  <2>4. QED
    BY <2>1, <2>2, <2>3
<1> HIDE DEF S
<1>6. Nat \subseteq S
  BY <1>4, <1>5, SetInduction
<1>7. QED
  BY <1>6 DEF S, Text

\* Two joinings of as many parts never meet unless all the parts agree.
LEMMA PrefixesTellApart ==
    ASSUME NEW Token, ":" \notin Token, NEW p \in Seq(Seq(Token)),
           NEW q \in Seq(Seq(Token)), Len(p) = Len(q)
    PROVE  \A n \in 0 .. Len(p) :
             Prefixes(<<":">>, p)[n] = Prefixes(<<":">>, q)[n]
               => \A i \in 1 .. n : p[i] = q[i]
<1> DEFINE P == Prefixes(<<":">>, p)
           Q == Prefixes(<<":">>, q)
<1> DEFINE Alike(n) == \A i \in 1 .. n : p[i] = q[i]
           S == {n \in Nat : n \in 0 .. Len(p) =>
                   (P[n] = Q[n] => Alike(n))}
<1>1. \A n \in 0 .. Len(p) : /\ P[n] = Joined(<<":">>, p, P, n)
                             /\ Q[n] = Joined(<<":">>, q, Q, n)
  <2>1. <<":">> \in Seq({":"}) /\ Len(p) \in Nat /\ Len(q) \in Nat
    OBVIOUS
  <2> QED BY <2>1, PrefixesDef
<1>2. \A n \in 0 .. Len(p) : /\ P[n] \in Seq(Token \cup {":"})
                             /\ Q[n] \in Seq(Token \cup {":"})
  <2>1. <<":">> \in Seq(Token \cup {":"})
    OBVIOUS
  <2> QED BY <2>1, PrefixesType
<1> HIDE DEF P, Q
<1>3. \A n \in 1 .. Len(p) : p[n] \in Seq(Token) /\ q[n] \in Seq(Token)
  OBVIOUS
<1> DEFINE Apart(A, B, u, v) ==
             Glued(A, u) = Glued(B, v) => A = B /\ u = v
<1>4. \A A, B \in Seq(Token \cup {":"}) : \A u, v \in Seq(Token) :
        Apart(A, B, u, v)
  BY SplitAtLast
<1> HIDE DEF Apart
<1>5. 0 \in S
  OBVIOUS
<1>6. ASSUME NEW n \in Nat, n \in S
      PROVE  n + 1 \in S
  <2> SUFFICES ASSUME n + 1 \in 0 .. Len(p),
                      P[n + 1] = Q[n + 1]
               PROVE  Alike(n + 1)
    OBVIOUS
  <2>1. CASE n = 0
    <3>1. P[1] = p[1] /\ Q[1] = q[1]
      BY <1>1, <2>1 DEF Joined
    <3>2. QED
      BY <2>1, <3>1
  <2>2. CASE n # 0
    <3> DEFINE m == n + 1
    <3>1. m \in 0 .. Len(p) /\ m # 0 /\ m # 1 /\ m - 1 = n
      BY <2>2
    <3> HIDE DEF m
    <3>2. /\ P[m] = (P[n] \o <<":">>) \o p[m]
          /\ Q[m] = (Q[n] \o <<":">>) \o q[m]
      BY <1>1, <3>1, Zenon DEF Joined
    <3>3. Glued(P[n], p[n + 1]) = Glued(Q[n], q[n + 1])
      BY <3>2, Zenon DEF m, Glued
    <3>4. /\ n \in 0 .. Len(p)
          /\ P[n] \in Seq(Token \cup {":"})
          /\ Q[n] \in Seq(Token \cup {":"})
          /\ p[n + 1] \in Seq(Token) /\ q[n + 1] \in Seq(Token)
      BY <1>2, <1>3
    <3>5. Apart(P[n], Q[n], p[n + 1], q[n + 1])
      BY <1>4, <3>4, Zenon
    <3>6. P[n] = Q[n] /\ p[n + 1] = q[n + 1]
      BY <3>3, <3>5, Zenon DEF Apart
    <3>7. Alike(n)
      BY <1>6, <3>4, <3>6
    <3>8. QED
      BY <3>6, <3>7
  <2>3. QED
    BY <2>1, <2>2
<1> HIDE DEF S
<1>7. Nat \subseteq S
  BY <1>5, <1>6, SetInduction
<1>8. QED
  BY <1>7 DEF S, P, Q

\* Lists of as many separator-free parts are joined to one text only if they
\* are one list.
LEMMA JoinTellsApart ==
    ASSUME NEW Token, ":" \notin Token, NEW p \in Seq(Seq(Token)),
           NEW q \in Seq(Seq(Token)), Len(p) = Len(q)
    PROVE  Join(<<":">>, p) = Join(<<":">>, q) <=> p = q
<1>1. Len(p) \in 0 .. Len(p)
  OBVIOUS
<1>2. Join(<<":">>, p) = Join(<<":">>, q) => \A i \in 1 .. Len(p) : p[i] = q[i]
  <2>1. \A n \in 0 .. Len(p) :
          Prefixes(<<":">>, p)[n] = Prefixes(<<":">>, q)[n]
            => \A i \in 1 .. n : p[i] = q[i]
    BY PrefixesTellApart
  <2>2. QED
    BY <1>1, <2>1, Zenon DEF Join
<1>3. Join(<<":">>, p) = Join(<<":">>, q) => p = q
  BY <1>2, SeqEqual
<1>4. QED
  BY <1>3, Zenon

\* Parts of one token each can be read back without a separator too.
LEMMA PrefixesOfTokens ==
    ASSUME NEW Token, NEW p \in Seq(Seq(Token)),
           \A i \in 1 .. Len(p) : Len(p[i]) = 1
    PROVE  \A n \in 0 .. Len(p) :
             /\ Prefixes(<<>>, p)[n] \in Seq(Token)
             /\ Len(Prefixes(<<>>, p)[n]) = n
             /\ \A i \in 1 .. n : Prefixes(<<>>, p)[n][i] = p[i][1]
<1> DEFINE P == Prefixes(<<>>, p)
           Spelt(s, n) == /\ s \in Seq(Token) /\ Len(s) = n
                          /\ \A i \in 1 .. n : s[i] = p[i][1]
           S == {n \in Nat : n \in 0 .. Len(p) => Spelt(P[n], n)}
<1>1. \A n \in 0 .. Len(p) : P[n] = Joined(<<>>, p, P, n)
  BY PrefixesDef
<1> HIDE DEF P
<1>2. 0 \in S
  <2>1. P[0] = <<>>
    <3>1. 0 \in 0 .. Len(p)
      OBVIOUS
    <3> QED BY <1>1, <3>1 DEF Joined
  <2>2. Spelt(<<>>, 0)
    OBVIOUS
  <2> QED BY <2>1, <2>2
<1>3. ASSUME NEW n \in Nat, n \in S
      PROVE  n + 1 \in S
  <2> SUFFICES ASSUME n + 1 \in 0 .. Len(p)
               PROVE  Spelt(P[n + 1], n + 1)
    OBVIOUS
  <2>1. Spelt(P[n], n) /\ p[n + 1] \in Seq(Token) /\ Len(p[n + 1]) = 1
    BY <1>3
  <2>2. P[n + 1] = IF n = 0 THEN p[1] ELSE (P[n] \o <<>>) \o p[n + 1]
    BY <1>1 DEF Joined
  <2>3. P[n] \o <<>> = P[n]
    BY <2>1, ConcatEmptySeq
  <2>4. CASE n = 0
    BY <2>1, <2>2, <2>4
  <2>5. CASE n # 0
    <3>1. P[n + 1] = P[n] \o p[n + 1]
      BY <2>2, <2>3, <2>5
    <3> DEFINE s == P[n]
               t == p[n + 1]
    <3>2. /\ s \in Seq(Token) /\ Len(s) = n /\ t \in Seq(Token) /\ Len(t) = 1
          /\ \A i \in 1 .. n : s[i] = p[i][1]
          /\ t[1] = p[n + 1][1]
      BY <2>1
    <3> HIDE DEF s, t
    <3>3. /\ s \o t \in Seq(Token) /\ Len(s \o t) = n + 1
          /\ \A i \in 1 .. n : (s \o t)[i] = s[i]
          /\ (s \o t)[n + 1] = t[1]
      <4>1. /\ s \o t \in Seq(Token) /\ Len(s \o t) = Len(s) + Len(t)
            /\ \A i \in 1 .. Len(s) + Len(t) :
                 (s \o t)[i] = IF i <= Len(s) THEN s[i] ELSE t[i - Len(s)]
        BY <3>2, ConcatProperties, Zenon
      <4>2. (n + 1) - n = 1 /\ ~(n + 1 <= n)
        OBVIOUS
      <4>3. \A i \in 1 .. n : i \in 1 .. n + 1 /\ i <= n
        OBVIOUS
      <4>4. n + 1 \in 1 .. n + 1
        OBVIOUS
      <4>5. /\ Len(s \o t) = n + 1
            /\ \A i \in 1 .. n + 1 :
                 (s \o t)[i] = IF i <= n THEN s[i] ELSE t[i - n]
        BY <3>2, <4>1, Zenon
      <4> QED BY <4>1, <4>2, <4>3, <4>4, <4>5, Zenon
    <3>4. \A i \in 1 .. n + 1 : (s \o t)[i] = p[i][1]
      <4> TAKE i \in 1 .. n + 1
      <4>1. i \in 1 .. n \/ i = n + 1
        OBVIOUS
      <4> QED BY <3>2, <3>3, <4>1
    <3>5. P[n + 1] = s \o t
      BY <3>1 DEF s, t
    <3>6. Spelt(s \o t, n + 1)
      BY <3>3, <3>4
    <3> HIDE DEF Spelt
    <3> QED BY <3>5, <3>6, Zenon
  <2> QED BY <2>4, <2>5
<1> HIDE DEF S, Spelt
<1>4. Nat \subseteq S
  BY <1>2, <1>3, SetInduction
<1>5. \A n \in 0 .. Len(p) : Spelt(P[n], n)
  BY <1>4 DEF S
<1> QED BY <1>5 DEF Spelt, P

\* Lists of as many tokens spell one text only if they are one list.
LEMMA TokensTellApart ==
    ASSUME NEW Token, NEW p \in Seq(Seq(Token)), NEW q \in Seq(Seq(Token)),
           Len(p) = Len(q), \A i \in 1 .. Len(p) : Len(p[i]) = 1,
           \A i \in 1 .. Len(q) : Len(q[i]) = 1
    PROVE  Join(<<>>, p) = Join(<<>>, q) <=> p = q
<1>1. /\ \A i \in 1 .. Len(p) : Join(<<>>, p)[i] = p[i][1]
      /\ \A i \in 1 .. Len(q) : Join(<<>>, q)[i] = q[i][1]
  <2>1. Len(p) \in 0 .. Len(p) /\ Len(q) \in 0 .. Len(q)
    OBVIOUS
  <2> QED BY <2>1, PrefixesOfTokens DEF Join
<1>2. ASSUME Join(<<>>, p) = Join(<<>>, q)
      PROVE  \A i \in 1 .. Len(p) : p[i] = q[i]
  <2> TAKE i \in 1 .. Len(p)
  <2>1. p[i][1] = q[i][1]
    BY <1>1, <1>2
  <2>2. /\ p[i] \in Seq(Token) /\ Len(p[i]) = 1
        /\ q[i] \in Seq(Token) /\ Len(q[i]) = 1
    OBVIOUS
  <2> QED BY <2>1, <2>2, SeqEqual
<1>3. Join(<<>>, p) = Join(<<>>, q) => p = q
  BY <1>2, SeqEqual
<1> QED BY <1>3, Zenon

\* A text of parts that are not empty is not empty.
LEMMA JoinIsNotEmpty ==
    ASSUME NEW Token, NEW p \in Seq(Seq(Token)), Len(p) # 0,
           \A i \in 1 .. Len(p) : p[i] # <<>>,
           NEW sep \in Seq(Token \cup {":"})
    PROVE  Join(sep, p) # <<>>
<1> DEFINE n == Len(p)
<1>1. n \in Nat /\ n # 0
  OBVIOUS
<1>2. Join(sep, p) = Joined(sep, p, Prefixes(sep, p), n)
  BY PrefixesDef DEF Join
<1>3. CASE n = 1
  BY <1>2, <1>3 DEF Joined
<1>4. CASE n # 1
  <2> DEFINE text == Prefixes(sep, p)[n - 1]
  <2>1. text \in Seq(Token \cup {":"}) /\ p[n] \in Seq(Token \cup {":"})
    <3>1. text \in Seq(Token \cup {":"})
      <4>1. \A m \in 0 .. Len(p) : Prefixes(sep, p)[m] \in Seq(Token \cup {":"})
        BY PrefixesType
      <4>2. n - 1 \in 0 .. Len(p)
        BY <1>1
      <4>3. QED
        BY <4>1, <4>2, Zenon
    <3>2. p[n] \in Seq(Token)
      BY <1>1
    <3>3. QED
      BY <3>1, <3>2, SeqMonotonic
  <2>2. Join(sep, p) = (text \o sep) \o p[n]
    BY <1>1, <1>2, <1>4 DEF Joined
  <2> HIDE DEF text, n
  <2>3. /\ text \o sep \in Seq(Token \cup {":"})
        /\ Len(text \o sep) = Len(text) + Len(sep)
    BY <2>1, ConcatProperties
  <2>4. Len(Join(sep, p)) = Len(text) + Len(sep) + Len(p[n])
    BY <2>1, <2>2, <2>3, ConcatProperties
  <2>5. /\ Len(text) \in Nat /\ Len(sep) \in Nat
        /\ Len(p[n]) \in Nat /\ Len(p[n]) # 0
    <3>1. p[n] # <<>>
      BY <1>1 DEF n
    <3> QED BY <2>1, <3>1, EmptySeq
  <2>6. Len(Join(sep, p)) # 0
    <3>1. \A i, j, k \in Nat : k # 0 => i + j + k # 0
      OBVIOUS
    <3>2. QED
      BY <2>4, <2>5, <3>1, Zenon
  <2>7. QED
    BY <2>6
<1>5. QED
  BY <1>3, <1>4

\* The values an identity joins, in its order.
Parts(code, e) == [i \in DOMAIN code.fields |-> e[code.fields[i]]]

\* What an identity is, if no field of the event is changed by folding.
LEMMA IdentityOfParts ==
    ASSUME NEW Token, NEW code \in Code,
           NEW e,
           \A x \in Field : e[x] \in Seq(Token) /\ Read(code, e, x) = e[x]
    PROVE  /\ Parts(code, e) \in Seq(Seq(Token))
           /\ Len(Parts(code, e)) = Len(code.fields)
           /\ \A i \in 1 .. Len(code.fields) :
                Parts(code, e)[i] = e[code.fields[i]]
           /\ Identity(code, e) = Join(code.separator, Parts(code, e))
<1>1. /\ DOMAIN code.fields = 1 .. Len(code.fields)
      /\ Len(code.fields) \in Nat
      /\ \A i \in DOMAIN code.fields : code.fields[i] \in Field
  BY DEF Code
<1>2. [i \in DOMAIN code.fields |-> Read(code, e, code.fields[i])]
        = Parts(code, e)
  BY <1>1 DEF Parts
<1>3. Identity(code, e) = Join(code.separator, Parts(code, e))
  BY <1>2, Zenon DEF Identity
<1>4. \A i \in 1 .. Len(code.fields) : e[code.fields[i]] \in Seq(Token)
  BY <1>1
<1>5. /\ Parts(code, e) \in Seq(Seq(Token))
      /\ Len(Parts(code, e)) = Len(code.fields)
      /\ \A i \in 1 .. Len(code.fields) :
           Parts(code, e)[i] = e[code.fields[i]]
  BY <1>1, <1>4 DEF Parts
<1> QED BY <1>3, <1>5

\* The values are the same exactly if the joined fields are.
LEMMA SameParts ==
    ASSUME NEW code \in Code, NEW e, NEW f
    PROVE  Parts(code, e) = Parts(code, f)
             <=> \A x \in Range(code.fields) : e[x] = f[x]
<1> DEFINE fields == code.fields
<1>1. /\ Parts(code, e) = [i \in DOMAIN fields |-> e[fields[i]]]
      /\ Parts(code, f) = [i \in DOMAIN fields |-> f[fields[i]]]
  BY DEF Parts
<1> HIDE DEF fields
<1>2. ASSUME \A i \in DOMAIN fields : e[fields[i]] = f[fields[i]]
      PROVE  Parts(code, e) = Parts(code, f)
  BY <1>1, <1>2, Zenon
<1>3. ASSUME Parts(code, e) = Parts(code, f), NEW i \in DOMAIN fields
      PROVE  e[fields[i]] = f[fields[i]]
  <2>1. /\ Parts(code, e)[i] = e[fields[i]]
        /\ Parts(code, f)[i] = f[fields[i]]
    BY <1>1
  <2> QED BY <1>3, <2>1
<1>4. (\A i \in DOMAIN fields : e[fields[i]] = f[fields[i]])
        <=> \A x \in Range(fields) : e[x] = f[x]
  BY Zenon DEF Range
<1> QED BY <1>2, <1>3, <1>4, Zenon DEF fields

\* An identity that joins whole fields with ":" tells two events apart exactly
\* by these fields: no two events without the separator meet that differ in
\* one of them, whatever the fields, their number and their order are.
THEOREM IdentityTellsFields ==
    ASSUME NEW Token, ":" \notin Token, NEW code \in Code, Joins(code),
           NEW e, \A x \in Field : e[x] \in Seq(Token),
           NEW f, \A x \in Field : f[x] \in Seq(Token)
    PROVE  Identity(code, e) = Identity(code, f)
             <=> \A x \in Range(code.fields) : e[x] = f[x]
<1>1. /\ \A x \in Field : e[x] \in Seq(Token) /\ Read(code, e, x) = e[x]
      /\ \A x \in Field : f[x] \in Seq(Token) /\ Read(code, f, x) = f[x]
  BY DEF Joins, Read
<1> DEFINE p == Parts(code, e)
           q == Parts(code, f)
<1>2. /\ p \in Seq(Seq(Token)) /\ Len(p) = Len(code.fields)
      /\ Identity(code, e) = Join(code.separator, p)
  BY <1>1, IdentityOfParts
<1>3. /\ q \in Seq(Seq(Token)) /\ Len(q) = Len(code.fields)
      /\ Identity(code, f) = Join(code.separator, q)
  BY <1>1, IdentityOfParts
<1>4. p = q <=> \A x \in Range(code.fields) : e[x] = f[x]
  BY SameParts
<1> HIDE DEF p, q
<1>5. Join(<<":">>, p) = Join(<<":">>, q) <=> p = q
  BY <1>2, <1>3, JoinTellsApart
<1> QED BY <1>2, <1>3, <1>4, <1>5 DEF Joins

\* So does any identity, if the values are single tokens without capitals.
THEOREM IdentityTellsTokens ==
    ASSUME NEW Token, ":" \notin Token, "ORG-A" \notin Token,
           NEW code \in Code,
           NEW e, \A x \in Field : \E w \in Token : e[x] = <<w>>,
           NEW f, \A x \in Field : \E w \in Token : f[x] = <<w>>
    PROVE  Identity(code, e) = Identity(code, f)
             <=> \A x \in Range(code.fields) : e[x] = f[x]
<1>1. \A w \in Token : /\ <<w>> \in Seq(Token) /\ Len(<<w>>) = 1
                       /\ Casefold(<<w>>) = <<w>>
  <2> TAKE w \in Token
  <2>1. DOMAIN <<w>> = {1} /\ <<w>>[1] # "ORG-A"
    OBVIOUS
  <2> QED BY <2>1 DEF Casefold
<1>2. /\ \A x \in Field : e[x] \in Seq(Token) /\ Read(code, e, x) = e[x]
      /\ \A x \in Field : f[x] \in Seq(Token) /\ Read(code, f, x) = f[x]
      /\ \A x \in Field : Len(e[x]) = 1 /\ Len(f[x]) = 1
  BY <1>1 DEF Read
<1> DEFINE p == Parts(code, e)
           q == Parts(code, f)
<1>3. /\ p \in Seq(Seq(Token)) /\ Len(p) = Len(code.fields)
      /\ \A i \in 1 .. Len(code.fields) : p[i] = e[code.fields[i]]
      /\ Identity(code, e) = Join(code.separator, p)
  BY <1>2, IdentityOfParts
<1>4. /\ q \in Seq(Seq(Token)) /\ Len(q) = Len(code.fields)
      /\ \A i \in 1 .. Len(code.fields) : q[i] = f[code.fields[i]]
      /\ Identity(code, f) = Join(code.separator, q)
  BY <1>2, IdentityOfParts
<1>5. p = q <=> \A x \in Range(code.fields) : e[x] = f[x]
  BY SameParts
<1> HIDE DEF p, q
<1>6. \A i \in 1 .. Len(code.fields) : code.fields[i] \in Field
  BY DEF Code
<1>7. \A i \in 1 .. Len(code.fields) : Len(p[i]) = 1 /\ Len(q[i]) = 1
  <2> TAKE i \in 1 .. Len(code.fields)
  <2> DEFINE x == code.fields[i]
  <2>1. x \in Field /\ p[i] = e[x] /\ q[i] = f[x]
    BY <1>3, <1>4, <1>6
  <2> HIDE DEF x
  <2> QED BY <1>2, <2>1
<1>8. Join(<<":">>, p) = Join(<<":">>, q) <=> p = q
  BY <1>3, <1>4, JoinTellsApart
<1>9. Join(<<>>, p) = Join(<<>>, q) <=> p = q
  <2>1. /\ Len(p) = Len(q) /\ \A i \in 1 .. Len(p) : Len(p[i]) = 1
        /\ \A i \in 1 .. Len(q) : Len(q[i]) = 1
    BY <1>3, <1>4, <1>7
  <2>2. p \in Seq(Seq(Token)) /\ q \in Seq(Seq(Token))
    BY <1>3, <1>4
  <2> QED BY <2>1, <2>2, TokensTellApart, Zenon
<1>10. code.separator = <<":">> \/ code.separator = <<>>
  BY DEF Code
<1> QED BY <1>3, <1>4, <1>5, <1>8, <1>9, <1>10

\* An identity of single tokens without capitals is not empty if it joins
\* anything.
LEMMA IdentityIsNotEmpty ==
    ASSUME NEW Token, "ORG-A" \notin Token,
           NEW code \in Code, Range(code.fields) # {},
           NEW e, \A x \in Field : \E w \in Token : e[x] = <<w>>
    PROVE  Identity(code, e) # <<>>
<1>1. \A w \in Token : /\ <<w>> \in Seq(Token) /\ <<w>> # <<>>
                       /\ Casefold(<<w>>) = <<w>>
  <2> TAKE w \in Token
  <2>1. DOMAIN <<w>> = {1} /\ <<w>>[1] # "ORG-A"
    OBVIOUS
  <2> QED BY <2>1 DEF Casefold
<1>2. /\ \A x \in Field : e[x] \in Seq(Token) /\ Read(code, e, x) = e[x]
      /\ \A x \in Field : e[x] # <<>>
  BY <1>1 DEF Read
<1> DEFINE p == Parts(code, e)
<1>3. /\ p \in Seq(Seq(Token)) /\ Len(p) = Len(code.fields)
      /\ \A i \in 1 .. Len(code.fields) : p[i] = e[code.fields[i]]
      /\ Identity(code, e) = Join(code.separator, p)
  BY <1>2, IdentityOfParts
<1> HIDE DEF p
<1>4. /\ \A i \in 1 .. Len(code.fields) : code.fields[i] \in Field
      /\ code.fields \in Seq(Field)
      /\ code.separator = <<":">> \/ code.separator = <<>>
  BY DEF Code
<1>5. Len(code.fields) # 0
  BY <1>4 DEF Range
<1>6. code.separator \in Seq(Token \cup {":"})
  <2>1. /\ <<":">> \in Seq(Token \cup {":"})
        /\ <<>> \in Seq(Token \cup {":"})
    OBVIOUS
  <2> QED BY <1>4, <2>1, Zenon
<1>7. \A i \in 1 .. Len(p) : p[i] # <<>>
  BY <1>2, <1>3, <1>4
<1> QED BY <1>3, <1>5, <1>6, <1>7, JoinIsNotEmpty

-----------------------------------------------------------------------------
(***************************************************************************)
(* What the judges accept.                                                 *)
(***************************************************************************)
\* The identities tell apart what they must and merge what they must, whether
\* or not they join the external record's ID and in whatever order.
Discerning(candidate) ==
    /\ {"event_type", "tenant_id", "provider", "revision"}
         \subseteq Range(candidate.event.fields)
    /\ {"tenant_id", "provider"} \subseteq Range(candidate.document.fields)
    /\ "event_type" \notin Range(candidate.document.fields)
    /\ "revision" \notin Range(candidate.document.fields)

\* The tokens that the judges' events are made of.
Word == {"ready", "redacted", "org", "org-other", "org-alpha", "org-beta",
         "source-a", "source-b", "teams", "record", "7", "8"}

\* An event whose values are these words.
HasWords(e, t, n, p, r) ==
    /\ {t, n, p, r} \subseteq Word
    /\ e["event_type"] = <<t>> /\ e["tenant_id"] = <<n>>
    /\ e["provider"] = <<p>> /\ e["revision"] = <<r>>
    /\ e["external_record_id"] = <<"record">>

\* A sample has the words it is made of.
LEMMA SampleWords ==
    ASSUME NEW t \in Word, NEW n \in Word, NEW p \in Word, NEW r \in Word
    PROVE  HasWords(Sample(t, n, p, r), t, n, p, r)
  BY DEF Sample, HasWords

\* Two samples share an identity exactly if they agree in the fields it joins.
LEMMA SampleIdentity ==
    ASSUME NEW code \in Code,
           NEW e, NEW t1, NEW n1, NEW p1, NEW r1, HasWords(e, t1, n1, p1, r1),
           NEW f, NEW t2, NEW n2, NEW p2, NEW r2, HasWords(f, t2, n2, p2, r2)
    PROVE  Identity(code, e) = Identity(code, f)
             <=> /\ "event_type" \in Range(code.fields) => t1 = t2
                 /\ "tenant_id" \in Range(code.fields) => n1 = n2
                 /\ "provider" \in Range(code.fields) => p1 = p2
                 /\ "revision" \in Range(code.fields) => r1 = r2
<1> DEFINE joined == Range(code.fields)
<1>1. ":" \notin Word /\ "ORG-A" \notin Word /\ "record" \in Word
  BY DEF Word
<1>2. /\ \A x \in Field : \E w \in Word : e[x] = <<w>>
      /\ \A x \in Field : \E w \in Word : f[x] = <<w>>
  BY <1>1 DEF HasWords, Field
<1>3. Identity(code, e) = Identity(code, f)
        <=> \A x \in joined : e[x] = f[x]
  BY <1>1, <1>2, IdentityTellsTokens
<1>4. joined \subseteq Field
  BY DEF Range, Code
<1>5. \A v, w : <<v>> = <<w>> <=> v = w
  OBVIOUS
<1> HIDE DEF joined
<1>6. (\A x \in joined : e[x] = f[x])
        <=> /\ "event_type" \in joined => t1 = t2
            /\ "tenant_id" \in joined => n1 = n2
            /\ "provider" \in joined => p1 = p2
            /\ "revision" \in joined => r1 = r2
  BY <1>4, <1>5 DEF HasWords, Field
<1> QED BY <1>3, <1>6 DEF joined

\* A sample's identity is not empty if it joins anything.
LEMMA SampleIsNotEmpty ==
    ASSUME NEW code \in Code, Range(code.fields) # {},
           NEW e, NEW t, NEW n, NEW p, NEW r, HasWords(e, t, n, p, r)
    PROVE  Identity(code, e) # <<>>
<1>1. "ORG-A" \notin Word /\ "record" \in Word
  BY DEF Word
<1>2. \A x \in Field : \E w \in Word : e[x] = <<w>>
  BY <1>1 DEF HasWords, Field
<1> QED BY <1>1, <1>2, IdentityIsNotEmpty

\* Appending to short tuples.
LEMMA Appended ==
    \A w, x, y, z : /\ Append(<<>>, w) = <<w>>
                    /\ Append(<<w>>, x) = <<w, x>>
                    /\ Append(<<w, x>>, y) = <<w, x, y>>
                    /\ Append(<<w, x, y>>, z) = <<w, x, y, z>>
<1> TAKE w, x, y, z
<1> DEFINE S == {w, x, y, z}
           a == <<w>>
           b == <<w, x>>
           c == <<w, x, y>>
           d == <<w, x, y, z>>
<1>1. ASSUME NEW s \in Seq(S), NEW e \in S, NEW t \in Seq(S),
             Len(t) = Len(s) + 1, t[Len(s) + 1] = e,
             \A i \in 1 .. Len(s) : t[i] = s[i]
      PROVE  Append(s, e) = t
  BY <1>1, AppendProperties, SeqEqual
<1>2. /\ a \in Seq(S) /\ Len(a) = 1 /\ a[1] = w
      /\ b \in Seq(S) /\ Len(b) = 2 /\ b[1] = w /\ b[2] = x
      /\ c \in Seq(S) /\ Len(c) = 3 /\ c[1] = w /\ c[2] = x /\ c[3] = y
      /\ d \in Seq(S) /\ Len(d) = 4 /\ d[1] = w /\ d[2] = x /\ d[3] = y
      /\ d[4] = z
  OBVIOUS
<1>3. w \in S /\ x \in S /\ y \in S /\ z \in S
  OBVIOUS
<1> HIDE DEF S, a, b, c, d
<1>4. Append(<<>>, w) = <<w>>
  OBVIOUS
<1>5. Append(a, x) = b
  <2>1. \A i \in 1 .. Len(a) : b[i] = a[i]
    BY <1>2
  <2>2. Len(b) = Len(a) + 1 /\ b[Len(a) + 1] = x
    BY <1>2
  <2>3. QED
    BY <1>1, <1>2, <1>3, <2>1, <2>2, Zenon
<1>6. Append(b, y) = c
  <2>1. \A i \in 1 .. Len(b) : c[i] = b[i]
    BY <1>2
  <2>2. Len(c) = Len(b) + 1 /\ c[Len(b) + 1] = y
    BY <1>2
  <2>3. QED
    BY <1>1, <1>2, <1>3, <2>1, <2>2, Zenon
<1>7. Append(c, z) = d
  <2>1. \A i \in 1 .. Len(c) : d[i] = c[i]
    BY <1>2
  <2>2. Len(d) = Len(c) + 1 /\ d[Len(c) + 1] = z
    BY <1>2
  <2>3. QED
    BY <1>1, <1>2, <1>3, <2>1, <2>2, Zenon
<1>8. QED
  BY <1>4, <1>5, <1>6, <1>7 DEF a, b, c, d

\* Four events go through the consumer: two records, the first again, and a
\* new event of the first one's record.
Trial(end, k1, d1, e1, k2, d2, e2, d3, e3, k3, e4) ==
    end = Consume(Consume(Consume(Consume(Emptied, k1, d1, e1), k2, d2, e2),
                          k1, d3, e3),
                  k3, d1, e4)

\* What is left of them, if three keys and two documents differ.
Tried(end, k1, k2, k3, d1, e4, d2, e2) ==
    /\ end.outcomes = <<"indexed", "indexed", "duplicate", "indexed">>
    /\ end.ledger = {k1, k2, k3}
    /\ DOMAIN end.documents = {d1, d2}
    /\ end.documents[d1] = e4 /\ end.documents[d2] = e2

\* The first again is a duplicate, and the new event replaces its document.
LEMMA FourConsumed ==
    ASSUME NEW k1, NEW k2, NEW k3, k1 # k2, k1 # k3, k2 # k3,
           NEW d1, NEW d2, NEW d3, d1 # d2, NEW e1, NEW e2, NEW e3, NEW e4,
           NEW end, Trial(end, k1, d1, e1, k2, d2, e2, d3, e3, k3, e4)
    PROVE  Tried(end, k1, k2, k3, d1, e4, d2, e2)
<1> DEFINE s1 == Consume(Emptied, k1, d1, e1)
           s2 == Consume(s1, k2, d2, e2)
           s3 == Consume(s2, k1, d3, e3)
           s4 == Consume(s3, k3, d1, e4)
<1> DEFINE New(k, d, e, store, next) ==
             next = [ledger |-> store.ledger \cup {k},
                     documents |-> Store(store.documents, d, e),
                     outcomes |-> Append(store.outcomes, "indexed")]
<1>1. ASSUME NEW store, NEW k, NEW d, NEW e, k \notin store.ledger
      PROVE  New(k, d, e, store, Consume(store, k, d, e))
  BY <1>1, Zenon DEF Consume
<1>2. /\ s1 = Consume(Emptied, k1, d1, e1) /\ s2 = Consume(s1, k2, d2, e2)
      /\ s3 = Consume(s2, k1, d3, e3) /\ s4 = Consume(s3, k3, d1, e4)
      /\ end = s4
  BY DEF Trial
<1> HIDE DEF s1, s2, s3, s4, New
<1>3. /\ s1.ledger = {k1} /\ s1.outcomes = <<"indexed">>
      /\ s1.documents = Store(<<>>, d1, e1)
  <2>1. /\ Emptied.ledger = {} /\ Emptied.outcomes = <<>>
        /\ Emptied.documents = <<>>
    BY DEF Emptied
  <2>2. New(k1, d1, e1, Emptied, s1)
    <3>1. k1 \notin Emptied.ledger
      BY <2>1
    <3>2. QED
      BY <1>1, <1>2, <3>1, Zenon
  <2>3. QED
    BY <2>1, <2>2 DEF New
<1>4. s2 = [ledger |-> {k1, k2}, documents |-> Store(s1.documents, d2, e2),
            outcomes |-> <<"indexed", "indexed">>]
  <2>1. New(k2, d2, e2, s1, s2)
    <3>1. k2 \notin s1.ledger
      BY <1>3
    <3>2. QED
      BY <1>1, <1>2, <3>1, Zenon
  <2>2. s1.ledger \cup {k2} = {k1, k2}
    BY <1>3
  <2>3. Append(s1.outcomes, "indexed") = <<"indexed", "indexed">>
    BY <1>3, Appended
  <2>4. QED
    BY <2>1, <2>2, <2>3, Zenon DEF New
<1>5. /\ s3.ledger = {k1, k2} /\ s3.documents = s2.documents
      /\ s3.outcomes = <<"indexed", "indexed", "duplicate">>
  <2>1. k1 \in s2.ledger
    BY <1>4
  <2>2. s3 = [s2 EXCEPT !.outcomes = Append(@, "duplicate")]
    BY <1>2, <2>1 DEF Consume
  <2>3. Append(s2.outcomes, "duplicate")
          = <<"indexed", "indexed", "duplicate">>
    BY <1>4, Appended
  <2>4. QED
    BY <1>4, <2>2, <2>3
<1>6. /\ s4.ledger = {k1, k2, k3}
      /\ s4.outcomes = <<"indexed", "indexed", "duplicate", "indexed">>
      /\ s4.documents = Store(s3.documents, d1, e4)
  <2>1. New(k3, d1, e4, s3, s4)
    <3>1. k3 \notin s3.ledger
      BY <1>5
    <3>2. QED
      BY <1>1, <1>2, <3>1, Zenon
  <2>2. s3.ledger \cup {k3} = {k1, k2, k3}
    BY <1>5
  <2>3. Append(s3.outcomes, "indexed")
          = <<"indexed", "indexed", "duplicate", "indexed">>
    <3>1. Append(<<"indexed", "indexed", "duplicate">>, "indexed")
            = <<"indexed", "indexed", "duplicate", "indexed">>
      BY Appended, Zenon
    <3>2. QED
      BY <1>5, <3>1
  <2>4. QED
    BY <2>1, <2>2, <2>3 DEF New
<1>7. DOMAIN s1.documents = {d1}
  <2>1. DOMAIN <<>> = {}
    OBVIOUS
  <2>2. DOMAIN s1.documents = DOMAIN <<>> \cup {d1}
    <3>1. DOMAIN Store(<<>>, d1, e1) = DOMAIN <<>> \cup {d1}
      BY DEF Store
    <3>2. QED
      BY <1>3, <3>1
  <2>3. QED
    BY <2>1, <2>2
<1>8. /\ DOMAIN s2.documents = {d1, d2} /\ s2.documents[d2] = e2
  <2>1. s2.documents = Store(s1.documents, d2, e2)
    BY <1>4
  <2>2. /\ DOMAIN s2.documents = DOMAIN s1.documents \cup {d2}
        /\ s2.documents[d2] = e2
    <3>1. /\ DOMAIN Store(s1.documents, d2, e2) = DOMAIN s1.documents \cup {d2}
          /\ Store(s1.documents, d2, e2)[d2] = e2
      BY DEF Store
    <3>2. QED
      BY <2>1, <3>1
  <2>3. QED
    BY <1>7, <2>2
<1>9. /\ DOMAIN s4.documents = {d1, d2} /\ s4.documents[d1] = e4
       /\ s4.documents[d2] = e2
  <2>1. s4.documents = Store(s2.documents, d1, e4)
    BY <1>5, <1>6
  <2>2. /\ DOMAIN s4.documents = DOMAIN s2.documents \cup {d1}
        /\ s4.documents[d1] = e4
        /\ \A k \in DOMAIN s2.documents :
             k # d1 => s4.documents[k] = s2.documents[k]
    <3>1. /\ DOMAIN Store(s2.documents, d1, e4) = DOMAIN s2.documents \cup {d1}
          /\ Store(s2.documents, d1, e4)[d1] = e4
      BY DEF Store
    <3>2. \A k \in DOMAIN s2.documents :
            k # d1 => Store(s2.documents, d1, e4)[k] = s2.documents[k]
      BY DEF Store
    <3>3. QED
      BY <2>1, <3>1, <3>2
  <2>3. QED
    BY <1>8, <2>2
<1>10. QED
  BY <1>2, <1>6, <1>9 DEF Tried

\* Counting the elements of a set one by one.
Counts(S, n) == IsFiniteSet(S) /\ Cardinality(S) = n

\* One more element counts one more.
LEMMA OneMore ==
    ASSUME NEW S, NEW n \in Nat, Counts(S, n), NEW x, x \notin S,
           NEW T, T = S \cup {x}
    PROVE  Counts(T, n + 1)
<1>1. IsFiniteSet(S) /\ Cardinality(S) = n
  BY DEF Counts
<1>2. IsFiniteSet(T)
  BY <1>1, FS_AddElement
<1>3. Cardinality(T) = IF x \in S THEN Cardinality(S) ELSE Cardinality(S) + 1
  BY <1>1, FS_AddElement
<1>4. QED
  BY <1>1, <1>2, <1>3 DEF Counts

\* Sets of up to five elements.
LEMMA SmallSets ==
    ASSUME NEW a, NEW b, NEW c, NEW d, NEW e
    PROVE  /\ Counts({a}, 1)
           /\ a # b => Counts({a, b}, 2)
           /\ a # b /\ a # c /\ b # c => Counts({a, b, c}, 3)
           /\ /\ a # b /\ a # c /\ a # d /\ a # e /\ b # c /\ b # d /\ b # e
              /\ c # d /\ c # e /\ d # e
              => Counts({a, b, c, d, e}, 5)
<1> DEFINE S1 == {a}
           S2 == {a, b}
           S3 == {a, b, c}
           S4 == {a, b, c, d}
           S5 == {a, b, c, d, e}
<1>1. /\ S2 = S1 \cup {b} /\ S3 = S2 \cup {c} /\ S4 = S3 \cup {d}
      /\ S5 = S4 \cup {e}
  OBVIOUS
<1>2. /\ a # b => b \notin S1
      /\ a # c /\ b # c => c \notin S2
      /\ a # d /\ b # d /\ c # d => d \notin S3
      /\ a # e /\ b # e /\ c # e /\ d # e => e \notin S4
  OBVIOUS
<1>3. Counts(S1, 1)
  BY FS_Singleton DEF Counts
<1> HIDE DEF S1, S2, S3, S4, S5
<1>4. a # b => Counts(S2, 2)
  <2>1. a # b => Counts(S2, 1 + 1)
    BY <1>1, <1>2, <1>3, OneMore
  <2>2. QED
    BY <2>1
<1>5. a # b /\ a # c /\ b # c => Counts(S3, 3)
  <2>1. a # b /\ a # c /\ b # c => Counts(S3, 2 + 1)
    BY <1>1, <1>2, <1>4, OneMore
  <2>2. QED
    BY <2>1
<1>6. a # b /\ a # c /\ b # c /\ a # d /\ b # d /\ c # d => Counts(S4, 4)
  <2>1. a # b /\ a # c /\ b # c /\ a # d /\ b # d /\ c # d
          => Counts(S4, 3 + 1)
    BY <1>1, <1>2, <1>5, OneMore
  <2>2. QED
    BY <2>1
<1>7. /\ a # b /\ a # c /\ a # d /\ a # e /\ b # c /\ b # d /\ b # e
      /\ c # d /\ c # e /\ d # e
      => Counts(S5, 5)
  <2>1. /\ a # b /\ a # c /\ a # d /\ a # e /\ b # c /\ b # d /\ b # e
        /\ c # d /\ c # e /\ d # e
        => Counts(S5, 4 + 1)
    BY <1>1, <1>2, <1>6, OneMore
  <2>2. QED
    BY <2>1
<1>8. QED
  BY <1>3, <1>4, <1>5, <1>7, Zenon DEF S1, S2, S3, S5

\* The controller's six samples: the second is the first's replay, every other
\* one differs from it in one field.
LEMMA LogicSamples ==
    /\ HasWords(LogicEvents[1], "ready", "org", "source-a", "7")
    /\ HasWords(LogicEvents[2], "ready", "org", "source-a", "7")
    /\ HasWords(LogicEvents[3], "ready", "org-other", "source-a", "7")
    /\ HasWords(LogicEvents[4], "ready", "org", "source-a", "8")
    /\ HasWords(LogicEvents[5], "redacted", "org", "source-a", "7")
    /\ HasWords(LogicEvents[6], "ready", "org", "source-b", "7")
<1>1. /\ "ready" \in Word /\ "redacted" \in Word /\ "org" \in Word
      /\ "org-other" \in Word /\ "source-a" \in Word /\ "source-b" \in Word
      /\ "7" \in Word /\ "8" \in Word
  BY DEF Word
<1>2. /\ HasWords(Sample("ready", "org", "source-a", "7"),
                  "ready", "org", "source-a", "7")
      /\ HasWords(Sample("ready", "org-other", "source-a", "7"),
                  "ready", "org-other", "source-a", "7")
      /\ HasWords(Sample("ready", "org", "source-a", "8"),
                  "ready", "org", "source-a", "8")
      /\ HasWords(Sample("redacted", "org", "source-a", "7"),
                  "redacted", "org", "source-a", "7")
      /\ HasWords(Sample("ready", "org", "source-b", "7"),
                  "ready", "org", "source-b", "7")
  BY <1>1, SampleWords
<1>3. /\ LogicEvents[1] = Sample("ready", "org", "source-a", "7")
      /\ LogicEvents[2] = Sample("ready", "org", "source-a", "7")
      /\ LogicEvents[3] = Sample("ready", "org-other", "source-a", "7")
      /\ LogicEvents[4] = Sample("ready", "org", "source-a", "8")
      /\ LogicEvents[5] = Sample("redacted", "org", "source-a", "7")
      /\ LogicEvents[6] = Sample("ready", "org", "source-b", "7")
  BY DEF LogicEvents
<1>4. QED
  BY <1>2, <1>3

\* So an identity tells the first from another exactly if it joins the field
\* in which that one differs.
LEMMA LogicIdentities ==
    ASSUME NEW code \in Code, NEW id,
           id = [i \in 1..6 |-> Identity(code, LogicEvents[i])]
    PROVE  /\ id[1] = id[2]
           /\ id[1] = id[3] <=> "tenant_id" \notin Range(code.fields)
           /\ id[1] = id[4] <=> "revision" \notin Range(code.fields)
           /\ id[1] = id[5] <=> "event_type" \notin Range(code.fields)
           /\ id[1] = id[6] <=> "provider" \notin Range(code.fields)
           /\ id[3] = id[4] => "tenant_id" \notin Range(code.fields)
           /\ id[3] = id[5] => "tenant_id" \notin Range(code.fields)
           /\ id[3] = id[6] => "tenant_id" \notin Range(code.fields)
           /\ id[4] = id[5] => "revision" \notin Range(code.fields)
           /\ id[4] = id[6] => "revision" \notin Range(code.fields)
           /\ id[5] = id[6] => "event_type" \notin Range(code.fields)
           /\ Range(code.fields) # {} => \A i \in 1..6 : id[i] # <<>>
<1> DEFINE of(i) == Identity(code, LogicEvents[i])
<1>1. \A i \in 1..6 : id[i] = of(i)
  OBVIOUS
<1>2. /\ of(1) = of(2)
      /\ of(1) = of(3) <=> "tenant_id" \notin Range(code.fields)
      /\ of(1) = of(4) <=> "revision" \notin Range(code.fields)
      /\ of(1) = of(5) <=> "event_type" \notin Range(code.fields)
      /\ of(1) = of(6) <=> "provider" \notin Range(code.fields)
  <2>1. of(1) = of(2)
    BY LogicSamples, SampleIdentity
  <2>2. of(1) = of(3) <=> "tenant_id" \notin Range(code.fields)
    BY LogicSamples, SampleIdentity
  <2>3. of(1) = of(4) <=> "revision" \notin Range(code.fields)
    BY LogicSamples, SampleIdentity
  <2>4. of(1) = of(5) <=> "event_type" \notin Range(code.fields)
    BY LogicSamples, SampleIdentity
  <2>5. of(1) = of(6) <=> "provider" \notin Range(code.fields)
    BY LogicSamples, SampleIdentity
  <2>6. QED
    BY <2>1, <2>2, <2>3, <2>4, <2>5
<1>3. /\ of(3) = of(4) => "tenant_id" \notin Range(code.fields)
      /\ of(3) = of(5) => "tenant_id" \notin Range(code.fields)
      /\ of(3) = of(6) => "tenant_id" \notin Range(code.fields)
      /\ of(4) = of(5) => "revision" \notin Range(code.fields)
      /\ of(4) = of(6) => "revision" \notin Range(code.fields)
      /\ of(5) = of(6) => "event_type" \notin Range(code.fields)
  <2>1. of(3) = of(4) => "tenant_id" \notin Range(code.fields)
    BY LogicSamples, SampleIdentity
  <2>2. of(3) = of(5) => "tenant_id" \notin Range(code.fields)
    BY LogicSamples, SampleIdentity
  <2>3. of(3) = of(6) => "tenant_id" \notin Range(code.fields)
    BY LogicSamples, SampleIdentity
  <2>4. of(4) = of(5) => "revision" \notin Range(code.fields)
    BY LogicSamples, SampleIdentity
  <2>5. of(4) = of(6) => "revision" \notin Range(code.fields)
    BY LogicSamples, SampleIdentity
  <2>6. of(5) = of(6) => "event_type" \notin Range(code.fields)
    BY LogicSamples, SampleIdentity
  <2>7. QED
    BY <2>1, <2>2, <2>3, <2>4, <2>5, <2>6
<1>4. Range(code.fields) # {} => \A i \in 1..6 : of(i) # <<>>
  <2>1. \A i \in 1..6 : i = 1 \/ i = 2 \/ i = 3 \/ i = 4 \/ i = 5 \/ i = 6
    OBVIOUS
  <2>2. QED
    BY <2>1, LogicSamples, SampleIsNotEmpty
<1> HIDE DEF of
<1>5. QED
  BY <1>1, <1>2, <1>3, <1>4

\* Four values that are one.
OneOf(a, b, c, d) == Cardinality({a, b, c, d}) = 1

\* They are all equal.
LEMMA OneOfFour ==
    ASSUME NEW a, NEW b, NEW c, NEW d
    PROVE  OneOf(a, b, c, d) <=> b = a /\ c = a /\ d = a
<1>1. IsFiniteSet({a, b, c, d})
  <2>1. {a, b, c, d} = (({a} \cup {b}) \cup {c}) \cup {d}
    OBVIOUS
  <2>2. IsFiniteSet({a})
    BY FS_Singleton
  <2>3. IsFiniteSet({a} \cup {b})
    BY <2>2, FS_AddElement
  <2>4. IsFiniteSet(({a} \cup {b}) \cup {c})
    BY <2>3, FS_AddElement
  <2>5. IsFiniteSet((({a} \cup {b}) \cup {c}) \cup {d})
    BY <2>4, FS_AddElement
  <2>6. QED
    BY <2>1, <2>5
<1> DEFINE S == {a, b, c, d}
<1>2. (\E x : S = {x}) <=> b = a /\ c = a /\ d = a
  OBVIOUS
<1> HIDE DEF S
<1>3. Cardinality(S) = 1 <=> \E x : S = {x}
  BY <1>1, FS_Singleton DEF S
<1>4. QED
  BY <1>2, <1>3 DEF S, OneOf

\* Of the candidates it can evaluate the controller's verifier accepts exactly
\* the discerning ones: its six samples and four trial events say neither less
\* nor more (verifiers/event_indexing_logic.py:73-125).
THEOREM LogicAcceptsTheDiscerning ==
    ASSUME NEW c, c.event \in Code, c.document \in Code
    PROVE  LogicAccepts(c) <=> Probed(c) /\ Discerning(c)
<1> DEFINE key == [i \in 1..6 |-> Identity(c.event, LogicEvents[i])]
           doc == [i \in 1..6 |-> Identity(c.document, LogicEvents[i])]
           step(store, i) == Consume(store, key[i], doc[i], LogicEvents[i])
           end == step(step(step(step(Emptied, 1), 3), 2), 4)
           stored == {end.documents[d] : d \in DOMAIN end.documents}
<1>1. LogicAccepts(c) <=>
        /\ Probed(c)
        /\ \A i \in 1..6 : key[i] # <<>> /\ doc[i] # <<>>
        /\ key[1] = key[2]
        /\ Cardinality(Range(key)) = 5
        /\ key[1] \notin {key[i] : i \in 3..6}
        /\ Cardinality({doc[i] : i \in {1, 2, 4, 5}}) = 1
        /\ doc[1] \notin {doc[3], doc[6]}
        /\ Cardinality(Range(doc)) = 3
        /\ end.outcomes = <<"indexed", "indexed", "duplicate", "indexed">>
        /\ Cardinality(end.ledger) = 3
        /\ Cardinality(DOMAIN end.documents) = 2
        /\ {<<e.tenant_id, e.revision>> : e \in stored}
             = {<<<<"org">>, <<"8">>>>, <<<<"org-other">>, <<"7">>>>}
  BY Zenon DEF LogicAccepts
<1>2. /\ key[1] = key[2]
      /\ key[1] = key[3] <=> "tenant_id" \notin Range(c.event.fields)
      /\ key[1] = key[4] <=> "revision" \notin Range(c.event.fields)
      /\ key[1] = key[5] <=> "event_type" \notin Range(c.event.fields)
      /\ key[1] = key[6] <=> "provider" \notin Range(c.event.fields)
      /\ key[3] = key[4] => "tenant_id" \notin Range(c.event.fields)
      /\ key[3] = key[5] => "tenant_id" \notin Range(c.event.fields)
      /\ key[3] = key[6] => "tenant_id" \notin Range(c.event.fields)
      /\ key[4] = key[5] => "revision" \notin Range(c.event.fields)
      /\ key[4] = key[6] => "revision" \notin Range(c.event.fields)
      /\ key[5] = key[6] => "event_type" \notin Range(c.event.fields)
      /\ Range(c.event.fields) # {} => \A i \in 1..6 : key[i] # <<>>
  BY LogicIdentities
<1>3. /\ doc[1] = doc[2]
      /\ doc[1] = doc[3] <=> "tenant_id" \notin Range(c.document.fields)
      /\ doc[1] = doc[4] <=> "revision" \notin Range(c.document.fields)
      /\ doc[1] = doc[5] <=> "event_type" \notin Range(c.document.fields)
      /\ doc[1] = doc[6] <=> "provider" \notin Range(c.document.fields)
      /\ doc[3] = doc[6] => "tenant_id" \notin Range(c.document.fields)
      /\ Range(c.document.fields) # {} => \A i \in 1..6 : doc[i] # <<>>
  BY LogicIdentities
<1>4. DOMAIN key = 1..6 /\ DOMAIN doc = 1..6
  OBVIOUS
<1>5. end = Consume(Consume(Consume(Consume(Emptied,
                key[1], doc[1], LogicEvents[1]),
                key[3], doc[3], LogicEvents[3]),
                key[2], doc[2], LogicEvents[2]),
                key[4], doc[4], LogicEvents[4])
  OBVIOUS
<1> HIDE DEF key, doc, end
<1>6. Cardinality({doc[i] : i \in {1, 2, 4, 5}}) = 1
        <=> doc[2] = doc[1] /\ doc[4] = doc[1] /\ doc[5] = doc[1]
  <2>1. {doc[i] : i \in {1, 2, 4, 5}} = {doc[1], doc[2], doc[4], doc[5]}
    OBVIOUS
  <2>2. OneOf(doc[1], doc[2], doc[4], doc[5])
          <=> doc[2] = doc[1] /\ doc[4] = doc[1] /\ doc[5] = doc[1]
    BY OneOfFour
  <2>3. QED
    BY <2>1, <2>2 DEF OneOf
<1>7. key[1] \notin {key[i] : i \in 3..6}
        <=> /\ key[1] # key[3] /\ key[1] # key[4] /\ key[1] # key[5]
            /\ key[1] # key[6]
  <2>1. \A i : i \in 3..6 <=> i = 3 \/ i = 4 \/ i = 5 \/ i = 6
    OBVIOUS
  <2>2. QED
    BY <2>1
<1>8. LogicAccepts(c) => Probed(c) /\ Discerning(c)
  <2> SUFFICES ASSUME LogicAccepts(c)
               PROVE  Probed(c) /\ Discerning(c)
    OBVIOUS
  <2>1. {"event_type", "tenant_id", "provider", "revision"}
          \subseteq Range(c.event.fields)
    BY <1>1, <1>2, <1>7
  <2>2. /\ {"tenant_id", "provider"} \subseteq Range(c.document.fields)
        /\ "event_type" \notin Range(c.document.fields)
        /\ "revision" \notin Range(c.document.fields)
    BY <1>1, <1>3, <1>6
  <2>3. Probed(c)
    BY <1>1
  <2>4. QED
    BY <2>1, <2>2, <2>3 DEF Discerning
<1>9. Probed(c) /\ Discerning(c) => LogicAccepts(c)
  <2> SUFFICES ASSUME Probed(c), Discerning(c)
               PROVE  LogicAccepts(c)
    OBVIOUS
  <2>1. /\ "event_type" \in Range(c.event.fields)
        /\ "tenant_id" \in Range(c.event.fields)
        /\ "provider" \in Range(c.event.fields)
        /\ "revision" \in Range(c.event.fields)
        /\ "tenant_id" \in Range(c.document.fields)
        /\ "provider" \in Range(c.document.fields)
        /\ "event_type" \notin Range(c.document.fields)
        /\ "revision" \notin Range(c.document.fields)
    BY DEF Discerning
  <2>2. /\ key[1] # key[3] /\ key[1] # key[4] /\ key[1] # key[5]
        /\ key[1] # key[6] /\ key[3] # key[4] /\ key[3] # key[5]
        /\ key[3] # key[6] /\ key[4] # key[5] /\ key[4] # key[6]
        /\ key[5] # key[6] /\ \A i \in 1..6 : key[i] # <<>>
    BY <1>2, <2>1
  <2>3. /\ doc[1] # doc[3] /\ doc[1] # doc[6] /\ doc[3] # doc[6]
        /\ doc[4] = doc[1] /\ doc[5] = doc[1] /\ doc[2] = doc[1]
        /\ \A i \in 1..6 : doc[i] # <<>>
    BY <1>3, <2>1
  <2>4. \A i : i \in 1..6
               <=> i = 1 \/ i = 2 \/ i = 3 \/ i = 4 \/ i = 5 \/ i = 6
    OBVIOUS
  <2>5. Cardinality(Range(key)) = 5
    <3>1. Range(key) = {key[1], key[3], key[4], key[5], key[6]}
      BY <1>2, <1>4, <2>4 DEF Range
    <3>2. Counts({key[1], key[3], key[4], key[5], key[6]}, 5)
      BY <2>2, SmallSets
    <3>3. QED
      BY <3>1, <3>2 DEF Counts
  <2>6. Cardinality(Range(doc)) = 3
    <3>1. Range(doc) = {doc[1], doc[3], doc[6]}
      BY <1>4, <2>3, <2>4 DEF Range
    <3>2. Counts({doc[1], doc[3], doc[6]}, 3)
      BY <2>3, SmallSets
    <3>3. QED
      BY <3>1, <3>2 DEF Counts
  <2>7. /\ end.outcomes = <<"indexed", "indexed", "duplicate", "indexed">>
        /\ end.ledger = {key[1], key[3], key[4]}
        /\ DOMAIN end.documents = {doc[1], doc[3]}
        /\ end.documents[doc[1]] = LogicEvents[4]
        /\ end.documents[doc[3]] = LogicEvents[3]
    <3>1. Trial(end, key[1], doc[1], LogicEvents[1],
                     key[3], doc[3], LogicEvents[3],
                             doc[2], LogicEvents[2],
                     key[4],         LogicEvents[4])
      BY <1>2, <1>5, <2>3 DEF Trial
    <3>2. Tried(end, key[1], key[3], key[4], doc[1], LogicEvents[4],
                doc[3], LogicEvents[3])
      BY <2>2, <2>3, <3>1, FourConsumed
    <3>3. QED
      BY <3>2 DEF Tried
  <2>8. Cardinality(end.ledger) = 3 /\ Cardinality(DOMAIN end.documents) = 2
    <3>1. Counts({key[1], key[3], key[4]}, 3) /\ Counts({doc[1], doc[3]}, 2)
      BY <2>2, <2>3, SmallSets
    <3>2. QED
      BY <2>7, <3>1 DEF Counts
  <2>9. {<<e.tenant_id, e.revision>> : e \in stored}
          = {<<<<"org">>, <<"8">>>>, <<<<"org-other">>, <<"7">>>>}
    <3>1. stored = {LogicEvents[4], LogicEvents[3]}
      BY <2>7
    <3>2. /\ LogicEvents[4].tenant_id = <<"org">>
          /\ LogicEvents[4].revision = <<"8">>
          /\ LogicEvents[3].tenant_id = <<"org-other">>
          /\ LogicEvents[3].revision = <<"7">>
      BY LogicSamples DEF HasWords
    <3> HIDE DEF stored
    <3>3. QED
      BY <3>1, <3>2
  <2>10. /\ key[1] \notin {key[i] : i \in 3..6}
         /\ Cardinality({doc[i] : i \in {1, 2, 4, 5}}) = 1
         /\ doc[1] \notin {doc[3], doc[6]}
    BY <1>6, <1>7, <2>2, <2>3
  <2>11. QED
    BY <1>1, <1>2, <2>2, <2>3, <2>5, <2>6, <2>7, <2>8, <2>9, <2>10
<1>10. QED
  BY <1>8, <1>9

\* The repository's own tests, on five other events, accept exactly the
\* discerning candidates, whether or not the verifiers can evaluate them
\* (tests/test_identity.py of the fixture).
THEOREM TestsAcceptTheDiscerning ==
    ASSUME NEW c, c.event \in Code, c.document \in Code
    PROVE  TestsAccept(c) <=> Discerning(c)
<1> DEFINE base == Sample("ready", "org-alpha", "source-a", "7")
           tenant == Sample("ready", "org-beta", "source-a", "7")
           newer == Sample("ready", "org-alpha", "source-a", "8")
           redacted == Sample("redacted", "org-alpha", "source-a", "7")
           teams == Sample("ready", "org-alpha", "teams", "7")
           key(e) == Identity(c.event, e)
           doc(e) == Identity(c.document, e)
           step(store, e) == Consume(store, key(e), doc(e), e)
           end == step(step(step(step(Emptied, base), tenant), base), newer)
<1>1. TestsAccept(c) <=>
        /\ key(base) \notin {key(e) : e \in {tenant, newer, redacted, teams}}
        /\ doc(base) \notin {doc(tenant), doc(teams)}
        /\ doc(base) = doc(newer) /\ doc(base) = doc(redacted)
        /\ end.outcomes = <<"indexed", "indexed", "duplicate", "indexed">>
        /\ Cardinality(end.ledger) = 3
        /\ Cardinality(DOMAIN end.documents) = 2
  BY Zenon DEF TestsAccept
<1>2. /\ HasWords(base, "ready", "org-alpha", "source-a", "7")
      /\ HasWords(tenant, "ready", "org-beta", "source-a", "7")
      /\ HasWords(newer, "ready", "org-alpha", "source-a", "8")
      /\ HasWords(redacted, "redacted", "org-alpha", "source-a", "7")
      /\ HasWords(teams, "ready", "org-alpha", "teams", "7")
  <2>1. /\ "ready" \in Word /\ "redacted" \in Word /\ "org-alpha" \in Word
        /\ "org-beta" \in Word /\ "source-a" \in Word /\ "teams" \in Word
        /\ "7" \in Word /\ "8" \in Word
    BY DEF Word
  <2>2. QED
    BY <2>1, SampleWords
<1>3. end = Consume(Consume(Consume(Consume(Emptied,
                key(base), doc(base), base), key(tenant), doc(tenant), tenant),
                key(base), doc(base), base), key(newer), doc(newer), newer)
  OBVIOUS
<1>4. key(base) \notin {key(e) : e \in {tenant, newer, redacted, teams}}
        <=> /\ key(base) # key(tenant) /\ key(base) # key(newer)
            /\ key(base) # key(redacted) /\ key(base) # key(teams)
  OBVIOUS
<1> HIDE DEF base, tenant, newer, redacted, teams
<1>5. /\ key(base) = key(tenant) <=> "tenant_id" \notin Range(c.event.fields)
      /\ key(base) = key(newer) <=> "revision" \notin Range(c.event.fields)
      /\ key(base) = key(redacted) <=> "event_type" \notin Range(c.event.fields)
      /\ key(base) = key(teams) <=> "provider" \notin Range(c.event.fields)
      /\ key(tenant) = key(newer) => "tenant_id" \notin Range(c.event.fields)
  <2>1. key(base) = key(tenant) <=> "tenant_id" \notin Range(c.event.fields)
    BY <1>2, SampleIdentity
  <2>2. key(base) = key(newer) <=> "revision" \notin Range(c.event.fields)
    BY <1>2, SampleIdentity
  <2>3. key(base) = key(redacted) <=> "event_type" \notin Range(c.event.fields)
    BY <1>2, SampleIdentity
  <2>4. key(base) = key(teams) <=> "provider" \notin Range(c.event.fields)
    BY <1>2, SampleIdentity
  <2>5. key(tenant) = key(newer) => "tenant_id" \notin Range(c.event.fields)
    BY <1>2, SampleIdentity
  <2>6. QED
    BY <2>1, <2>2, <2>3, <2>4, <2>5
<1>6. /\ doc(base) = doc(tenant) <=> "tenant_id" \notin Range(c.document.fields)
      /\ doc(base) = doc(newer) <=> "revision" \notin Range(c.document.fields)
      /\ doc(base) = doc(redacted)
           <=> "event_type" \notin Range(c.document.fields)
      /\ doc(base) = doc(teams) <=> "provider" \notin Range(c.document.fields)
  <2>1. doc(base) = doc(tenant) <=> "tenant_id" \notin Range(c.document.fields)
    BY <1>2, SampleIdentity
  <2>2. doc(base) = doc(newer) <=> "revision" \notin Range(c.document.fields)
    BY <1>2, SampleIdentity
  <2>3. doc(base) = doc(redacted)
          <=> "event_type" \notin Range(c.document.fields)
    BY <1>2, SampleIdentity
  <2>4. doc(base) = doc(teams) <=> "provider" \notin Range(c.document.fields)
    BY <1>2, SampleIdentity
  <2>5. QED
    BY <2>1, <2>2, <2>3, <2>4
<1> HIDE DEF key, doc, end
<1>7. TestsAccept(c) => Discerning(c)
  BY <1>1, <1>4, <1>5, <1>6 DEF Discerning
<1>8. Discerning(c) => TestsAccept(c)
  <2> SUFFICES ASSUME Discerning(c)
               PROVE  TestsAccept(c)
    OBVIOUS
  <2>1. /\ "event_type" \in Range(c.event.fields)
        /\ "tenant_id" \in Range(c.event.fields)
        /\ "provider" \in Range(c.event.fields)
        /\ "revision" \in Range(c.event.fields)
        /\ "tenant_id" \in Range(c.document.fields)
        /\ "provider" \in Range(c.document.fields)
        /\ "event_type" \notin Range(c.document.fields)
        /\ "revision" \notin Range(c.document.fields)
    BY DEF Discerning
  <2>2. /\ key(base) # key(tenant) /\ key(base) # key(newer)
        /\ key(base) # key(redacted) /\ key(base) # key(teams)
        /\ key(tenant) # key(newer)
    BY <1>5, <2>1
  <2>3. /\ doc(base) # doc(tenant) /\ doc(base) # doc(teams)
        /\ doc(base) = doc(newer) /\ doc(base) = doc(redacted)
    BY <1>6, <2>1
  <2>4. Trial(end, key(base), doc(base), base, key(tenant), doc(tenant), tenant,
              doc(base), base, key(newer), newer)
    BY <1>3, <2>3 DEF Trial
  <2>5. Tried(end, key(base), key(tenant), key(newer), doc(base), newer,
              doc(tenant), tenant)
    BY <2>2, <2>3, <2>4, FourConsumed
  <2>6. /\ Counts({key(base), key(tenant), key(newer)}, 3)
        /\ Counts({doc(base), doc(tenant)}, 2)
    BY <2>2, <2>3, SmallSets
  <2>7. /\ end.outcomes = <<"indexed", "indexed", "duplicate", "indexed">>
        /\ Cardinality(end.ledger) = 3
        /\ Cardinality(DOMAIN end.documents) = 2
    BY <2>5, <2>6 DEF Tried, Counts
  <2>8. QED
    BY <1>1, <1>4, <2>2, <2>3, <2>7
<1>9. QED
  BY <1>7, <1>8

\* The service verifier's four events under a discerning candidate: the replay
\* is the first event's, a revision has a key of its own and the record's
\* document, another tenant has neither.
LEMMA IntegrationIdentities ==
    ASSUME NEW c, c.event \in Code, c.document \in Code,
           Discerning(c),
           NEW key, key = [i \in 1..4 |-> IntegrationKey(c, i)],
           NEW doc, doc = [i \in 1..4 |-> IntegrationDocument(c, i)]
    PROVE  /\ key[1] = key[2] /\ key[1] # key[3] /\ key[1] # key[4]
           /\ key[3] # key[4]
           /\ doc[1] = doc[2] /\ doc[1] = doc[3] /\ doc[1] # doc[4]
           /\ \A i \in 1..4 : key[i] # <<>> /\ doc[i] # <<>>
<1> DEFINE e(i) == IntegrationEvents[i]
<1>1. /\ e(1) = Sample("ready", "org-alpha", "source-a", "7")
      /\ e(2) = Sample("ready", "org-alpha", "source-a", "7")
      /\ e(3) = Sample("ready", "org-alpha", "source-a", "8")
      /\ e(4) = Sample("ready", "org-beta", "source-a", "7")
  BY DEF IntegrationEvents
<1>2. \A i \in 1..4 : /\ key[i] = Identity(c.event, e(i))
                      /\ doc[i] = Identity(c.document, e(i))
  BY DEF IntegrationKey, IntegrationDocument
<1> HIDE DEF e
<1>3. /\ HasWords(e(1), "ready", "org-alpha", "source-a", "7")
      /\ HasWords(e(2), "ready", "org-alpha", "source-a", "7")
      /\ HasWords(e(3), "ready", "org-alpha", "source-a", "8")
      /\ HasWords(e(4), "ready", "org-beta", "source-a", "7")
  <2>1. /\ "ready" \in Word /\ "org-alpha" \in Word /\ "org-beta" \in Word
        /\ "source-a" \in Word /\ "7" \in Word /\ "8" \in Word
    BY DEF Word
  <2>2. QED
    BY <1>1, <2>1, SampleWords
<1>4. /\ "tenant_id" \in Range(c.event.fields)
      /\ "revision" \in Range(c.event.fields)
      /\ "tenant_id" \in Range(c.document.fields)
      /\ "revision" \notin Range(c.document.fields)
  BY DEF Discerning
<1>5. Identity(c.event, e(1)) = Identity(c.event, e(2))
  BY <1>3, SampleIdentity
<1>6. Identity(c.event, e(1)) # Identity(c.event, e(3))
  BY <1>3, <1>4, SampleIdentity
<1>7. Identity(c.event, e(1)) # Identity(c.event, e(4))
  BY <1>3, <1>4, SampleIdentity
<1>8. Identity(c.event, e(3)) # Identity(c.event, e(4))
  BY <1>3, <1>4, SampleIdentity
<1>9. Identity(c.document, e(1)) = Identity(c.document, e(2))
  BY <1>3, SampleIdentity
<1>10. Identity(c.document, e(1)) = Identity(c.document, e(3))
  BY <1>3, <1>4, SampleIdentity
<1>11. Identity(c.document, e(1)) # Identity(c.document, e(4))
  BY <1>3, <1>4, SampleIdentity
<1>12. \A i \in 1..4 : /\ Identity(c.event, e(i)) # <<>>
                       /\ Identity(c.document, e(i)) # <<>>
  <2>1. \A i \in 1..4 : i = 1 \/ i = 2 \/ i = 3 \/ i = 4
    OBVIOUS
  <2>2. Range(c.event.fields) # {} /\ Range(c.document.fields) # {}
    BY <1>4
  <2>3. QED
    BY <1>3, <2>1, <2>2, SampleIsNotEmpty
<1>13. QED
  BY <1>2, <1>5, <1>6, <1>7, <1>8, <1>9, <1>10, <1>11, <1>12

\* Whoever the controller's verifier accepts passes the service verifier's
\* look at the identities, before it touches a service.
THEOREM TheDiscerningAreProbed ==
    ASSUME NEW c, c.event \in Code, c.document \in Code,
           Probed(c), Discerning(c)
    PROVE  IdentitiesAccepted(c)
<1> DEFINE key == [i \in 1..4 |-> IntegrationKey(c, i)]
           doc == [i \in 1..4 |-> IntegrationDocument(c, i)]
<1>1. /\ key[1] = key[2] /\ key[1] # key[3] /\ key[1] # key[4]
      /\ key[3] # key[4]
      /\ doc[1] = doc[2] /\ doc[1] = doc[3] /\ doc[1] # doc[4]
      /\ \A i \in 1..4 : key[i] # <<>> /\ doc[i] # <<>>
  BY IntegrationIdentities
<1>2. DOMAIN key = 1..4 /\ DOMAIN doc = 1..4
  OBVIOUS
<1>3. IdentitiesAccepted(c) <=>
        /\ Probed(c)
        /\ \A i \in 1..4 : key[i] # <<>> /\ doc[i] # <<>>
        /\ key[1] = key[2] /\ key[1] # key[3] /\ key[1] # key[4]
        /\ Cardinality(Range(key)) = 3
        /\ doc[1] = doc[2] /\ doc[1] = doc[3] /\ doc[1] # doc[4]
        /\ Cardinality(Range(doc)) = 2
  BY Zenon DEF IdentitiesAccepted
<1> HIDE DEF key, doc
<1>4. \A i : i \in 1..4 <=> i = 1 \/ i = 2 \/ i = 3 \/ i = 4
  OBVIOUS
<1>5. Range(key) = {key[1], key[3], key[4]} /\ Range(doc) = {doc[1], doc[4]}
  BY <1>1, <1>2, <1>4 DEF Range
<1>6. Counts({key[1], key[3], key[4]}, 3) /\ Counts({doc[1], doc[4]}, 2)
  BY <1>1, SmallSets
<1>7. QED
  BY <1>1, <1>3, <1>5, <1>6 DEF Counts

-----------------------------------------------------------------------------
(***************************************************************************)
(* What a discerning candidate is right about.  The judges see a dozen     *)
(* events; this is said of every event that its identities tell apart.     *)
(***************************************************************************)
\* An identity reads this event without losing a field: its values are free of
\* the separator, and if it does more than join them, they are single tokens
\* without capitals.
Legible(Token, code, e) ==
    /\ ":" \notin Token
    /\ \/ Joins(code) /\ \A x \in Field : e[x] \in Seq(Token)
       \/ /\ "ORG-A" \notin Token
          /\ \A x \in Field : \E w \in Token : e[x] = <<w>>

\* Such events are told apart by the fields the identity joins.
LEMMA IdentityTellsLegible ==
    ASSUME NEW Token, NEW code \in Code,
           NEW e, Legible(Token, code, e), NEW f, Legible(Token, code, f)
    PROVE  Identity(code, e) = Identity(code, f)
             <=> \A x \in Range(code.fields) : e[x] = f[x]
<1>1. CASE Joins(code)
  <2>1. \A w \in Token : <<w>> \in Seq(Token)
    OBVIOUS
  <2>2. /\ ":" \notin Token
        /\ \A x \in Field : e[x] \in Seq(Token)
        /\ \A x \in Field : f[x] \in Seq(Token)
    BY <2>1 DEF Legible
  <2> QED BY <1>1, <2>2, IdentityTellsFields
<1>2. CASE ~ Joins(code)
  <2>1. /\ ":" \notin Token /\ "ORG-A" \notin Token
        /\ \A x \in Field : \E w \in Token : e[x] = <<w>>
        /\ \A x \in Field : \E w \in Token : f[x] = <<w>>
    BY <1>2, Zenon DEF Legible
  <2> QED BY <2>1, IdentityTellsTokens
<1> QED BY <1>1, <1>2

\* Among the events of one external record that it can read a discerning
\* candidate gives two events one key only if they agree in every field, and
\* one document exactly if they have the same tenant and provider.
THEOREM TheDiscerningAreRightOnARecord ==
    ASSUME NEW Token, NEW c, c.event \in Code, c.document \in Code,
           Discerning(c),
           NEW e, Legible(Token, c.event, e), Legible(Token, c.document, e),
           NEW f, Legible(Token, c.event, f), Legible(Token, c.document, f),
           e.external_record_id = f.external_record_id
    PROVE  /\ Identity(c.event, e) = Identity(c.event, f)
                => \A x \in Field : e[x] = f[x]
           /\ Identity(c.document, e) = Identity(c.document, f)
                <=> TenantRecord(e) = TenantRecord(f)
<1> DEFINE Told(code) == Identity(code, e) = Identity(code, f)
                           <=> \A x \in Range(code.fields) : e[x] = f[x]
<1>0. \A code \in Code :
        Legible(Token, code, e) /\ Legible(Token, code, f) => Told(code)
  BY IdentityTellsLegible
<1>1. Told(c.event)
  <2> HIDE DEF Told
  <2> QED BY <1>0
<1>2. Told(c.document)
  <2> HIDE DEF Told
  <2> QED BY <1>0
<1>3. Range(c.document.fields) \subseteq Field
  BY DEF Range, Code
<1>4. TenantRecord(e) = TenantRecord(f)
        <=> /\ e.tenant_id = f.tenant_id /\ e.provider = f.provider
            /\ e.external_record_id = f.external_record_id
  BY DEF TenantRecord
<1>5. (\A x \in Range(c.event.fields) : e[x] = f[x])
        => \A x \in Field : e[x] = f[x]
  BY DEF Discerning, Field
<1>6. (\A x \in Range(c.document.fields) : e[x] = f[x])
        <=> e.tenant_id = f.tenant_id /\ e.provider = f.provider
  BY <1>3 DEF Discerning, Field
<1>7. QED
  BY <1>1, <1>2, <1>4, <1>5, <1>6

\* With the external record's ID in both identities it is right about all
\* events it can read, as the diagnosis asks
\* (fixtures/diagnoses/event-indexing-collision.json:11).
THEOREM TheCompleteAreRight ==
    ASSUME NEW Token, NEW c, c.event \in Code, c.document \in Code,
           Discerning(c),
           "external_record_id"
              \in Range(c.event.fields) \cap Range(c.document.fields),
           NEW e, Legible(Token, c.event, e), Legible(Token, c.document, e),
           NEW f, Legible(Token, c.event, f), Legible(Token, c.document, f)
    PROVE  /\ Identity(c.event, e) = Identity(c.event, f)
                => \A x \in Field : e[x] = f[x]
           /\ Identity(c.document, e) = Identity(c.document, f)
                <=> TenantRecord(e) = TenantRecord(f)
<1> DEFINE Told(code) == Identity(code, e) = Identity(code, f)
                           <=> \A x \in Range(code.fields) : e[x] = f[x]
<1>0. \A code \in Code :
        Legible(Token, code, e) /\ Legible(Token, code, f) => Told(code)
  BY IdentityTellsLegible
<1>1. Told(c.event)
  <2> HIDE DEF Told
  <2> QED BY <1>0
<1>2. Told(c.document)
  <2> HIDE DEF Told
  <2> QED BY <1>0
<1>3. Range(c.document.fields) \subseteq Field
  BY DEF Range, Code
<1>4. TenantRecord(e) = TenantRecord(f)
        <=> /\ e.tenant_id = f.tenant_id /\ e.provider = f.provider
            /\ e.external_record_id = f.external_record_id
  BY DEF TenantRecord
<1>5. (\A x \in Range(c.event.fields) : e[x] = f[x])
        => \A x \in Field : e[x] = f[x]
  BY DEF Discerning, Field
<1>6. (\A x \in Range(c.document.fields) : e[x] = f[x])
        <=> /\ e.tenant_id = f.tenant_id /\ e.provider = f.provider
            /\ e.external_record_id = f.external_record_id
  BY <1>3 DEF Discerning, Field
<1>7. QED
  BY <1>1, <1>2, <1>4, <1>5, <1>6

\* The reference repair is such a candidate, and joins whole fields.
LEMMA ReferenceIsComplete ==
    LET c == [event |-> Joining(ReferenceEventFields),
              document |-> Joining(ReferenceDocumentFields)]
    IN  /\ c.event \in Code /\ c.document \in Code
        /\ Joins(c.event) /\ Joins(c.document)
        /\ Discerning(c)
        /\ "external_record_id"
              \in Range(c.event.fields) \cap Range(c.document.fields)
<1> DEFINE E == ReferenceEventFields
           D == ReferenceDocumentFields
<1>1. /\ E \in Seq(Field) /\ DOMAIN E = 1..5
      /\ E[1] = "event_type" /\ E[2] = "provider"
      /\ E[3] = "external_record_id" /\ E[4] = "tenant_id"
      /\ E[5] = "revision"
  BY DEF ReferenceEventFields, Field
<1>2. /\ D \in Seq(Field) /\ DOMAIN D = 1..3
      /\ D[1] = "tenant_id" /\ D[2] = "provider"
      /\ D[3] = "external_record_id"
  BY DEF ReferenceDocumentFields, Field
<1> HIDE DEF E, D
<1>3. Range(E) = Field
  <2>1. \A i : i \in 1..5 <=> i = 1 \/ i = 2 \/ i = 3 \/ i = 4 \/ i = 5
    OBVIOUS
  <2>2. QED
    BY <1>1, <2>1 DEF Range, Field
<1>4. Range(D) = {"tenant_id", "provider", "external_record_id"}
  <2>1. \A i : i \in 1..3 <=> i = 1 \/ i = 2 \/ i = 3
    OBVIOUS
  <2>2. QED
    BY <1>2, <2>1 DEF Range
<1>5. \A fields \in Seq(Field) :
        /\ Joining(fields) \in Code /\ Joins(Joining(fields))
        /\ Joining(fields).fields = fields
  BY DEF Joining, Joins, Code
<1> DEFINE c == [event |-> Joining(E), document |-> Joining(D)]
<1>6. c.event = Joining(E) /\ c.document = Joining(D)
  OBVIOUS
<1> HIDE DEF c
<1>7. /\ c.event \in Code /\ c.document \in Code
      /\ Joins(c.event) /\ Joins(c.document)
      /\ c.event.fields = E /\ c.document.fields = D
  BY <1>1, <1>2, <1>5, <1>6
<1>8. /\ Discerning(c)
      /\ "external_record_id"
            \in Range(c.event.fields) \cap Range(c.document.fields)
  BY <1>3, <1>4, <1>7 DEF Discerning, Field
<1>9. QED
  BY <1>7, <1>8, Zenon DEF c, E, D

-----------------------------------------------------------------------------
(***************************************************************************)
(* What it is not right about: values that only a separator keeps apart.   *)
(***************************************************************************)
\* The reference repair, with the fields of the document identity concatenated
\* without a separator.
Concatenating ==
    [event |-> Joining(ReferenceEventFields),
     document |-> [Joining(ReferenceDocumentFields) EXCEPT !.separator = <<>>]]

\* An event of this tenant and provider.
EventFrom(tenant, provider) ==
    [event_type |-> <<"ready">>, tenant_id |-> tenant, provider |-> provider,
     external_record_id |-> <<"record">>, revision |-> <<"7">>]

\* The tokens of two such events' records.
Syllable == {"org", "x", "source", "record"}

\* Three values, concatenated.
LEMMA ThreeConcatenated ==
    \A a, b, c \in Seq(Syllable) :
      Join(<<>>, <<a, b, c>>) = (a \o b) \o c
<1> TAKE a, b, c \in Seq(Syllable)
<1> DEFINE p == <<a, b, c>>
           P == Prefixes(<<>>, p)
<1>1. \A n \in 0 .. Len(p) : P[n] = Joined(<<>>, p, P, n)
  <2>1. Len(p) \in Nat
    OBVIOUS
  <2>2. P = [n \in 0 .. Len(p) |-> Joined(<<>>, p, P, n)]
    BY <2>1, PrefixesDef, Zenon
  <2> HIDE DEF p, P
  <2> QED BY <2>2
<1>2. Len(p) = 3 /\ p[1] = a /\ p[2] = b /\ p[3] = c
  OBVIOUS
<1>3. Join(<<>>, p) = P[3]
  BY <1>2 DEF Join
<1> HIDE DEF p, P
<1>4. P[1] = a
  <2>1. 1 \in 0 .. Len(p)
    BY <1>2
  <2> QED BY <1>1, <1>2, <2>1 DEF Joined
<1>5. P[2] = a \o b
  <2>1. 2 \in 0 .. Len(p) /\ 2 - 1 = 1
    BY <1>2
  <2>2. P[2] = (P[1] \o <<>>) \o p[2]
    <3>1. Joined(<<>>, p, P, 2) = (P[2 - 1] \o <<>>) \o p[2]
      BY DEF Joined
    <3>2. P[2] = Joined(<<>>, p, P, 2)
      BY <1>1, <2>1
    <3> QED BY <2>1, <3>1, <3>2
  <2>3. a \o <<>> = a
    BY ConcatEmptySeq
  <2> QED BY <1>2, <1>4, <2>2, <2>3
<1>6. P[3] = (a \o b) \o c
  <2>1. 3 \in 0 .. Len(p) /\ 3 - 1 = 2
    BY <1>2
  <2>2. P[3] = (P[2] \o <<>>) \o p[3]
    <3>1. Joined(<<>>, p, P, 3) = (P[3 - 1] \o <<>>) \o p[3]
      BY DEF Joined
    <3>2. P[3] = Joined(<<>>, p, P, 3)
      BY <1>1, <2>1
    <3> QED BY <2>1, <3>1, <3>2
  <2>3. (a \o b) \o <<>> = a \o b
    <3>1. a \o b \in Seq(Syllable)
      BY ConcatProperties
    <3> QED BY <3>1, ConcatEmptySeq
  <2> QED BY <1>2, <1>5, <2>2, <2>3
<1> QED BY <1>3, <1>6 DEF p

\* Every judge accepts the concatenation, and yet it gives the records of two
\* tenants one document if one value begins with what another ends with: that
\* the values are plain, or joined with the separator, is not said for nothing
\* above (the probe evaluates "+", verifiers/candidate_probe.py:182-183).
THEOREM ConcatenationMergesTenants ==
    LET e == EventFrom(<<"org", "x">>, <<"source">>)
        f == EventFrom(<<"org">>, <<"x", "source">>)
    IN  /\ LogicAccepts(Concatenating) /\ IdentitiesAccepted(Concatenating)
        /\ TestsAccept(Concatenating)
        /\ TenantRecord(e) # TenantRecord(f)
        /\ Identity(Concatenating.document, e)
             = Identity(Concatenating.document, f)
<1> DEFINE c == Concatenating
           D == ReferenceDocumentFields
           e == EventFrom(<<"org", "x">>, <<"source">>)
           f == EventFrom(<<"org">>, <<"x", "source">>)
<1>1. /\ c.event = Joining(ReferenceEventFields)
      /\ c.document = [fields |-> D, separator |-> <<>>, folded |-> {},
                       pure |-> TRUE]
  BY DEF Concatenating, Joining
<1>2. LET r == [event |-> Joining(ReferenceEventFields),
                document |-> Joining(D)]
      IN  /\ r.event \in Code /\ r.document \in Code /\ Discerning(r)
  BY ReferenceIsComplete
<1>3. /\ c.event \in Code /\ c.document \in Code
      /\ Probed(c) /\ Discerning(c)
  BY <1>1, <1>2 DEF Code, Joining, Probed, Discerning
<1>4. LogicAccepts(c) /\ IdentitiesAccepted(c) /\ TestsAccept(c)
  BY <1>3, LogicAcceptsTheDiscerning, TestsAcceptTheDiscerning,
     TheDiscerningAreProbed
<1>5. TenantRecord(e) # TenantRecord(f)
  BY DEF TenantRecord, EventFrom
<1>6. \A g : Identity(c.document, g)
              = Join(<<>>, <<g["tenant_id"], g["provider"],
                             g["external_record_id"]>>)
  <2> TAKE g
  <2>1. DOMAIN D = 1 .. 3 /\ D[1] = "tenant_id" /\ D[2] = "provider"
        /\ D[3] = "external_record_id"
    BY DEF ReferenceDocumentFields
  <2>2. \A x : Read(c.document, g, x) = g[x]
    BY <1>1 DEF Read
  <2>3. [i \in DOMAIN D |-> Read(c.document, g, D[i])]
          = <<g["tenant_id"], g["provider"], g["external_record_id"]>>
    <3> HIDE DEF c, D
    <3> QED BY <2>1, <2>2
  <2> QED BY <1>1, <2>3 DEF Identity
<1>7. Identity(c.document, e)
        = Join(<<>>, <<<<"org", "x">>, <<"source">>, <<"record">>>>)
  BY <1>6 DEF EventFrom
<1>8. Identity(c.document, f)
        = Join(<<>>, <<<<"org">>, <<"x", "source">>, <<"record">>>>)
  BY <1>6 DEF EventFrom
<1>9. /\ <<"org", "x">> \in Seq(Syllable) /\ <<"source">> \in Seq(Syllable)
      /\ <<"org">> \in Seq(Syllable) /\ <<"x", "source">> \in Seq(Syllable)
      /\ <<"record">> \in Seq(Syllable)
  BY DEF Syllable
<1>10. <<"org", "x">> \o <<"source">> = <<"org">> \o <<"x", "source">>
  OBVIOUS
<1>11. Identity(c.document, e) = Identity(c.document, f)
  <2>1. Identity(c.document, e)
          = (<<"org", "x">> \o <<"source">>) \o <<"record">>
    BY <1>7, <1>9, ThreeConcatenated, Zenon
  <2>2. Identity(c.document, f)
          = (<<"org">> \o <<"x", "source">>) \o <<"record">>
    BY <1>8, <1>9, ThreeConcatenated, Zenon
  <2> QED BY <1>10, <2>1, <2>2, Zenon
<1> QED BY <1>4, <1>5, <1>11
=============================================================================
