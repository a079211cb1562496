---------------------------- MODULE GrammarProofs ----------------------------
(***************************************************************************)
(* Proofs about a grammar in use: that its bit matrices are closed by      *)
(* Warshall's passes, that no call adds a rule twice or beside a sequence, *)
(* and that no call undoes a lock.                                         *)
(*                                                                         *)
(* The recursions of the precomputation are functions on 0 .. n.  That     *)
(* there is such a function, and what it keeps, is shown by induction over *)
(* the set of the n for which it holds.                                    *)
(***************************************************************************)
EXTENDS Grammar, WellFoundedInduction, SequenceTheorems, TLAPS

(* Induction over the naturals, for a set. *)
LEMMA SetInduction ==
    ASSUME NEW T, 0 \in T, \A n \in Nat : n \in T => n + 1 \in T
    PROVE  Nat \subseteq T
<1> DEFINE Bad == Nat \ T
<1> SUFFICES ASSUME Bad # {} PROVE FALSE
  OBVIOUS
<1>1. IsWellFoundedOn(OpToRel(<, Nat), Nat)
  BY NatLessThanWellFounded
<1>2. PICK x \in Bad : \A y \in Bad : ~ (<<y, x>> \in OpToRel(<, Nat))
  <2>1. Bad \subseteq Nat
    OBVIOUS
  <2> HIDE DEF Bad
  <2> QED BY <1>1, <2>1, WFMin
<1>3. \A y \in Bad : ~ (y < x)
  BY <1>2 DEF OpToRel
<1>4. x # 0 /\ x - 1 \in Nat /\ x - 1 < x
  OBVIOUS
<1>5. x - 1 \in T
  BY <1>3, <1>4
<1> QED BY <1>4, <1>5

-----------------------------------------------------------------------------
(***************************************************************************)
(* Bit matrices.                                                           *)
(***************************************************************************)
Transitive(R) == \A a, b, c : <<a, b>> \in R /\ <<b, c>> \in R => <<a, c>> \in R

\* One pass of transitive_closure.
Pass(before, size, k) ==
    before \cup {row \in 1 .. size : <<row, k>> \in before} \X Row(before, k)

Passes(f, matrix, size, n) ==
    f = [k \in 0 .. n |-> IF k = 0 THEN matrix ELSE Pass(f[k - 1], size, k)]

(* A pass of the closure over bit k adds the pairs that meet at k, and no others. *)
LEMMA PassBits ==
    ASSUME NEW size \in Nat, NEW before \in SUBSET ((1 .. size) \X (1 .. size)),
           NEW k \in 1 .. size
    PROVE  /\ Pass(before, size, k) \in SUBSET ((1 .. size) \X (1 .. size))
           /\ \A a, b : <<a, b>> \in Pass(before, size, k) <=>
                (\/ <<a, b>> \in before
                 \/ <<a, k>> \in before /\ <<k, b>> \in before)
<1>1. \A b : b \in Row(before, k) <=> <<k, b>> \in before
  BY DEF Row
<1>2. \A b : b \in Row(before, k) => b \in 1 .. size
  <2>1. \A b : <<k, b>> \in (1 .. size) \X (1 .. size) => b \in 1 .. size
    OBVIOUS
  <2> QED BY <1>1, <2>1
<1> QED BY <1>1, <1>2 DEF Pass

\* The passes are there for any size of the matrix.
LEMMA PassesExist ==
    ASSUME NEW size \in Nat, NEW matrix
    PROVE  \E f : Passes(f, matrix, size, size)
<1> DEFINE T == {n \in Nat : \E f : Passes(f, matrix, size, n)}
<1>1. 0 \in T
  <2>1. Passes([k \in 0 .. 0 |-> matrix], matrix, size, 0)
    BY DEF Passes
  <2> QED BY <2>1
<1>2. ASSUME NEW n \in Nat, n \in T PROVE n + 1 \in T
  <2>1. PICK f : Passes(f, matrix, size, n)
    BY <1>2
  <2> DEFINE e == [k \in 0 .. n + 1 |-> IF k = n + 1 THEN Pass(f[n], size, n + 1) ELSE f[k]]
  <2>2. \A k \in 0 .. n + 1 : e[k] = IF k = 0 THEN matrix ELSE Pass(e[k - 1], size, k)
    <3> TAKE k \in 0 .. n + 1
    <3>1. CASE k = n + 1
      BY <3>1
    <3>2. CASE k # n + 1
      <4>1. k \in 0 .. n /\ e[k] = f[k] /\ (k # 0 => k - 1 \in 0 .. n /\ e[k - 1] = f[k - 1])
        BY <3>2
      <4>2. f[k] = IF k = 0 THEN matrix ELSE Pass(f[k - 1], size, k)
        BY <2>1, <4>1 DEF Passes
      <4> QED BY <4>1, <4>2
    <3> QED BY <3>1, <3>2
  <2>3. Passes(e, matrix, size, n + 1)
    BY <2>2, Zenon DEF Passes
  <2> HIDE DEF e
  <2> QED BY <2>3
<1>3. Nat \subseteq T
  <2> HIDE DEF T
  <2> QED BY <1>1, <1>2, SetInduction
<1> QED BY <1>3

(* The recursive function of the closure exists: one pass for each row. *)
LEMMA ClosureByPasses ==
    ASSUME NEW size \in Nat, NEW matrix
    PROVE  \E f : /\ Passes(f, matrix, size, size)
                 /\ TransitiveClosure(matrix, size) = f[size]
<1> DEFINE f == CHOOSE h : Passes(h, matrix, size, size)
<1>1. Passes(f, matrix, size, size)
  BY PassesExist
<1>2. TransitiveClosure(matrix, size) = f[size]
  BY Zenon DEF TransitiveClosure, Passes, Pass
<1> HIDE DEF f
<1> QED BY <1>1, <1>2

\* What is closed after pass k: the ways through the first k rows.
ClosedTo(bits, k) ==
    \A j \in 1 .. k : \A a, b :
        <<a, j>> \in bits /\ <<j, b>> \in bits => <<a, b>> \in bits

(* After the pass for k + 1, paths over the first k + 1 places are single bits. *)
LEMMA PassCloses ==
    ASSUME NEW size \in Nat, NEW bits \in SUBSET ((1 .. size) \X (1 .. size)),
           NEW k \in Nat, k + 1 \in 1 .. size, ClosedTo(bits, k)
    PROVE  ClosedTo(Pass(bits, size, k + 1), k + 1)
<1> DEFINE new == Pass(bits, size, k + 1)
<1>1. \A a, b : <<a, b>> \in new <=>
        (\/ <<a, b>> \in bits
         \/ <<a, k + 1>> \in bits /\ <<k + 1, b>> \in bits)
  BY PassBits
<1> HIDE DEF new
<1> SUFFICES ASSUME NEW j \in 1 .. k + 1, NEW a, NEW b,
                    <<a, j>> \in new, <<j, b>> \in new
             PROVE  <<a, b>> \in new
  BY DEF ClosedTo, new
<1>2. CASE j = k + 1
  BY <1>1, <1>2
<1>3. CASE j \in 1 .. k
  <2>1. \A c, d : <<c, j>> \in bits /\ <<j, d>> \in bits => <<c, d>> \in bits
    BY <1>3 DEF ClosedTo
  <2> QED BY <1>1, <2>1
<1> QED BY <1>2, <1>3

\* transitive_closure makes of a matrix the least relation that holds it and is
\* transitive, for matrices of every size: the ways that reachability, what is nulled
\* with a symbol and the loop rules are read from (7359, 7655, 7760).
THEOREM ClosureIsLeast ==
    ASSUME NEW size \in Nat, NEW matrix \in SUBSET ((1 .. size) \X (1 .. size))
    PROVE  /\ matrix \subseteq TransitiveClosure(matrix, size)
           /\ TransitiveClosure(matrix, size) \subseteq (1 .. size) \X (1 .. size)
           /\ Transitive(TransitiveClosure(matrix, size))
           /\ \A R : matrix \subseteq R /\ Transitive(R)
                    => TransitiveClosure(matrix, size) \subseteq R
<1>1. PICK f : /\ Passes(f, matrix, size, size)
               /\ TransitiveClosure(matrix, size) = f[size]
  BY ClosureByPasses
<1> DEFINE
      Bits == (1 .. size) \X (1 .. size)
      Fits(k) ==
        /\ matrix \subseteq f[k]
        /\ f[k] \subseteq Bits
        /\ ClosedTo(f[k], k)
        /\ \A R : matrix \subseteq R /\ Transitive(R) => f[k] \subseteq R
      T == {n \in Nat : n <= size => Fits(n)}
<1>2. 0 \in T
  <2>1. f[0] = matrix
    BY <1>1 DEF Passes
  <2> QED BY <2>1 DEF ClosedTo
<1>3. ASSUME NEW k \in Nat, k \in T PROVE k + 1 \in T
  <2> SUFFICES ASSUME k + 1 <= size PROVE Fits(k + 1)
    OBVIOUS
  <2>1. Fits(k) /\ k + 1 \in 1 .. size
    BY <1>3
  <2>2. f[k + 1] = Pass(f[k], size, k + 1)
    BY <1>1, <2>1 DEF Passes
  <2>3. /\ f[k + 1] \subseteq Bits
        /\ \A a, b : <<a, b>> \in f[k + 1] <=>
            (\/ <<a, b>> \in f[k]
             \/ <<a, k + 1>> \in f[k] /\ <<k + 1, b>> \in f[k])
    BY <2>1, <2>2, PassBits
  <2>4. matrix \subseteq f[k + 1]
    BY <2>1, <2>2 DEF Pass
  <2>5. ClosedTo(f[k + 1], k + 1)
    BY <2>1, <2>2, PassCloses
  <2>6. ASSUME NEW R, matrix \subseteq R, Transitive(R) PROVE f[k + 1] \subseteq R
    <3>1. f[k] \subseteq R
      BY <2>1, <2>6
    <3> SUFFICES ASSUME NEW bit \in f[k + 1] PROVE bit \in R
      OBVIOUS
    <3>2. PICK a \in 1 .. size, b \in 1 .. size : bit = <<a, b>>
      BY <2>3
    <3>3. CASE <<a, b>> \in f[k]
      BY <3>1, <3>2, <3>3
    <3>4. CASE <<a, k + 1>> \in f[k] /\ <<k + 1, b>> \in f[k]
      <4>1. <<a, k + 1>> \in R /\ <<k + 1, b>> \in R
        BY <3>1, <3>4
      <4> QED BY <2>6, <3>2, <4>1 DEF Transitive
    <3> QED BY <2>3, <3>2, <3>3, <3>4
  <2> QED BY <2>3, <2>4, <2>5, <2>6
<1>4. Fits(size)
  <2>1. Nat \subseteq T
    <3> HIDE DEF T
    <3> QED BY <1>2, <1>3, SetInduction
  <2> QED BY <2>1
<1>5. Transitive(f[size])
  BY <1>4 DEF Transitive, ClosedTo
<1> QED BY <1>1, <1>4, <1>5

-----------------------------------------------------------------------------
(***************************************************************************)
(* Sequences, and the symbols and rules that a change keeps.               *)
(***************************************************************************)
LEMMA LenOfFunction ==
    ASSUME NEW n \in Nat, NEW s, s = [x \in 1 .. n |-> s[x]]
    PROVE  Len(s) = n /\ SeqShape(s)
<1> DEFINE S == {s[x] : x \in 1 .. n}
<1>1. s \in Seq(S)
  <2>1. s \in [1 .. n -> S]
    OBVIOUS
  <2> QED BY <2>1
<1>2. Len(s) \in Nat /\ DOMAIN s = 1 .. Len(s)
  <2> HIDE DEF S
  <2> QED BY <1>1
<1>3. DOMAIN s = 1 .. n
  OBVIOUS
<1>4. Len(s) = n
  BY <1>2, <1>3
<1> QED BY <1>4 DEF SeqShape

(* What Append does to the places of a sequence. *)
LEMMA AppendShape ==
    ASSUME NEW s, SeqShape(s), NEW e
    PROVE  /\ SeqShape(Append(s, e))
           /\ Len(Append(s, e)) = Len(s) + 1
           /\ \A x \in 1 .. Len(s) : Append(s, e)[x] = s[x]
           /\ Append(s, e)[Len(s) + 1] = e
<1> DEFINE S == {s[x] : x \in 1 .. Len(s)} \cup {e}
<1>1. s \in Seq(S) /\ e \in S
  BY DEF SeqShape
<1> HIDE DEF S
<1>2. PICK a : a = Append(s, e)
  OBVIOUS
<1>3. a \in Seq(S) /\ Len(a) = Len(s) + 1
  BY <1>1, <1>2, AppendProperties
<1>4. a \in [1 .. Len(a) -> S]
  BY <1>3
<1>5. SeqShape(a)
  BY <1>3, <1>4 DEF SeqShape
<1> QED BY <1>1, <1>2, <1>3, <1>5, AppendProperties

Locks == {<<"terminal", "terminalLocked">>, <<"valued", "valuedLocked">>}

\* The flags of a symbol that no call takes back, and the locked ones.
FlagsKept(is, new) ==
    /\ \A flag \in {"lhs", "sequenceLhs"} : flag \in is => flag \in new
    /\ \A p \in Locks :
          p[2] \in is => p[2] \in new /\ (p[1] \in new <=> p[1] \in is)

XsysKept(s, t) ==
    /\ SeqShape(t) /\ Len(s) <= Len(t)
    /\ \A x \in 1 .. Len(t) : XsyShape(t[x])
    /\ \A x \in 1 .. Len(s) : FlagsKept(s[x].is, t[x].is)

XrlKept(xrl, new) ==
    /\ XrlShape(new)
    /\ new.lhs = xrl.lhs /\ new.rhs = xrl.rhs
    /\ "sequence" \in new.is <=> "sequence" \in xrl.is

XrlsKept(s, t) ==
    /\ SeqShape(t) /\ Len(t) = Len(s)
    /\ \A r \in 1 .. Len(s) : XrlKept(s[r], t[r])

\* What every call leaves of a grammar but those that add a rule.
Kept(h, k) ==
    /\ GrammarShape(k)
    /\ XsysKept(h.xsys, k.xsys)
    /\ XrlsKept(h.xrls, k.xrls)
    /\ k.xrlTree = h.xrlTree \/ k.xrlTree = NoTree

(* What a call leaves alone is kept. *)
LEMMA KeptSame ==
    ASSUME NEW h, GrammarShape(h)
    PROVE  Kept(h, h)
BY DEF Kept, GrammarShape, XsysKept, XrlsKept, XrlKept, FlagsKept, Locks, XsysOf, XrlsOf,
       SeqShape

(* What two calls keep, one after the other, both keep. *)
LEMMA KeptTwice ==
    ASSUME NEW h, GrammarShape(h), NEW k, Kept(h, k), NEW m, Kept(k, m)
    PROVE  Kept(h, m)
<1>1. XsysKept(h.xsys, m.xsys)
  <2>1. Len(h.xsys) \in Nat /\ Len(k.xsys) \in Nat /\ Len(m.xsys) \in Nat
    BY DEF Kept, GrammarShape, SeqShape
  <2>2. Len(h.xsys) <= Len(k.xsys) /\ Len(k.xsys) <= Len(m.xsys)
    BY DEF Kept, XsysKept
  <2>3. \A x \in 1 .. Len(h.xsys) : /\ FlagsKept(h.xsys[x].is, k.xsys[x].is)
                                  /\ FlagsKept(k.xsys[x].is, m.xsys[x].is)
    BY <2>1, <2>2 DEF Kept, XsysKept
  <2>4. \A x \in 1 .. Len(h.xsys) : FlagsKept(h.xsys[x].is, m.xsys[x].is)
    BY <2>3 DEF FlagsKept, Locks
  <2> QED BY <2>1, <2>2, <2>4 DEF Kept, XsysKept
<1>2. XrlsKept(h.xrls, m.xrls)
  BY DEF Kept, XrlsKept, XrlKept
<1> QED BY <1>1, <1>2 DEF Kept

\* A grammar that keeps its rules knows them and tells them apart as before.
LEMMA KeptBuilt ==
    ASSUME NEW h, BuiltGrammar(h), NEW k, Kept(h, k)
    PROVE  BuiltGrammar(k)
<1>1. /\ Len(h.xsys) \in Nat /\ Len(k.xsys) \in Nat /\ Len(h.xsys) <= Len(k.xsys)
      /\ Len(k.xrls) = Len(h.xrls)
  BY DEF BuiltGrammar, GrammarShape, Kept, SeqShape, XsysKept, XrlsKept
<1>2. \A r \in XrlsOf(k) :
        /\ r \in XrlsOf(h)
        /\ k.xrls[r].lhs = h.xrls[r].lhs /\ k.xrls[r].rhs = h.xrls[r].rhs
        /\ SequenceIn(k, r) <=> SequenceIn(h, r)
  BY <1>1 DEF Kept, XrlsKept, XrlKept, XrlsOf, SequenceIn
<1>3. \A x \in XsysOf(h) :
        /\ x \in XsysOf(k)
        /\ "lhs" \in h.xsys[x].is => "lhs" \in k.xsys[x].is
        /\ "sequenceLhs" \in h.xsys[x].is => "sequenceLhs" \in k.xsys[x].is
  BY <1>1 DEF Kept, XsysKept, FlagsKept, XsysOf
<1>4. RulesAreKnown(k)
  BY <1>2, <1>3 DEF BuiltGrammar, Kept, RulesAreKnown
<1>5. RulesDiffer(k)
  BY <1>2 DEF BuiltGrammar, RulesDiffer
<1> QED BY <1>4, <1>5 DEF BuiltGrammar, Kept

(* A change that is not one of symbols or rules keeps them. *)
LEMMA KeptElsewhere ==
    ASSUME NEW h, GrammarShape(h), NEW k, GrammarFields(k),
           k.xsys = h.xsys, k.xrls = h.xrls, k.xrlTree = h.xrlTree \/ k.xrlTree = NoTree
    PROVE  Kept(h, k)
<1>1. GrammarShape(k)
  BY DEF GrammarShape, XsysOf, XrlsOf
<1> QED BY <1>1, KeptSame DEF Kept

(* A change of the symbols only. *)
LEMMA KeptXsys ==
    ASSUME NEW h, GrammarShape(h), NEW t, XsysKept(h.xsys, t)
    PROVE  Kept(h, [h EXCEPT !.xsys = t])
<1>1. PICK k : k = [h EXCEPT !.xsys = t]
  OBVIOUS
<1>2. /\ GrammarFields(k) /\ k.xsys = t
      /\ k.xrls = h.xrls /\ k.xrlTree = h.xrlTree
  BY <1>1 DEF GrammarShape, GrammarFields
<1>3. GrammarShape(k)
  BY <1>2 DEF GrammarShape, XsysOf, XrlsOf, XsysKept
<1>4. XrlsKept(h.xrls, k.xrls)
  BY <1>2, KeptSame DEF Kept
<1> QED BY <1>1, <1>2, <1>3, <1>4 DEF Kept

(* A change of the rules only. *)
LEMMA KeptXrls ==
    ASSUME NEW h, GrammarShape(h), NEW t, XrlsKept(h.xrls, t)
    PROVE  Kept(h, [h EXCEPT !.xrls = t])
<1>1. PICK k : k = [h EXCEPT !.xrls = t]
  OBVIOUS
<1>2. /\ GrammarFields(k) /\ k.xrls = t
      /\ k.xsys = h.xsys /\ k.xrlTree = h.xrlTree
  BY <1>1 DEF GrammarShape, GrammarFields
<1>3. GrammarShape(k)
  BY <1>2 DEF GrammarShape, XsysOf, XrlsOf, XrlsKept, XrlKept
<1>4. XsysKept(h.xsys, k.xsys)
  BY <1>2, KeptSame DEF Kept
<1> QED BY <1>1, <1>2, <1>3, <1>4 DEF Kept

\* One symbol changes, or none when there is no such symbol.
LEMMA KeptXsy ==
    ASSUME NEW h, GrammarShape(h), NEW x, NEW e,
           x \in XsysOf(h) => XsyShape(e) /\ FlagsKept(h.xsys[x].is, e.is)
    PROVE  Kept(h, [h EXCEPT !.xsys = [h.xsys EXCEPT ![x] = e]])
<1>1. PICK t : t = [h.xsys EXCEPT ![x] = e]
  OBVIOUS
<1>2. Len(h.xsys) \in Nat /\ t = [y \in 1 .. Len(h.xsys) |-> IF y = x THEN e ELSE h.xsys[y]]
  BY <1>1 DEF GrammarShape, SeqShape
<1>3. Len(t) = Len(h.xsys) /\ SeqShape(t)
  <2>1. t = [y \in 1 .. Len(h.xsys) |-> t[y]]
    BY <1>2
  <2> QED BY <1>2, <2>1, LenOfFunction
<1>4. \A y \in 1 .. Len(h.xsys) : XsyShape(t[y]) /\ FlagsKept(h.xsys[y].is, t[y].is)
  <2>1. \A y \in 1 .. Len(h.xsys) : XsyShape(h.xsys[y]) /\ FlagsKept(h.xsys[y].is, h.xsys[y].is)
    BY DEF GrammarShape, XsysOf, FlagsKept, Locks
  <2> QED BY <1>2, <2>1 DEF XsysOf
<1>5. XsysKept(h.xsys, t)
  <2>1. Len(h.xsys) <= Len(t)
    BY <1>2, <1>3
  <2> QED BY <1>3, <1>4, <2>1 DEF XsysKept
<1> QED BY <1>1, <1>5, KeptXsys

(* A change of one rule. *)
LEMMA KeptXrl ==
    ASSUME NEW h, GrammarShape(h), NEW r, NEW e,
           r \in XrlsOf(h) => XrlKept(h.xrls[r], e)
    PROVE  Kept(h, [h EXCEPT !.xrls = [h.xrls EXCEPT ![r] = e]])
<1>1. PICK t : t = [h.xrls EXCEPT ![r] = e]
  OBVIOUS
<1>2. Len(h.xrls) \in Nat /\ t = [q \in 1 .. Len(h.xrls) |-> IF q = r THEN e ELSE h.xrls[q]]
  BY <1>1 DEF GrammarShape, SeqShape
<1>3. Len(t) = Len(h.xrls) /\ SeqShape(t)
  <2>1. t = [q \in 1 .. Len(h.xrls) |-> t[q]]
    BY <1>2
  <2> QED BY <1>2, <2>1, LenOfFunction
<1>4. \A q \in 1 .. Len(h.xrls) : XrlKept(h.xrls[q], t[q])
  <2>1. \A q \in 1 .. Len(h.xrls) : XrlKept(h.xrls[q], h.xrls[q])
    BY DEF GrammarShape, XrlsOf, XrlKept
  <2> QED BY <1>2, <2>1 DEF XrlsOf
<1>5. XrlsKept(h.xrls, t)
  BY <1>3, <1>4 DEF XrlsKept
<1> QED BY <1>1, <1>5, KeptXrls

-----------------------------------------------------------------------------
(***************************************************************************)
(* Calls.                                                                  *)
(***************************************************************************)
LEMMA LeastOf ==
    ASSUME NEW S \in SUBSET Nat, S # {}
    PROVE  \E i \in S : \A j \in S : i <= j
<1>1. IsWellFoundedOn(OpToRel(<, Nat), Nat)
  BY NatLessThanWellFounded
<1>2. PICK i \in S : \A j \in S : ~ (<<j, i>> \in OpToRel(<, Nat))
  BY <1>1, WFMin
<1>3. \A j \in S : ~ (j < i)
  BY <1>2 DEF OpToRel
<1> QED BY <1>3

\* A call that is not refused has passed all its checks.
LEMMA FirstOfOk ==
    ASSUME NEW checks, Len(checks) \in Nat, FirstOf(checks) = Ok
    PROVE  \A i \in 1 .. Len(checks) : checks[i] = Ok
<1> DEFINE found == {i \in 1 .. Len(checks) : checks[i] # Ok}
<1> SUFFICES ASSUME found # {} PROVE FALSE
  OBVIOUS
<1>1. found \in SUBSET Nat
  OBVIOUS
<1>2. \E i \in found : \A j \in found : i <= j
  <2> HIDE DEF found
  <2> QED BY <1>1, LeastOf
<1>3. (CHOOSE i \in found : \A j \in found : i <= j) \in found
  <2> HIDE DEF found
  <2> QED BY <1>2
<1>4. FirstOf(checks) = checks[CHOOSE i \in found : \A j \in found : i <= j]
  BY Zenon DEF FirstOf
<1> QED BY <1>3, <1>4

(* A test that found no error was not met. *)
LEMMA HardOk ==
    ASSUME NEW holds \in BOOLEAN, NEW code
    PROVE  /\ Hard(holds, code) = Ok => ~ holds
           /\ Soft(holds, code) = Ok => ~ holds
<1>1. [code |-> code, value |-> -2] # Ok /\ [code |-> code, value |-> -1] # Ok
  <2>1. [code |-> code, value |-> -2].value = -2 /\ [code |-> code, value |-> -1].value = -1
    OBVIOUS
  <2> QED BY <2>1 DEF Ok
<1> QED BY <1>1 DEF Hard, Soft

(* A call that may fail keeps what its success keeps. *)
LEMMA KeptByCall ==
    ASSUME NEW problem, NEW answer, NEW new, GrammarShape(g),
           Call(problem, answer, new) \/ CallCleared(problem, answer, new),
           problem = Ok => Kept(g, new)
    PROVE  Kept(g, g')
BY KeptSame DEF Call, CallCleared

(* A call that only asks changes nothing. *)
LEMMA KeptByAsk ==
    ASSUME NEW problem, NEW answer, GrammarShape(g),
           Ask(problem, answer) \/ CallCleared(problem, answer, g)
    PROVE  Kept(g, g')
BY KeptSame DEF Ask, Call, CallCleared

(* The queries of an application keep symbols and rules. *)
LEMMA KeptByQuery ==
    ASSUME GrammarShape(g), AskNext
    PROVE  Kept(g, g')
<1>1. CASE GrammarQuery
  BY <1>1, KeptByAsk DEF GrammarQuery, HighestSymbolId, HighestRuleId, HighestZwaId, IrlCount,
     NsyCount, AhmCount, IsPrecomputed, HasCycle, StartSymbol, DefaultRank, EventCount,
     Event, ErrorClear
<1>2. CASE \E id \in Ids : SymbolQuery(id)
  <2> PICK id \in Ids : SymbolQuery(id)
    BY <1>2
  <2> QED BY KeptByAsk DEF SymbolQuery, SymbolIsStart, SymbolRank, SymbolIsValued,
     SymbolIsAccessible, SymbolIsCounted, SymbolIsNulling, SymbolIsNullable,
     SymbolIsTerminal, SymbolIsProductive, SymbolIsCompletionEvent, SymbolIsNulledEvent,
     SymbolIsPredictionEvent, IsDeclared, XsyNsy, XsyNullingNsy
<1>3. CASE \E id \in Ids : RuleQuery(id)
  <2> PICK id \in Ids : RuleQuery(id)
    BY <1>3
  <2> QED BY KeptByAsk DEF RuleQuery, RuleLhs, RuleLength, RuleRhs, RuleRank, RuleNullHigh,
     SequenceMin, SequenceSeparator, RuleIsKeepSeparation, RuleIsProperSeparation,
     RuleIsLoop, RuleIsNulling, RuleIsNullable, RuleIsAccessible, RuleIsProductive,
     RuleIsUsed
<1>4. CASE \E id \in Ids : InternalQuery(id)
  <2> PICK id \in Ids : InternalQuery(id)
    BY <1>4
  <2> QED BY KeptByAsk DEF InternalQuery, NsyIsStart, NsyIsLhs, NsyIsNulling, NsyIsSemantic,
     SourceXsy, NsyLhsXrl, NsyXrlOffset, NsyRank, IrlSemanticEquivalent, IrlLhs, IrlLength,
     IrlRhs, IrlIsVirtualLhs, IrlIsVirtualRhs, RealSymbolCount, VirtualStart, VirtualEnd,
     SourceXrl, IrlRank, IrlIsChaf, AhmIrl, AhmPosition, AhmPostdot
<1> QED BY <1>1, <1>2, <1>3, <1>4 DEF AskNext

-----------------------------------------------------------------------------
(***************************************************************************)
(* The changes that keep what there is.                                    *)
(***************************************************************************)
LEMMA KeptBySetting ==
    ASSUME GrammarShape(g)
    PROVE  /\ \A x : StartSymbolSet(x) => Kept(g, g')
           /\ \A rank : DefaultRankSet(rank) => Kept(g, g')
           /\ \A v : ZwaNew(v) => Kept(g, g')
           /\ \A zwa, r, ix : ZwaPlace(zwa, r, ix) => Kept(g, g')
<1>1. ASSUME NEW x PROVE Kept(g, [g EXCEPT !.start = x])
  <2>1. PICK k : k = [g EXCEPT !.start = x]
    OBVIOUS
  <2>2. GrammarFields(k) /\ k.xsys = g.xsys /\ k.xrls = g.xrls /\ k.xrlTree = g.xrlTree
    BY <2>1 DEF GrammarShape, GrammarFields
  <2> QED BY <2>1, <2>2, KeptElsewhere
<1>2. ASSUME NEW x PROVE Kept(g, [g EXCEPT !.defaultRank = x])
  <2>1. PICK k : k = [g EXCEPT !.defaultRank = x]
    OBVIOUS
  <2>2. GrammarFields(k) /\ k.xsys = g.xsys /\ k.xrls = g.xrls /\ k.xrlTree = g.xrlTree
    BY <2>1 DEF GrammarShape, GrammarFields
  <2> QED BY <2>1, <2>2, KeptElsewhere
<1>3. ASSUME NEW x PROVE Kept(g, [g EXCEPT !.zwas = x])
  <2>1. PICK k : k = [g EXCEPT !.zwas = x]
    OBVIOUS
  <2>2. GrammarFields(k) /\ k.xsys = g.xsys /\ k.xrls = g.xrls /\ k.xrlTree = g.xrlTree
    BY <2>1 DEF GrammarShape, GrammarFields
  <2> QED BY <2>1, <2>2, KeptElsewhere
<1>4. ASSUME NEW x PROVE Kept(g, [g EXCEPT !.zwps = x])
  <2>1. PICK k : k = [g EXCEPT !.zwps = x]
    OBVIOUS
  <2>2. GrammarFields(k) /\ k.xsys = g.xsys /\ k.xrls = g.xrls /\ k.xrlTree = g.xrlTree
    BY <2>1 DEF GrammarShape, GrammarFields
  <2> QED BY <2>1, <2>2, KeptElsewhere
<1>5. ASSUME NEW x, StartSymbolSet(x) PROVE Kept(g, g')
  BY <1>1, <1>5, KeptByCall DEF StartSymbolSet
<1>6. ASSUME NEW rank, DefaultRankSet(rank) PROVE Kept(g, g')
  BY <1>2, <1>6, KeptByCall DEF DefaultRankSet
<1>7. ASSUME NEW v, ZwaNew(v) PROVE Kept(g, g')
  BY <1>3, <1>7, KeptByCall DEF ZwaNew
<1>8. ASSUME NEW zwa, NEW r, NEW ix, ZwaPlace(zwa, r, ix) PROVE Kept(g, g')
  BY <1>4, <1>8, KeptByCall DEF ZwaPlace
<1> QED BY <1>5, <1>6, <1>7, <1>8

(* Flags that are left alone are kept. *)
LEMMA FlagsSame == \A is : FlagsKept(is, is)
BY DEF FlagsKept, Locks

(* A symbol with another value in one of its fields is still a symbol. *)
LEMMA XsyChanged ==
    ASSUME NEW xsy, XsyShape(xsy), NEW a
    PROVE  /\ XsyShape([xsy EXCEPT !.rank = a]) /\ [xsy EXCEPT !.rank = a].is = xsy.is
           /\ XsyShape([xsy EXCEPT !.is = a]) /\ [xsy EXCEPT !.is = a].is = a
           /\ XsyShape([xsy EXCEPT !.nulls = a]) /\ [xsy EXCEPT !.nulls = a].is = xsy.is
           /\ XsyShape([xsy EXCEPT !.nsy = a]) /\ [xsy EXCEPT !.nsy = a].is = xsy.is
           /\ XsyShape([xsy EXCEPT !.nullingNsy = a])
           /\ [xsy EXCEPT !.nullingNsy = a].is = xsy.is
           /\ XsyShape([xsy EXCEPT !.startsActive = a])
           /\ [xsy EXCEPT !.startsActive = a].is = xsy.is
           /\ XsyShape([xsy EXCEPT !.declared = a])
           /\ [xsy EXCEPT !.declared = a].is = xsy.is
<1>1. XsyShape([xsy EXCEPT !.rank = a]) /\ [xsy EXCEPT !.rank = a].is = xsy.is
  BY DEF XsyShape
<1>2. XsyShape([xsy EXCEPT !.is = a]) /\ [xsy EXCEPT !.is = a].is = a
  BY DEF XsyShape
<1>3. XsyShape([xsy EXCEPT !.nulls = a]) /\ [xsy EXCEPT !.nulls = a].is = xsy.is
  BY DEF XsyShape
<1>4. XsyShape([xsy EXCEPT !.nsy = a]) /\ [xsy EXCEPT !.nsy = a].is = xsy.is
  BY DEF XsyShape
<1>5. XsyShape([xsy EXCEPT !.nullingNsy = a]) /\ [xsy EXCEPT !.nullingNsy = a].is = xsy.is
  BY DEF XsyShape
<1>6. XsyShape([xsy EXCEPT !.startsActive = a]) /\ [xsy EXCEPT !.startsActive = a].is = xsy.is
  BY DEF XsyShape
<1>7. XsyShape([xsy EXCEPT !.declared = a]) /\ [xsy EXCEPT !.declared = a].is = xsy.is
  BY DEF XsyShape
<1> QED BY <1>1, <1>2, <1>3, <1>4, <1>5, <1>6, <1>7

(* marpa_g_symbol_rank_set keeps locks and rules. *)
LEMMA KeptByRank ==
    ASSUME GrammarShape(g), NEW x, NEW rank
    PROVE  SymbolRankSet(x, rank) => Kept(g, g')
<1>1. PICK e : e = [g.xsys[x] EXCEPT !.rank = rank]
  OBVIOUS
<1>2. x \in XsysOf(g) => XsyShape(e) /\ FlagsKept(g.xsys[x].is, e.is)
  BY <1>1, XsyChanged, FlagsSame DEF GrammarShape
<1>3. [g EXCEPT !.xsys[x].rank = rank] = [g EXCEPT !.xsys = [g.xsys EXCEPT ![x] = e]]
  BY <1>1
<1>4. Kept(g, [g EXCEPT !.xsys[x].rank = rank])
  BY <1>2, <1>3, KeptXsy
<1> QED BY <1>4, KeptByCall DEF SymbolRankSet

\* An event is declared and activated.
LEMMA KeptByEvents ==
    ASSUME GrammarShape(g), NEW x, NEW declared, NEW active
    PROVE  /\ Kept(g, [g EXCEPT !.xsys[x].startsActive = active])
           /\ Kept(g, [g EXCEPT !.xsys[x].declared = declared,
                                !.xsys[x].startsActive = active])
<1>1. PICK e : e = [g.xsys[x] EXCEPT !.startsActive = active]
  OBVIOUS
<1>2. PICK c : c = [g.xsys[x] EXCEPT !.declared = declared]
  OBVIOUS
<1>3. PICK d : d = [c EXCEPT !.startsActive = active]
  OBVIOUS
<1>4. ASSUME x \in XsysOf(g)
      PROVE  /\ XsyShape(e) /\ FlagsKept(g.xsys[x].is, e.is)
             /\ XsyShape(d) /\ FlagsKept(g.xsys[x].is, d.is)
  <2>1. XsyShape(g.xsys[x])
    BY <1>4 DEF GrammarShape
  <2>2. XsyShape(e) /\ e.is = g.xsys[x].is
    BY <1>1, <2>1, XsyChanged
  <2>3. XsyShape(c) /\ c.is = g.xsys[x].is
    BY <1>2, <2>1, XsyChanged
  <2>4. XsyShape(d) /\ d.is = g.xsys[x].is
    BY <1>3, <2>3, XsyChanged
  <2> QED BY <2>2, <2>4, FlagsSame
<1>5. [g EXCEPT !.xsys[x].startsActive = active] = [g EXCEPT !.xsys = [g.xsys EXCEPT ![x] = e]]
  BY <1>1
<1>6. [g EXCEPT !.xsys[x].declared = declared, !.xsys[x].startsActive = active]
        = [g EXCEPT !.xsys = [g.xsys EXCEPT ![x] = d]]
  BY <1>2, <1>3 DEF GrammarShape, GrammarFields, SeqShape
<1> QED BY <1>4, <1>5, <1>6, KeptXsy

(* The event settings of symbols keep locks and rules. *)
LEMMA KeptByDeclaration ==
    ASSUME GrammarShape(g), NEW kind, NEW x, NEW v, Declare(kind, x, v) \/ Activate(kind, x, v)
    PROVE  Kept(g, g')
<1>1. CASE Declare(kind, x, v)
  BY <1>1, KeptByCall, KeptByEvents DEF Declare
<1>2. CASE Activate(kind, x, v)
  BY <1>2, KeptByCall, KeptByEvents DEF Activate
<1> QED BY <1>1, <1>2

\* The flags of one symbol change.
LEMMA KeptByFlags ==
    ASSUME NEW h, GrammarShape(h), NEW x, NEW is,
           x \in XsysOf(h) => FlagsKept(h.xsys[x].is, is)
    PROVE  Kept(h, [h EXCEPT !.xsys[x].is = is])
<1>1. PICK e : e = [h.xsys[x] EXCEPT !.is = is]
  OBVIOUS
<1>2. ASSUME x \in XsysOf(h) PROVE XsyShape(e) /\ FlagsKept(h.xsys[x].is, e.is)
  <2>1. XsyShape(h.xsys[x])
    BY <1>2 DEF GrammarShape
  <2>2. XsyShape(e) /\ e.is = is
    BY <1>1, <2>1, XsyChanged
  <2> QED BY <1>2, <2>2
<1>3. [h EXCEPT !.xsys[x].is = is] = [h EXCEPT !.xsys = [h.xsys EXCEPT ![x] = e]]
  BY <1>1
<1> QED BY <1>2, <1>3, KeptXsy

\* A locked symbol is set to what it is, or the call is refused.
LEMMA KeptByValuedSet ==
    ASSUME GrammarShape(g), NEW x, NEW v, SymbolIsValuedSet(x, v)
    PROVE  Kept(g, g')
<1> DEFINE
      is == WithFlag(g.xsys[x].is, "valued", v)
      checks == <<SymbolChecks(x), BadBoolean(v),
                  Hard(XsyIs(x, "valuedLocked") /\ v # HasFlag(x, "valued"),
                       "VALUED_IS_LOCKED")>>
<1>1. ASSUME FirstOf(checks) = Ok, x \in XsysOf(g) PROVE FlagsKept(g.xsys[x].is, is)
  <2>1. Len(checks) \in Nat /\ 2 \in 1 .. Len(checks) /\ 3 \in 1 .. Len(checks)
    OBVIOUS
  <2>2. checks[2] = Ok /\ checks[3] = Ok
    <3> HIDE DEF checks
    <3> QED BY <1>1, <2>1, FirstOfOk
  <2>3. v \in {0, 1}
    BY <2>2, HardOk DEF BadBoolean
  <2>4. ~ (XsyIs(x, "valuedLocked") /\ v # HasFlag(x, "valued"))
    BY <2>2, HardOk
  <2>5. "valuedLocked" \in g.xsys[x].is => (v = 1 <=> "valued" \in g.xsys[x].is)
    BY <1>1, <2>3, <2>4 DEF XsyIs, IsXsy, XsysOf, HasFlag, Boolean
  <2> QED BY <2>3, <2>5 DEF WithFlag, FlagsKept, Locks
<1>2. FirstOf(checks) = Ok => Kept(g, [g EXCEPT !.xsys[x].is = is])
  <2> HIDE DEF is, checks
  <2> QED BY <1>1, KeptByFlags
<1>3. Call(FirstOf(checks), v, [g EXCEPT !.xsys[x].is = is])
  BY DEF SymbolIsValuedSet
<1> HIDE DEF is, checks
<1> QED BY <1>2, <1>3, KeptByCall

(* marpa_g_symbol_is_terminal_set changes no terminal that is locked. *)
LEMMA KeptByTerminalSet ==
    ASSUME GrammarShape(g), NEW x, NEW v, SymbolIsTerminalSet(x, v)
    PROVE  Kept(g, g')
<1> DEFINE
      is == WithFlag(g.xsys[x].is, "terminal", v) \cup {"terminalLocked"}
      checks == <<OpenSymbolChecks(x), BadBoolean(v),
                  Hard(XsyIs(x, "terminalLocked") /\ v # HasFlag(x, "terminal"),
                       "TERMINAL_IS_LOCKED")>>
<1>1. ASSUME FirstOf(checks) = Ok, x \in XsysOf(g) PROVE FlagsKept(g.xsys[x].is, is)
  <2>1. Len(checks) \in Nat /\ 2 \in 1 .. Len(checks) /\ 3 \in 1 .. Len(checks)
    OBVIOUS
  <2>2. checks[2] = Ok /\ checks[3] = Ok
    <3> HIDE DEF checks
    <3> QED BY <1>1, <2>1, FirstOfOk
  <2>3. v \in {0, 1}
    BY <2>2, HardOk DEF BadBoolean
  <2>4. ~ (XsyIs(x, "terminalLocked") /\ v # HasFlag(x, "terminal"))
    BY <2>2, HardOk
  <2>5. "terminalLocked" \in g.xsys[x].is => (v = 1 <=> "terminal" \in g.xsys[x].is)
    BY <1>1, <2>3, <2>4 DEF XsyIs, IsXsy, XsysOf, HasFlag, Boolean
  <2> QED BY <2>3, <2>5 DEF WithFlag, FlagsKept, Locks
<1>2. FirstOf(checks) = Ok => Kept(g, [g EXCEPT !.xsys[x].is = is])
  <2> HIDE DEF is, checks
  <2> QED BY <1>1, KeptByFlags
<1>3. Call(FirstOf(checks), v, [g EXCEPT !.xsys[x].is = is])
  BY DEF SymbolIsTerminalSet
<1> HIDE DEF is, checks
<1> QED BY <1>2, <1>3, KeptByCall

(* Flags raised on some symbols, when each may have them. *)
LEMMA KeptByRaising ==
    ASSUME NEW h, GrammarShape(h), NEW X, NEW flags,
           \A x \in XsysOf(h) \cap X : FlagsKept(h.xsys[x].is, h.xsys[x].is \cup flags)
    PROVE  XsysKept(h.xsys, RaisedIn(h.xsys, X, flags))
<1>1. PICK t : t = RaisedIn(h.xsys, X, flags)
  OBVIOUS
<1>2. Len(h.xsys) \in Nat /\ DOMAIN h.xsys = 1 .. Len(h.xsys)
  BY DEF GrammarShape, SeqShape
<1>3. Len(t) = Len(h.xsys) /\ SeqShape(t)
  <2>1. t = [x \in 1 .. Len(h.xsys) |-> t[x]]
    BY <1>1, <1>2 DEF RaisedIn
  <2> QED BY <1>2, <2>1, LenOfFunction
<1>4. ASSUME NEW x \in 1 .. Len(h.xsys)
      PROVE  XsyShape(t[x]) /\ FlagsKept(h.xsys[x].is, t[x].is)
  <2>1. XsyShape(h.xsys[x])
    BY DEF GrammarShape, XsysOf
  <2>2. CASE x \in X
    <3>1. PICK is : is = h.xsys[x].is \cup flags
      OBVIOUS
    <3>2. PICK e : e = [h.xsys[x] EXCEPT !.is = is]
      OBVIOUS
    <3>3. t[x] = e
      BY <1>1, <1>2, <2>2, <3>1, <3>2 DEF RaisedIn
    <3>4. XsyShape(e) /\ e.is = is
      BY <2>1, <3>2, XsyChanged
    <3> QED BY <2>2, <3>1, <3>3, <3>4 DEF XsysOf
  <2>3. CASE x \notin X
    <3>1. t[x] = h.xsys[x]
      BY <1>1, <1>2, <2>3 DEF RaisedIn
    <3> QED BY <2>1, <3>1, FlagsSame
  <2> QED BY <2>2, <2>3
<1>5. Len(h.xsys) <= Len(t)
  BY <1>2, <1>3
<1> QED BY <1>1, <1>3, <1>4, <1>5 DEF XsysKept

\* The symbols before the first that is locked the other way are forced.
LEMMA KeptByForcing ==
    ASSUME GrammarShape(g), ForceValued
    PROVE  Kept(g, g')
<1> DEFINE forced == {x \in 1 .. Len(g.xsys) : \A y \in ForceBlocked : x < y}
<1>1. PICK t : t = RaisedIn(g.xsys, forced, {"valued", "valuedLocked"})
  OBVIOUS
<1>2. PICK k : k = [g EXCEPT !.xsys = t]
  OBVIOUS
<1>3. Kept(g, k)
  <2>1. \A x \in XsysOf(g) \cap forced : "valuedLocked" \in g.xsys[x].is => "valued" \in g.xsys[x].is
    BY DEF ForceBlocked, XsysOf
  <2>2. \A x \in XsysOf(g) \cap forced :
            FlagsKept(g.xsys[x].is, g.xsys[x].is \cup {"valued", "valuedLocked"})
    BY <2>1 DEF FlagsKept, Locks
  <2>3. XsysKept(g.xsys, t)
    <3> HIDE DEF forced
    <3> QED BY <1>1, <2>2, KeptByRaising
  <2> QED BY <1>2, <2>3, KeptXsys
<1>4. PICK f : g' = [g EXCEPT !.forceValued = f, !.xsys = t]
  BY <1>1 DEF ForceValued
<1>5. /\ GrammarFields(g') /\ g'.xsys = k.xsys
      /\ g'.xrls = k.xrls /\ g'.xrlTree = k.xrlTree
  BY <1>2, <1>4 DEF GrammarShape, GrammarFields
<1>6. GrammarShape(k)
  BY <1>3 DEF Kept
<1> QED BY <1>3, <1>5, <1>6, KeptElsewhere, KeptTwice

\* A new symbol is added, and takes no flag from another.
LEMMA KeptBySymbolNew ==
    ASSUME GrammarShape(g), SymbolNew
    PROVE  Kept(g, g')
<1>1. PICK t : t = [x \in 1 .. Len(g.xsys) + 1 |->
                        IF x <= Len(g.xsys) THEN g.xsys[x] ELSE NewSymbol(g)]
  OBVIOUS
<1>2. Len(g.xsys) \in Nat
  BY DEF GrammarShape, SeqShape
<1>3. Len(t) = Len(g.xsys) + 1 /\ SeqShape(t)
  <2>1. t = [x \in 1 .. Len(g.xsys) + 1 |-> t[x]]
    BY <1>1
  <2> QED BY <1>2, <2>1, LenOfFunction
<1>4. \A x \in 1 .. Len(g.xsys) : t[x] = g.xsys[x]
  BY <1>1, <1>2
<1>5. t[Len(g.xsys) + 1] = NewSymbol(g)
  BY <1>1, <1>2
<1>6. XsyShape(NewSymbol(g))
  BY DEF XsyShape, NewSymbol
<1>7. \A x \in 1 .. Len(t) : XsyShape(t[x])
  <2>1. \A x \in 1 .. Len(t) : x \in 1 .. Len(g.xsys) \/ x = Len(g.xsys) + 1
    BY <1>2, <1>3
  <2> QED BY <1>4, <1>5, <1>6, <2>1 DEF GrammarShape, XsysOf
<1>8. XsysKept(g.xsys, t)
  <2>1. Len(g.xsys) <= Len(t)
    BY <1>2, <1>3
  <2> QED BY <1>3, <1>4, <1>7, <2>1, FlagsSame DEF XsysKept
<1>9. WithSymbol(g) = [g EXCEPT !.xsys = t]
  BY <1>1 DEF WithSymbol
<1> QED BY <1>8, <1>9, KeptXsys, KeptByCall DEF SymbolNew

(* A rule with another rank or other flags, its kind the same, is kept. *)
LEMMA XrlChanged ==
    ASSUME NEW xrl, XrlShape(xrl), NEW a
    PROVE  /\ XrlKept(xrl, [xrl EXCEPT !.rank = a])
           /\ ("sequence" \in a <=> "sequence" \in xrl.is) => XrlKept(xrl, [xrl EXCEPT !.is = a])
<1>1. XrlKept(xrl, [xrl EXCEPT !.rank = a])
  BY DEF XrlKept, XrlShape
<1>2. ASSUME "sequence" \in a <=> "sequence" \in xrl.is
      PROVE  XrlKept(xrl, [xrl EXCEPT !.is = a])
  BY <1>2 DEF XrlKept, XrlShape
<1> QED BY <1>1, <1>2

(* The settings of a rule change neither its sides nor its kind. *)
LEMMA KeptByRuleSetting ==
    ASSUME GrammarShape(g), NEW r
    PROVE  /\ \A rank : RuleRankSet(r, rank) => Kept(g, g')
           /\ \A v : RuleNullHighSet(r, v) => Kept(g, g')
<1>1. ASSUME NEW rank, RuleRankSet(r, rank) PROVE Kept(g, g')
  <2>1. PICK e : e = [g.xrls[r] EXCEPT !.rank = rank]
    OBVIOUS
  <2>2. r \in XrlsOf(g) => XrlKept(g.xrls[r], e)
    BY <2>1, XrlChanged DEF GrammarShape
  <2>3. [g EXCEPT !.xrls[r].rank = rank] = [g EXCEPT !.xrls = [g.xrls EXCEPT ![r] = e]]
    BY <2>1
  <2>4. Kept(g, [g EXCEPT !.xrls[r].rank = rank])
    BY <2>2, <2>3, KeptXrl
  <2> QED BY <1>1, <2>4, KeptByCall DEF RuleRankSet
<1>2. ASSUME NEW v, RuleNullHighSet(r, v) PROVE Kept(g, g')
  <2>1. PICK is : is = WithFlag(g.xrls[r].is, "nullHigh", v)
    OBVIOUS
  <2>2. PICK e : e = [g.xrls[r] EXCEPT !.is = is]
    OBVIOUS
  <2>3. "sequence" \in is <=> "sequence" \in g.xrls[r].is
    BY <2>1 DEF WithFlag
  <2>4. r \in XrlsOf(g) => XrlKept(g.xrls[r], e)
    BY <2>2, <2>3, XrlChanged DEF GrammarShape
  <2>5. [g EXCEPT !.xrls[r].is = is] = [g EXCEPT !.xrls = [g.xrls EXCEPT ![r] = e]]
    BY <2>2
  <2>6. Kept(g, [g EXCEPT !.xrls[r].is = is])
    BY <2>4, <2>5, KeptXrl
  <2> QED BY <1>2, <2>1, <2>6, KeptByCall DEF RuleNullHighSet
<1> QED BY <1>1, <1>2

(* Every setting keeps what is kept. *)
LEMMA KeptByChange ==
    ASSUME GrammarShape(g), NEW id,
           GrammarChange \/ SymbolChange(id) \/ RuleChange(id)
    PROVE  Kept(g, g')
<1>1. CASE GrammarChange
  BY <1>1, KeptBySetting, KeptByForcing, KeptBySymbolNew DEF GrammarChange
<1>2. CASE SymbolChange(id)
  BY <1>2, KeptByRank, KeptByValuedSet, KeptByTerminalSet, KeptByDeclaration
     DEF SymbolChange, SymbolIsCompletionEventSet, CompletionSymbolActivate,
         SymbolIsNulledEventSet, NulledSymbolActivate,
         SymbolIsPredictionEventSet, PredictionSymbolActivate
<1>3. CASE RuleChange(id)
  BY <1>3, KeptByRuleSetting, KeptBySetting DEF RuleChange
<1> QED BY <1>1, <1>2, <1>3

-----------------------------------------------------------------------------
(***************************************************************************)
(* New rules.                                                              *)
(***************************************************************************)
\* A rule that is known and that differs from those there are may be added.
LEMMA BuiltWithRule ==
    ASSUME NEW h, BuiltGrammar(h), NEW k, GrammarFields(k), NEW rule, XrlShape(rule),
           XsysKept(h.xsys, k.xsys), k.xrls = Append(h.xrls, rule),
           rule.lhs \in XsysOf(h), "lhs" \in k.xsys[rule.lhs].is,
           k.xrlTree # NoTree => h.xrlTree # NoTree /\ h.xrlTree \subseteq k.xrlTree,
           "sequence" \in rule.is => "sequenceLhs" \in k.xsys[rule.lhs].is,
           "sequence" \notin rule.is /\ k.xrlTree # NoTree
                => RuleKey(rule.lhs, rule.rhs) \in k.xrlTree,
           \A r \in XrlsOf(h) :
              /\ <<h.xrls[r].lhs, h.xrls[r].rhs>> # <<rule.lhs, rule.rhs>>
              /\ SequenceIn(h, r) \/ "sequence" \in rule.is => h.xrls[r].lhs # rule.lhs
    PROVE  BuiltGrammar(k)
<1> DEFINE n == Len(h.xrls) + 1
<1>1. /\ Len(h.xsys) \in Nat /\ Len(k.xsys) \in Nat /\ Len(h.xsys) <= Len(k.xsys)
      /\ Len(h.xrls) \in Nat /\ SeqShape(h.xrls)
  BY DEF BuiltGrammar, GrammarShape, SeqShape, XsysKept
<1>2. /\ SeqShape(k.xrls) /\ Len(k.xrls) = n /\ k.xrls[n] = rule
      /\ \A r \in 1 .. Len(h.xrls) : k.xrls[r] = h.xrls[r]
  BY <1>1, AppendShape
<1>3. \A r \in XrlsOf(k) : \/ r \in XrlsOf(h) /\ k.xrls[r] = h.xrls[r]
                           \/ r = n /\ k.xrls[r] = rule
  BY <1>1, <1>2 DEF XrlsOf
<1>4. GrammarShape(k)
  <2>1. \A r \in XrlsOf(k) : XrlShape(k.xrls[r])
    BY <1>3 DEF BuiltGrammar, GrammarShape
  <2> QED BY <1>2, <2>1 DEF GrammarShape, XsysKept, XsysOf
<1>5. \A x \in XsysOf(h) :
        /\ x \in XsysOf(k)
        /\ "lhs" \in h.xsys[x].is => "lhs" \in k.xsys[x].is
        /\ "sequenceLhs" \in h.xsys[x].is => "sequenceLhs" \in k.xsys[x].is
  BY <1>1 DEF XsysKept, FlagsKept, XsysOf
<1>6. RulesAreKnown(k)
  <2> SUFFICES ASSUME NEW r \in XrlsOf(k)
               PROVE  /\ k.xrls[r].lhs \in XsysOf(k) /\ "lhs" \in k.xsys[k.xrls[r].lhs].is
                      /\ "sequence" \in k.xrls[r].is =>
                            "sequenceLhs" \in k.xsys[k.xrls[r].lhs].is
                      /\ "sequence" \notin k.xrls[r].is /\ k.xrlTree # NoTree =>
                            RuleKey(k.xrls[r].lhs, k.xrls[r].rhs) \in k.xrlTree
    BY DEF RulesAreKnown, SequenceIn
  <2>1. CASE r = n /\ k.xrls[r] = rule
    BY <1>5, <2>1
  <2>2. CASE r \in XrlsOf(h) /\ k.xrls[r] = h.xrls[r]
    BY <1>5, <2>2 DEF BuiltGrammar, RulesAreKnown, SequenceIn
  <2> QED BY <1>3, <2>1, <2>2
<1>7. RulesDiffer(k)
  <2> SUFFICES ASSUME NEW q \in XrlsOf(k), NEW r \in XrlsOf(k), q # r
               PROVE  /\ <<k.xrls[q].lhs, k.xrls[q].rhs>> # <<k.xrls[r].lhs, k.xrls[r].rhs>>
                      /\ "sequence" \in k.xrls[q].is => k.xrls[r].lhs # k.xrls[q].lhs
    BY DEF RulesDiffer, SequenceIn
  <2>1. CASE q \in XrlsOf(h) /\ r \in XrlsOf(h)
    BY <1>1, <1>2, <2>1 DEF BuiltGrammar, RulesDiffer, SequenceIn, XrlsOf
  <2>2. CASE q = n /\ r \in XrlsOf(h)
    BY <1>1, <1>2, <2>2 DEF SequenceIn, XrlsOf
  <2>3. CASE q \in XrlsOf(h) /\ r = n
    BY <1>1, <1>2, <2>3 DEF SequenceIn, XrlsOf
  <2> QED BY <1>3, <2>1, <2>2, <2>3
<1> QED BY <1>4, <1>6, <1>7 DEF BuiltGrammar

\* The left side of a new rule is marked as one.
LEMMA RaisedLhs ==
    ASSUME NEW h, GrammarShape(h), NEW lhs \in XsysOf(h), NEW flags \in SUBSET {"lhs", "sequenceLhs"},
           NEW k, k = Raise(h, lhs, flags)
    PROVE  /\ Kept(h, k) /\ k.xrls = h.xrls /\ k.xrlTree = h.xrlTree
           /\ Len(k.xsys) = Len(h.xsys)
           /\ flags \subseteq k.xsys[lhs].is
<1>1. PICK is : is = h.xsys[lhs].is \cup flags
  OBVIOUS
<1>2. k = [h EXCEPT !.xsys[lhs].is = is]
  BY <1>1 DEF Raise
<1>3. FlagsKept(h.xsys[lhs].is, is)
  BY <1>1 DEF FlagsKept, Locks
<1>4. Kept(h, k)
  BY <1>2, <1>3, KeptByFlags
<1>5. PICK t : t = [h.xsys EXCEPT ![lhs].is = is]
  OBVIOUS
<1>6. k = [h EXCEPT !.xsys = t]
  BY <1>2, <1>5
<1>7. k.xsys = t /\ k.xrls = h.xrls /\ k.xrlTree = h.xrlTree
  BY <1>6 DEF GrammarShape, GrammarFields
<1>8. t[lhs].is = is
  <2>1. XsyShape(h.xsys[lhs])
    BY DEF GrammarShape
  <2>2. PICK e : e = [h.xsys[lhs] EXCEPT !.is = is]
    OBVIOUS
  <2>3. t[lhs] = e
    BY <1>5, <2>2 DEF GrammarShape, SeqShape, XsysOf
  <2>4. e.is = is
    BY <2>1, <2>2, XsyChanged
  <2> QED BY <2>3, <2>4
<1>9. Len(t) = Len(h.xsys)
  <2>1. Len(h.xsys) \in Nat /\ t = [x \in 1 .. Len(h.xsys) |-> t[x]]
    BY <1>5 DEF GrammarShape, SeqShape
  <2> QED BY <2>1, LenOfFunction
<1> QED BY <1>1, <1>4, <1>7, <1>8, <1>9

(* marpa_g_rule_new adds to rules, flags and the tree of rules together. *)
LEMMA BuiltByRuleNew ==
    ASSUME BuiltGrammar(g), NEW lhs, NEW rhs, Len(rhs) \in Nat, RuleNew(lhs, rhs)
    PROVE  BuiltGrammar(g') /\ XsysKept(g.xsys, g'.xsys)
<1>1. GrammarShape(g) /\ BuiltGrammar(g) /\ XsysKept(g.xsys, g.xsys)
  BY KeptSame DEF BuiltGrammar, Kept
<1>2. CASE RuleNewChecks(lhs, rhs) # Ok
  <2>1. g' = g
    BY <1>2 DEF RuleNew, Call
  <2> QED BY <1>1, <2>1
<1>3. CASE RuleNewChecks(lhs, rhs) = Ok
  <2> DEFINE checks == <<
        NotOpen,
        Hard(Len(rhs) > MaxRhsLength, "RHS_TOO_LONG"),
        Hard(~ IsXsy(lhs), "INVALID_SYMBOL_ID"),
        Hard(\E d \in 1 .. Len(rhs) : ~ IsXsy(rhs[d]), "INVALID_SYMBOL_ID"),
        Hard(XsyIs(lhs, "sequenceLhs"), "SEQUENCE_LHS_NOT_UNIQUE"),
        Hard(RuleKey(lhs, rhs) \in g.xrlTree, "DUPLICATE_RULE")>>
  <2>1. FirstOf(checks) = Ok
    BY <1>3 DEF RuleNewChecks
  <2>2. /\ Len(checks) \in Nat
        /\ 3 \in 1 .. Len(checks) /\ 5 \in 1 .. Len(checks) /\ 6 \in 1 .. Len(checks)
    OBVIOUS
  <2>3. checks[3] = Ok /\ checks[5] = Ok /\ checks[6] = Ok
    <3> HIDE DEF checks
    <3> QED BY <2>1, <2>2, FirstOfOk
  <2>4. IsXsy(lhs)
    BY <2>3, HardOk
  <2>5. ~ XsyIs(lhs, "sequenceLhs")
    <3>1. XsyIs(lhs, "sequenceLhs") \in BOOLEAN
      BY DEF XsyIs
    <3> QED BY <2>3, <3>1, HardOk
  <2>6. RuleKey(lhs, rhs) \notin g.xrlTree
    <3>1. (RuleKey(lhs, rhs) \in g.xrlTree) \in BOOLEAN
      OBVIOUS
    <3> QED BY <2>3, <3>1, HardOk
  <2> HIDE DEF checks
  <2>7. lhs \in XsysOf(g) /\ "sequenceLhs" \notin g.xsys[lhs].is /\ g.xrlTree # NoTree
    BY <1>3, <2>4, <2>5 DEF IsXsy, XsyIs, XsysOf, RuleNew, RuleNewAborts
  <2>8. PICK m : m = Raise(g, lhs, {"lhs"})
    OBVIOUS
  <2>9. /\ Kept(g, m) /\ m.xrls = g.xrls /\ m.xrlTree = g.xrlTree
        /\ "lhs" \in m.xsys[lhs].is
    BY <1>1, <2>7, <2>8, RaisedLhs
  <2>10. PICK rule : rule = NewRule(g, lhs, rhs, {"bnf"})
    OBVIOUS
  <2>11. /\ XrlShape(rule) /\ rule.lhs = lhs /\ rule.rhs = rhs
         /\ "sequence" \notin rule.is
    BY <2>10 DEF NewRule, XrlShape
  <2>12. g' = [m EXCEPT !.xrlTree = @ \cup {RuleKey(lhs, rhs)}, !.xrls = Append(@, rule)]
    BY <1>3, <2>8, <2>10 DEF RuleNew, Call, WithRule
  <2>13. /\ GrammarFields(g') /\ g'.xsys = m.xsys
         /\ g'.xrls = Append(g.xrls, rule)
         /\ g'.xrlTree = g.xrlTree \cup {RuleKey(lhs, rhs)}
    <3>1. GrammarFields(m)
      BY <2>9 DEF Kept, GrammarShape
    <3> QED BY <2>9, <2>12, <3>1 DEF GrammarFields
  <2>14. ASSUME NEW r \in XrlsOf(g)
         PROVE  /\ <<g.xrls[r].lhs, g.xrls[r].rhs>> # <<lhs, rhs>>
                /\ SequenceIn(g, r) => g.xrls[r].lhs # lhs
    <3>1. SequenceIn(g, r) => g.xrls[r].lhs # lhs
      BY <2>7 DEF BuiltGrammar, RulesAreKnown
    <3>2. ~ SequenceIn(g, r) => RuleKey(g.xrls[r].lhs, g.xrls[r].rhs) \in g.xrlTree
      BY <2>7 DEF BuiltGrammar, RulesAreKnown
    <3>3. RuleKey(g.xrls[r].lhs, g.xrls[r].rhs) = <<g.xrls[r].lhs, g.xrls[r].rhs>>
          /\ RuleKey(lhs, rhs) = <<lhs, rhs>>
      BY DEF RuleKey
    <3> QED BY <2>6, <3>1, <3>2, <3>3
  <2>15. XsysKept(g.xsys, g'.xsys)
    BY <2>9, <2>13 DEF Kept
  <2>16. BuiltGrammar(g')
    BY <1>1, <2>7, <2>9, <2>11, <2>13, <2>14, <2>15, BuiltWithRule
  <2> QED BY <2>15, <2>16
<1> QED BY <1>2, <1>3

(* marpa_g_sequence_new: the test of the left side's flag is enough for distinct rules. *)
LEMMA BuiltBySequenceNew ==
    ASSUME BuiltGrammar(g), NEW lhs, NEW rhs, NEW separator, NEW min, NEW flags,
           SequenceNew(lhs, rhs, separator, min, flags)
    PROVE  BuiltGrammar(g') /\ XsysKept(g.xsys, g'.xsys)
<1>1. GrammarShape(g) /\ BuiltGrammar(g) /\ XsysKept(g.xsys, g.xsys)
  BY KeptSame DEF BuiltGrammar, Kept
<1> DEFINE checks == <<
      NotOpen,
      Hard(separator # NoId /\ ~ IsXsy(separator), "BAD_SEPARATOR"),
      Hard(~ IsXsy(lhs), "INVALID_SYMBOL_ID"),
      Hard(XsyIs(lhs, "lhs"), "SEQUENCE_LHS_NOT_UNIQUE"),
      Hard(~ IsXsy(rhs), "INVALID_SYMBOL_ID")>>
<1>2. CASE FirstOf(checks) # Ok
  <2>1. g' = g
    BY <1>2 DEF SequenceNew, Call
  <2> QED BY <1>1, <2>1
<1>3. CASE FirstOf(checks) = Ok
  <2>1. Len(checks) \in Nat /\ 3 \in 1 .. Len(checks) /\ 4 \in 1 .. Len(checks)
    OBVIOUS
  <2>2. checks[3] = Ok /\ checks[4] = Ok
    <3> HIDE DEF checks
    <3> QED BY <1>3, <2>1, FirstOfOk
  <2>3. IsXsy(lhs)
    BY <2>2, HardOk
  <2>4. ~ XsyIs(lhs, "lhs")
    <3>1. XsyIs(lhs, "lhs") \in BOOLEAN
      BY DEF XsyIs
    <3> QED BY <2>2, <3>1, HardOk
  <2>5. g' = WithSequence(g, lhs, rhs, separator, min, flags)
    BY <1>3 DEF SequenceNew, Call
  <2> HIDE DEF checks
  <2>6. lhs \in XsysOf(g) /\ "lhs" \notin g.xsys[lhs].is
    BY <2>3, <2>4 DEF IsXsy, XsyIs, XsysOf
  <2>7. PICK m : m = Raise(g, lhs, {"lhs", "sequenceLhs"})
    OBVIOUS
  <2>8. /\ Kept(g, m) /\ m.xrls = g.xrls /\ m.xrlTree = g.xrlTree
        /\ Len(m.xsys) = Len(g.xsys)
        /\ "lhs" \in m.xsys[lhs].is /\ "sequenceLhs" \in m.xsys[lhs].is
    BY <1>1, <2>6, <2>7, RaisedLhs
  <2>9. PICK counted : counted = {rhs, separator} \ {NoId}
    OBVIOUS
  <2>10. PICK new : new = NewRule(g, lhs, <<rhs>>,
            {"sequence"}
              \cup (IF "keep" \notin flags /\ separator # NoId THEN {"discard"} ELSE {})
              \cup (flags \cap {"proper"}))
    OBVIOUS
  <2>11. PICK rule : rule = [new EXCEPT !.separator = separator, !.min = min]
    OBVIOUS
  <2>12. XrlShape(rule) /\ rule.lhs = lhs /\ "sequence" \in rule.is
    <3>1. XrlShape(new) /\ new.lhs = lhs /\ "sequence" \in new.is
      BY <2>10 DEF NewRule, XrlShape
    <3> QED BY <2>11, <3>1 DEF XrlShape
  <2>13. PICK t : t = RaisedIn(m.xsys, counted, {"counted"})
    OBVIOUS
  <2>14. XsysKept(m.xsys, t)
    <3>1. \A x \in XsysOf(m) \cap counted : FlagsKept(m.xsys[x].is, m.xsys[x].is \cup {"counted"})
      BY DEF FlagsKept, Locks
    <3>2. GrammarShape(m)
      BY <2>8 DEF Kept
    <3> QED BY <2>13, <3>1, <3>2, KeptByRaising
  <2>15. PICK added : added = [m EXCEPT !.xrls = Append(@, rule)]
    OBVIOUS
  <2>16. /\ GrammarFields(added) /\ added.xsys = m.xsys
         /\ added.xrls = Append(g.xrls, rule) /\ added.xrlTree = g.xrlTree
    <3>1. GrammarFields(m)
      BY <2>8 DEF Kept, GrammarShape
    <3> QED BY <2>8, <2>15, <3>1 DEF GrammarFields
  <2>17. g' = [added EXCEPT !.xsys = t]
    <3>1. WithSequence(g, lhs, rhs, separator, min, flags)
            = [added EXCEPT !.xsys = RaisedIn(@, counted, {"counted"})]
      BY <2>7, <2>9, <2>10, <2>11, <2>15 DEF WithSequence
    <3> QED BY <2>5, <2>13, <2>16, <3>1
  <2>18. /\ GrammarFields(g') /\ g'.xsys = t
         /\ g'.xrls = Append(g.xrls, rule) /\ g'.xrlTree = g.xrlTree
    BY <2>16, <2>17 DEF GrammarFields
  <2>19. XsysKept(g.xsys, t)
    <3>1. PICK n : n = [m EXCEPT !.xsys = t]
      OBVIOUS
    <3>2. Kept(m, n)
      BY <2>8, <2>14, <3>1, KeptXsys DEF Kept
    <3>3. n.xsys = t
      BY <2>8, <3>1 DEF Kept, GrammarShape, GrammarFields
    <3>4. Kept(g, n)
      BY <1>1, <2>8, <3>2, KeptTwice
    <3> QED BY <3>3, <3>4 DEF Kept
  <2>20. "lhs" \in t[lhs].is /\ "sequenceLhs" \in t[lhs].is
    <3>1. lhs \in 1 .. Len(m.xsys)
      BY <2>6, <2>8 DEF XsysOf
    <3> QED BY <2>8, <2>14, <3>1 DEF XsysKept, FlagsKept
  <2>21. ASSUME NEW r \in XrlsOf(g) PROVE g.xrls[r].lhs # lhs
    BY <2>6 DEF BuiltGrammar, RulesAreKnown
  <2>22. \A r \in XrlsOf(g) : <<g.xrls[r].lhs, g.xrls[r].rhs>> # <<rule.lhs, rule.rhs>>
    BY <2>12, <2>21
  <2>23. BuiltGrammar(g')
    BY <1>1, <2>6, <2>12, <2>18, <2>19, <2>20, <2>21, <2>22, BuiltWithRule
  <2> QED BY <2>18, <2>19, <2>23
<1> QED BY <1>2, <1>3

-----------------------------------------------------------------------------
(***************************************************************************)
(* The census keeps the rules and the locks, whether it fails or not.      *)
(***************************************************************************)
LEMMA KeptByRaiseAll ==
    ASSUME NEW h, GrammarShape(h), NEW X,
           NEW flag, flag \notin {"terminal", "valued"}
    PROVE  Kept(h, RaiseAll(h, X, flag))
<1>1. \A x \in XsysOf(h) \cap X : FlagsKept(h.xsys[x].is, h.xsys[x].is \cup {flag})
  BY DEF FlagsKept, Locks
<1>2. PICK t : t = RaisedIn(h.xsys, X, {flag})
  OBVIOUS
<1>3. XsysKept(h.xsys, t)
  BY <1>1, <1>2, KeptByRaising
<1> QED BY <1>2, <1>3, KeptXsys DEF RaiseAll

\* Two grammars that differ in neither symbols, rules nor tree, but for its end.
LEMMA KeptAside ==
    ASSUME NEW h, GrammarShape(h), NEW m, Kept(h, m), NEW k, GrammarFields(k),
           k.xsys = m.xsys, k.xrls = m.xrls, k.xrlTree = m.xrlTree \/ k.xrlTree = NoTree
    PROVE  Kept(h, k)
<1>1. Kept(m, k)
  BY KeptElsewhere DEF Kept
<1> QED BY <1>1, KeptTwice

\* A symbol locked as none is no terminal to the census.
LEMMA KeptByTerminalCensus ==
    ASSUME NEW h, GrammarShape(h)
    PROVE  Kept(h, TerminalCensus(h))
<1>1. \A x \in XsysOf(h) \cap TerminalV(h) :
        FlagsKept(h.xsys[x].is, h.xsys[x].is \cup {"terminal"})
  BY DEF TerminalV, FlagsKept, Locks
<1>2. PICK t : t = RaisedIn(h.xsys, TerminalV(h), {"terminal"})
  OBVIOUS
<1>3. XsysKept(h.xsys, t)
  BY <1>1, <1>2, KeptByRaising
<1>4. PICK m : m = [h EXCEPT !.xsys = t]
  OBVIOUS
<1>5. Kept(h, m)
  BY <1>3, <1>4, KeptXsys
<1>6. TerminalCensus(h) = [m EXCEPT !.xrlTree = NoTree, !.events = <<>>]
  BY <1>2, <1>4 DEF TerminalCensus, RaiseAll
<1>7. PICK k : k = [m EXCEPT !.xrlTree = NoTree, !.events = <<>>]
  OBVIOUS
<1>8. /\ GrammarFields(k) /\ k.xsys = m.xsys /\ k.xrls = m.xrls /\ k.xrlTree = NoTree
  BY <1>5, <1>7 DEF Kept, GrammarShape, GrammarFields
<1> QED BY <1>5, <1>6, <1>7, <1>8, KeptAside

(* The events that a precomputation raises are no part of symbols or rules. *)
LEMMA KeptByEventsOf ==
    ASSUME NEW h, GrammarShape(h), NEW m, Kept(h, m), NEW events
    PROVE  Kept(h, [m EXCEPT !.events = events])
<1>1. PICK k : k = [m EXCEPT !.events = events]
  OBVIOUS
<1>2. GrammarFields(k) /\ k.xsys = m.xsys /\ k.xrls = m.xrls /\ k.xrlTree = m.xrlTree
  BY <1>1 DEF Kept, GrammarShape, GrammarFields
<1> QED BY <1>1, <1>2, KeptAside

(* The census of symbols changes flags that no lock guards. *)
LEMMA KeptBySymbolCensus ==
    ASSUME NEW h, GrammarShape(h)
    PROVE  /\ Kept(h, NullableCensus(h))
           /\ Kept(h, ProductiveCensus(h))
           /\ Kept(h, SymbolCensus(h))
<1>1. Kept(h, NullableCensus(h))
  <2>1. PICK a : a = TerminalCensus(h)
    OBVIOUS
  <2>2. PICK b : b = RaiseAll(a, NullableV(h), "nullable")
    OBVIOUS
  <2>3. Kept(h, a)
    BY <2>1, KeptByTerminalCensus
  <2>4. Kept(h, b)
    BY <2>2, <2>3, KeptByRaiseAll, KeptTwice DEF Kept
  <2> QED BY <2>1, <2>2, <2>4, KeptByEventsOf DEF NullableCensus
<1>2. Kept(h, ProductiveCensus(h))
  <2>1. PICK a : a = NullableCensus(h)
    OBVIOUS
  <2>2. Kept(a, RaiseAll(a, ProductiveV(h), "productive"))
    BY <1>1, <2>1, KeptByRaiseAll DEF Kept
  <2> QED BY <1>1, <2>1, <2>2, KeptTwice DEF ProductiveCensus
<1>3. Kept(h, SymbolCensus(h))
  <2>1. PICK a : a = ProductiveCensus(h)
    OBVIOUS
  <2>2. PICK b : b = RaiseAll(a, AccessibleV(h), "accessible")
    OBVIOUS
  <2>3. PICK c : c = RaiseAll(b, NullingV(h), "nulling")
    OBVIOUS
  <2>4. Kept(h, b)
    BY <1>2, <2>1, <2>2, KeptByRaiseAll, KeptTwice DEF Kept
  <2>5. Kept(h, c)
    BY <2>3, <2>4, KeptByRaiseAll, KeptTwice DEF Kept
  <2> QED BY <2>1, <2>2, <2>3, <2>5, KeptByEventsOf DEF SymbolCensus
<1> QED BY <1>1, <1>2, <1>3

\* The flags of rules change, and what they are does not.
LEMMA KeptByRuleFlags ==
    ASSUME NEW h, GrammarShape(h), NEW t, DOMAIN t = XrlsOf(h), t = [r \in DOMAIN t |-> t[r]],
           \A r \in XrlsOf(h) : XrlKept(h.xrls[r], t[r])
    PROVE  Kept(h, [h EXCEPT !.xrls = t])
<1>1. Len(t) = Len(h.xrls) /\ SeqShape(t)
  BY LenOfFunction DEF GrammarShape, SeqShape, XrlsOf
<1>2. XrlsKept(h.xrls, t)
  BY <1>1 DEF XrlsKept, XrlsOf
<1> QED BY <1>2, KeptXrls

(* The census of rules changes flags of rules only. *)
LEMMA KeptByRuleCensus ==
    ASSUME NEW h, GrammarShape(h)
    PROVE  Kept(h, RuleCensus(h))
<1> DEFINE
      found(r) == IF SequenceIn(h, r) THEN SequenceFlags(h, r) ELSE BnfFlags(h, r)
      is(r) == (h.xrls[r].is \ {"accessible", "nullable", "nulling", "productive", "used"})
                  \cup found(r)
<1>1. PICK t : t = [r \in DOMAIN h.xrls |-> [h.xrls[r] EXCEPT !.is = is(r)]]
  OBVIOUS
<1>2. RuleCensus(h) = [h EXCEPT !.xrls = t]
  BY <1>1 DEF RuleCensus
<1>3. DOMAIN h.xrls = XrlsOf(h)
  BY DEF GrammarShape, SeqShape, XrlsOf
<1>4. ASSUME NEW r \in XrlsOf(h) PROVE XrlKept(h.xrls[r], t[r])
  <2>1. "sequence" \in is(r) <=> "sequence" \in h.xrls[r].is
    BY DEF SequenceFlags, BnfFlags
  <2>2. XrlShape(h.xrls[r])
    BY DEF GrammarShape
  <2> HIDE DEF is
  <2>3. PICK f : f = is(r)
    OBVIOUS
  <2>4. PICK e : e = [h.xrls[r] EXCEPT !.is = f]
    OBVIOUS
  <2>5. t[r] = e
    BY <1>1, <1>3, <2>3, <2>4
  <2>6. XrlKept(h.xrls[r], e)
    BY <2>1, <2>2, <2>3, <2>4, XrlChanged
  <2> QED BY <2>5, <2>6
<1> HIDE DEF is
<1>5. DOMAIN t = XrlsOf(h) /\ t = [r \in DOMAIN t |-> t[r]]
  BY <1>1, <1>3
<1> QED BY <1>2, <1>4, <1>5, KeptByRuleFlags

(* The closure of nulled symbols keeps locks and rules. *)
LEMMA KeptByNulledCensus ==
    ASSUME NEW h, GrammarShape(h)
    PROVE  Kept(h, NulledCensus(h))
<1>1. PICK nulls : NulledCensus(h) =
        [h EXCEPT !.xsys = [x \in DOMAIN h.xsys |->
            [h.xsys[x] EXCEPT !.nulls = Row(nulls, x)]]]
  BY DEF NulledCensus
<1>2. PICK t : t = [x \in DOMAIN h.xsys |-> [h.xsys[x] EXCEPT !.nulls = Row(nulls, x)]]
  OBVIOUS
<1>3. Len(h.xsys) \in Nat /\ DOMAIN h.xsys = 1 .. Len(h.xsys)
  BY DEF GrammarShape, SeqShape
<1>4. Len(t) = Len(h.xsys) /\ SeqShape(t)
  <2>1. t = [x \in 1 .. Len(h.xsys) |-> t[x]]
    BY <1>2, <1>3
  <2> QED BY <1>3, <2>1, LenOfFunction
<1>5. ASSUME NEW x \in 1 .. Len(h.xsys)
      PROVE  XsyShape(t[x]) /\ FlagsKept(h.xsys[x].is, t[x].is)
  <2>1. XsyShape(h.xsys[x])
    BY DEF GrammarShape, XsysOf
  <2>2. PICK e : e = [h.xsys[x] EXCEPT !.nulls = Row(nulls, x)]
    OBVIOUS
  <2>3. t[x] = e
    BY <1>2, <1>3, <2>2
  <2>4. XsyShape(e) /\ e.is = h.xsys[x].is
    BY <2>1, <2>2, XsyChanged
  <2> QED BY <2>3, <2>4, FlagsSame
<1>6. XsysKept(h.xsys, t)
  <2>1. Len(h.xsys) <= Len(t)
    BY <1>3, <1>4
  <2> QED BY <1>4, <1>5, <2>1 DEF XsysKept
<1>7. NulledCensus(h) = [h EXCEPT !.xsys = t]
  BY <1>1, <1>2
<1> QED BY <1>6, <1>7, KeptXsys

(* The loop test changes flags of rules only. *)
LEMMA KeptByLoopCensus ==
    ASSUME NEW h, GrammarShape(h)
    PROVE  Kept(h, LoopCensus(h))
<1>1. PICK loops : loops = LoopRulesOf(h)
  OBVIOUS
<1>2. CASE loops = {}
  BY <1>1, <1>2, KeptSame DEF LoopCensus
<1>3. CASE loops # {}
  <2>1. PICK t : t = RaisedIn(h.xrls, loops, {"loop"})
    OBVIOUS
  <2>2. DOMAIN h.xrls = XrlsOf(h)
    BY DEF GrammarShape, SeqShape, XrlsOf
  <2>3. ASSUME NEW r \in XrlsOf(h) PROVE XrlKept(h.xrls[r], t[r])
    <3>1. XrlShape(h.xrls[r])
      BY DEF GrammarShape
    <3>2. PICK is : is = h.xrls[r].is \cup {"loop"}
      OBVIOUS
    <3>3. PICK e : e = [h.xrls[r] EXCEPT !.is = is]
      OBVIOUS
    <3>4. XrlKept(h.xrls[r], e)
      BY <3>1, <3>2, <3>3, XrlChanged
    <3>5. XrlKept(h.xrls[r], h.xrls[r])
      BY <3>1 DEF XrlKept
    <3>6. t[r] = e \/ t[r] = h.xrls[r]
      BY <2>1, <2>2, <3>2, <3>3 DEF RaisedIn
    <3> QED BY <3>4, <3>5, <3>6
  <2>4. DOMAIN t = XrlsOf(h) /\ t = [r \in DOMAIN t |-> t[r]]
    BY <2>1, <2>2 DEF RaisedIn
  <2>5. PICK m : m = [h EXCEPT !.xrls = t]
    OBVIOUS
  <2>6. Kept(h, m)
    BY <2>3, <2>4, <2>5, KeptByRuleFlags
  <2>7. PICK k : k = LoopCensus(h)
    OBVIOUS
  <2>8. PICK events : k = [h EXCEPT !.hasCycle = TRUE, !.events = events, !.xrls = t]
    BY <1>1, <1>3, <2>1, <2>7 DEF LoopCensus
  <2>9. GrammarFields(k) /\ k.xsys = m.xsys /\ k.xrls = m.xrls /\ k.xrlTree = m.xrlTree
    BY <2>5, <2>8 DEF GrammarShape, GrammarFields
  <2> QED BY <2>6, <2>7, <2>9, KeptAside
<1> QED BY <1>2, <1>3

(* The whole census. *)
LEMMA KeptByCensus ==
    ASSUME NEW h, GrammarShape(h)
    PROVE  Kept(h, Census(h))
<1>1. PICK a : a = SymbolCensus(h)
  OBVIOUS
<1>2. PICK b : b = RuleCensus(a)
  OBVIOUS
<1>3. PICK c : c = NulledCensus(b)
  OBVIOUS
<1>4. Kept(h, a)
  BY <1>1, KeptBySymbolCensus
<1>5. Kept(h, b)
  BY <1>2, <1>4, KeptByRuleCensus, KeptTwice DEF Kept
<1>6. Kept(h, c)
  BY <1>3, <1>5, KeptByNulledCensus, KeptTwice DEF Kept
<1>7. Kept(h, LoopCensus(c))
  BY <1>6, KeptByLoopCensus, KeptTwice DEF Kept
<1> QED BY <1>1, <1>2, <1>3, <1>7 DEF Census

-----------------------------------------------------------------------------
(***************************************************************************)
(* The rewrite adds internal symbols and rules beside the external ones.   *)
(***************************************************************************)
Beside(h, k) ==
    /\ GrammarFields(k)
    /\ k.xsys = h.xsys /\ k.xrls = h.xrls /\ k.xrlTree = h.xrlTree

(* Changes beside the external symbols and rules, one after the other. *)
LEMMA BesideTwice ==
    \A h, k, m : Beside(h, k) /\ Beside(k, m) => Beside(h, m)
BY DEF Beside

(* The fields that the rewrite changes. *)
LEMMA BesideParts ==
    ASSUME NEW h, GrammarFields(h)
    PROVE  /\ Beside(h, h)
           /\ \A nsys, irls : Beside(h, [h EXCEPT !.irls = irls, !.nsys = nsys])
           /\ \A nsys : Beside(h, [h EXCEPT !.nsys = nsys])
           /\ \A i : Beside(h, [h EXCEPT !.startIrl = i])
<1>1. Beside(h, h)
  BY DEF Beside
<1>2. ASSUME NEW nsys PROVE Beside(h, [h EXCEPT !.nsys = nsys])
  <2>1. PICK k : k = [h EXCEPT !.nsys = nsys]
    OBVIOUS
  <2>2. Beside(h, k)
    BY <2>1 DEF Beside, GrammarFields
  <2> QED BY <2>1, <2>2
<1>3. ASSUME NEW nsys, NEW irls PROVE Beside(h, [h EXCEPT !.irls = irls, !.nsys = nsys])
  <2>1. PICK k : k = [h EXCEPT !.irls = irls, !.nsys = nsys]
    OBVIOUS
  <2>2. Beside(h, k)
    BY <2>1 DEF Beside, GrammarFields
  <2> QED BY <2>1, <2>2
<1>4. ASSUME NEW i PROVE Beside(h, [h EXCEPT !.startIrl = i])
  <2>1. PICK k : k = [h EXCEPT !.startIrl = i]
    OBVIOUS
  <2>2. Beside(h, k)
    BY <2>1 DEF Beside, GrammarFields
  <2> QED BY <2>1, <2>2
<1> QED BY <1>1, <1>2, <1>3, <1>4

(* A new internal symbol or rule, and a note of where it comes from. *)
LEMMA BesideNew ==
    ASSUME NEW h, GrammarFields(h)
    PROVE  /\ \A x, flags : Beside(h, WithNsy(h, x, flags))
           /\ \A irl : Beside(h, WithIrl(h, irl))
           /\ \A n, r : Beside(h, [h EXCEPT !.nsys[n].lhsXrl = r])
           /\ \A n, r, d : Beside(h, WithOrigin(h, n, r, d))
<1>1. ASSUME NEW x, NEW flags PROVE Beside(h, WithNsy(h, x, flags))
  <2>1. PICK nsys : WithNsy(h, x, flags) = [h EXCEPT !.nsys = nsys]
    BY DEF WithNsy
  <2>2. Beside(h, [h EXCEPT !.nsys = nsys])
    BY BesideParts
  <2> QED BY <2>1, <2>2
<1>2. ASSUME NEW irl PROVE Beside(h, WithIrl(h, irl))
  <2>1. PICK nsys : nsys = [h.nsys EXCEPT ![irl.lhs].is = @ \cup {"lhs"}]
    OBVIOUS
  <2>2. PICK irls : irls = Append(h.irls, irl)
    OBVIOUS
  <2>3. WithIrl(h, irl) = [h EXCEPT !.irls = irls, !.nsys = nsys]
    BY <2>1, <2>2 DEF WithIrl, GrammarFields
  <2>4. Beside(h, [h EXCEPT !.irls = irls, !.nsys = nsys])
    BY BesideParts
  <2> QED BY <2>3, <2>4
<1>3. ASSUME NEW n, NEW r PROVE Beside(h, [h EXCEPT !.nsys[n].lhsXrl = r])
  <2>1. PICK nsys : nsys = [h.nsys EXCEPT ![n].lhsXrl = r]
    OBVIOUS
  <2>2. [h EXCEPT !.nsys[n].lhsXrl = r] = [h EXCEPT !.nsys = nsys]
    BY <2>1
  <2>3. Beside(h, [h EXCEPT !.nsys = nsys])
    BY BesideParts
  <2> QED BY <2>2, <2>3
<1>4. ASSUME NEW n, NEW r, NEW d PROVE Beside(h, WithOrigin(h, n, r, d))
  <2>1. PICK a : a = [h.nsys EXCEPT ![n].lhsXrl = r]
    OBVIOUS
  <2>2. PICK b : b = [a EXCEPT ![n].offset = d]
    OBVIOUS
  <2>3. WithOrigin(h, n, r, d) = [h EXCEPT !.nsys = b]
    BY <2>1, <2>2 DEF WithOrigin, GrammarFields
  <2>4. Beside(h, [h EXCEPT !.nsys = b])
    BY BesideParts
  <2> QED BY <2>3, <2>4
<1> QED BY <1>1, <1>2, <1>3, <1>4

(* One internal rule of a piece. *)
LEMMA BesidePiece ==
    ASSUME NEW h, GrammarFields(h), NEW r, NEW p, NEW end, NEW next, NEW nulled, NEW n
    PROVE  Beside(h, PieceIrl(h, r, p, end, next, nulled, n))
<1>1. PICK irl : PieceIrl(h, r, p, end, next, nulled, n) =
        WithOrigin(WithIrl(h, irl), p.lhs, r, p.start)
  BY DEF PieceIrl
<1>2. Beside(h, WithIrl(h, irl))
  BY BesideNew
<1> QED BY <1>1, <1>2, BesideNew, BesideTwice DEF Beside

(* A piece with a nulling suffix. *)
LEMMA BesideSuffix ==
    ASSUME NEW h, GrammarFields(h), NEW r, NEW p, NEW first, NEW second
    PROVE  Beside(h, SuffixPiece(h, r, p, first, second).h)
<1> DEFINE
      more == <<NextNsy(h)>>
      last == Len(h.xrls[r].rhs)
      tail == second .. last
<1>1. PICK a : a = WithNsy(h, h.xrls[r].lhs, {})
  OBVIOUS
<1>2. PICK pp : pp = PieceIrl(a, r, p, second - 1, more, {}, 3)
  OBVIOUS
<1>3. PICK pn : pn = PieceIrl(pp, r, p, last, <<>>, tail, 2)
  OBVIOUS
<1>4. PICK np : np = PieceIrl(pn, r, p, second - 1, more, {first}, 1)
  OBVIOUS
<1>5. PICK nn : nn = PieceIrl(np, r, p, last, <<>>, {first} \cup tail, 0)
  OBVIOUS
<1>6. SuffixPiece(h, r, p, first, second).h = IF p.start <= LastProper(h, r) THEN nn ELSE np
  BY <1>1, <1>2, <1>3, <1>4, <1>5 DEF SuffixPiece
<1> HIDE DEF more, last, tail
<1>7. Beside(h, pp)
  BY <1>1, <1>2, BesideNew, BesidePiece, BesideTwice DEF Beside
<1>8. Beside(h, pn)
  BY <1>3, <1>7, BesidePiece, BesideTwice DEF Beside
<1>9. Beside(h, np)
  BY <1>4, <1>8, BesidePiece, BesideTwice DEF Beside
<1>10. Beside(h, nn)
  BY <1>5, <1>9, BesidePiece, BesideTwice DEF Beside
<1> QED BY <1>6, <1>9, <1>10

(* A piece that is followed by another. *)
LEMMA BesideInner ==
    ASSUME NEW h, GrammarFields(h), NEW r, NEW p, NEW first, NEW second
    PROVE  Beside(h, InnerPiece(h, r, p, first, second).h)
<1> DEFINE more == <<NextNsy(h)>>
<1>1. PICK a : a = WithNsy(h, h.xrls[r].lhs, {})
  OBVIOUS
<1>2. PICK pp : pp = PieceIrl(a, r, p, second, more, {}, 3)
  OBVIOUS
<1>3. PICK pn : pn = PieceIrl(pp, r, p, second, more, {second}, 2)
  OBVIOUS
<1>4. PICK np : np = PieceIrl(pn, r, p, second, more, {first}, 1)
  OBVIOUS
<1>5. PICK nn : nn = PieceIrl(np, r, p, second, more, {first, second}, 0)
  OBVIOUS
<1>6. InnerPiece(h, r, p, first, second).h = nn
  BY <1>1, <1>2, <1>3, <1>4, <1>5 DEF InnerPiece
<1> HIDE DEF more
<1>7. Beside(h, pp)
  BY <1>1, <1>2, BesideNew, BesidePiece, BesideTwice DEF Beside
<1>8. Beside(h, pn)
  BY <1>3, <1>7, BesidePiece, BesideTwice DEF Beside
<1>9. Beside(h, np)
  BY <1>4, <1>8, BesidePiece, BesideTwice DEF Beside
<1> QED BY <1>5, <1>6, <1>9, BesidePiece, BesideTwice DEF Beside

(* The last piece, with two nullable symbols or one. *)
LEMMA BesideLast ==
    ASSUME NEW h, GrammarFields(h), NEW r, NEW p, NEW first, NEW second
    PROVE  /\ Beside(h, LastTwo(h, r, p, first, second))
           /\ Beside(h, LastOne(h, r, p, first))
<1> DEFINE last == Len(h.xrls[r].rhs)
<1>1. PICK pp : pp = PieceIrl(h, r, p, last, <<>>, {}, 3)
  OBVIOUS
<1>2. PICK pn : pn = PieceIrl(pp, r, p, last, <<>>, {second}, 2)
  OBVIOUS
<1>3. PICK np : np = PieceIrl(pn, r, p, last, <<>>, {first}, 1)
  OBVIOUS
<1>4. PICK nn : nn = PieceIrl(np, r, p, last, <<>>, {first, second}, 0)
  OBVIOUS
<1>5. PICK pnull : pnull = PieceIrl(pp, r, p, last, <<>>, {first}, 0)
  OBVIOUS
<1>6. LastTwo(h, r, p, first, second) = IF p.start <= LastProper(h, r) THEN nn ELSE np
  BY <1>1, <1>2, <1>3, <1>4 DEF LastTwo
<1>7. LastOne(h, r, p, first) = IF p.start <= LastProper(h, r) THEN pnull ELSE pp
  BY <1>1, <1>5 DEF LastOne
<1> HIDE DEF last
<1>8. Beside(h, pp)
  BY <1>1, BesidePiece
<1>9. Beside(h, pn) /\ Beside(h, pnull)
  BY <1>2, <1>5, <1>8, BesidePiece, BesideTwice DEF Beside
<1>10. Beside(h, np)
  BY <1>3, <1>9, BesidePiece, BesideTwice DEF Beside
<1>11. Beside(h, nn)
  BY <1>4, <1>10, BesidePiece, BesideTwice DEF Beside
<1> QED BY <1>6, <1>7, <1>8, <1>9, <1>10, <1>11

\* What follows piece p of rule r.
NextPiece(p, h, r, factors) ==
    LET first == factors[p.factor]
        second == factors[p.factor + 1]
    IN  IF Len(factors) - p.factor + 1 < 3 THEN p
        ELSE IF second > LastProper(h, r) THEN SuffixPiece(p.h, r, p, first, second)
        ELSE InnerPiece(p.h, r, p, first, second)

Pieces(f, begin, h, r, factors, n) ==
    f = [k \in 0 .. n |-> IF k = 0 THEN begin ELSE NextPiece(f[k - 1], h, r, factors)]

(* The recursive function over the pieces of a rule exists. *)
LEMMA PiecesExist ==
    ASSUME NEW begin, NEW h, NEW r, NEW factors, NEW most \in Nat
    PROVE  \E f : Pieces(f, begin, h, r, factors, most)
<1> DEFINE T == {n \in Nat : \E f : Pieces(f, begin, h, r, factors, n)}
<1>1. 0 \in T
  <2>1. Pieces([k \in 0 .. 0 |-> begin], begin, h, r, factors, 0)
    BY DEF Pieces
  <2> QED BY <2>1
<1>2. ASSUME NEW n \in Nat, n \in T PROVE n + 1 \in T
  <2>1. PICK f : Pieces(f, begin, h, r, factors, n)
    BY <1>2
  <2> DEFINE e == [k \in 0 .. n + 1 |->
                      IF k = n + 1 THEN NextPiece(f[n], h, r, factors) ELSE f[k]]
  <2>2. \A k \in 0 .. n + 1 : e[k] = IF k = 0 THEN begin ELSE NextPiece(e[k - 1], h, r, factors)
    <3> TAKE k \in 0 .. n + 1
    <3>1. CASE k = n + 1
      BY <3>1
    <3>2. CASE k # n + 1
      <4>1. k \in 0 .. n /\ e[k] = f[k] /\ (k # 0 => k - 1 \in 0 .. n /\ e[k - 1] = f[k - 1])
        BY <3>2
      <4>2. f[k] = IF k = 0 THEN begin ELSE NextPiece(f[k - 1], h, r, factors)
        BY <2>1, <4>1 DEF Pieces
      <4> QED BY <4>1, <4>2
    <3> QED BY <3>1, <3>2
  <2>3. Pieces(e, begin, h, r, factors, n + 1)
    BY <2>2, Zenon DEF Pieces
  <2> HIDE DEF e
  <2> QED BY <2>3
<1>3. Nat \subseteq T
  <2> HIDE DEF T
  <2> QED BY <1>1, <1>2, SetInduction
<1> QED BY <1>3

(* The rewrite of a rule with nullable symbols leaves external rules alone. *)
LEMMA BesideChaf ==
    ASSUME NEW h, GrammarFields(h), NEW r, Len(h.xrls[r].rhs) \in Nat
    PROVE  Beside(h, RewriteChaf(h, r))
<1> DEFINE
      most == Len(h.xrls[r].rhs)
      factors == Factors(h, r)
      begin == [h |-> h, lhs |-> NsyOf(h, h.xrls[r].lhs), start |-> 1, factor |-> 1]
      f == CHOOSE e : Pieces(e, begin, h, r, factors, most)
      p == f[most]
<1>1. RewriteChaf(h, r) =
        IF Len(factors) - p.factor + 1 = 2
          THEN LastTwo(p.h, r, p, factors[p.factor], factors[p.factor + 1])
          ELSE LastOne(p.h, r, p, factors[p.factor])
  BY Zenon DEF RewriteChaf, Pieces, NextPiece
<1>2. begin.h = h
  OBVIOUS
<1> HIDE DEF begin, factors
<1>3. Pieces(f, begin, h, r, factors, most)
  BY PiecesExist
<1> HIDE DEF f
<1> DEFINE T == {n \in Nat : n <= most => Beside(h, f[n].h)}
<1>6. 0 \in T
  <2>1. f[0] = begin
    BY <1>3 DEF Pieces
  <2>2. Beside(h, f[0].h)
    BY <1>2, <2>1, BesideParts
  <2> QED BY <2>2
<1>7. ASSUME NEW n \in Nat, n \in T PROVE n + 1 \in T
  <2> SUFFICES ASSUME n + 1 <= most PROVE Beside(h, f[n + 1].h)
    OBVIOUS
  <2>1. Beside(h, f[n].h)
    BY <1>7
  <2>2. f[n + 1] = NextPiece(f[n], h, r, factors)
    BY <1>3 DEF Pieces
  <2>3. PICK q : q = f[n]
    OBVIOUS
  <2>4. \/ f[n + 1] = q
        \/ f[n + 1] = SuffixPiece(q.h, r, q, factors[q.factor], factors[q.factor + 1])
        \/ f[n + 1] = InnerPiece(q.h, r, q, factors[q.factor], factors[q.factor + 1])
    BY <2>2, <2>3 DEF NextPiece
  <2>5. GrammarFields(q.h) /\ Beside(h, q.h)
    BY <2>1, <2>3 DEF Beside
  <2> QED BY <2>4, <2>5, BesideSuffix, BesideInner, BesideTwice
<1>8. Nat \subseteq T
  <2> HIDE DEF T
  <2> QED BY <1>6, <1>7, SetInduction
<1>9. Beside(h, p.h)
  BY <1>8
<1>10. GrammarFields(p.h)
  BY <1>9 DEF Beside
<1> HIDE DEF T, most, p
<1> QED BY <1>1, <1>9, <1>10, BesideLast, BesideTwice

(* So does the rewrite of a sequence. *)
LEMMA BesideSequence ==
    ASSUME NEW h, GrammarFields(h), NEW r
    PROVE  Beside(h, RewriteSequence(h, r))
<1>1. \A k, inner : GrammarFields(k) => /\ Beside(k, SequenceTop(k, r, inner))
                                        /\ Beside(k, SequenceTrailing(k, r, inner))
                                        /\ Beside(k, SequenceFirst(k, r, inner))
                                        /\ Beside(k, SequenceIterate(k, r, inner))
  <2> TAKE k, inner
  <2> SUFFICES ASSUME GrammarFields(k)
               PROVE  /\ Beside(k, SequenceTop(k, r, inner))
                      /\ Beside(k, SequenceTrailing(k, r, inner))
                      /\ Beside(k, SequenceFirst(k, r, inner))
                      /\ Beside(k, SequenceIterate(k, r, inner))
    OBVIOUS
  <2>1. Beside(k, k) /\ \A irl : Beside(k, WithIrl(k, irl))
    BY BesideNew, BesideParts
  <2>2. Beside(k, SequenceTop(k, r, inner))
    BY <2>1 DEF SequenceTop
  <2>3. Beside(k, SequenceTrailing(k, r, inner))
    BY <2>1 DEF SequenceTrailing
  <2>4. Beside(k, SequenceFirst(k, r, inner))
    BY <2>1 DEF SequenceFirst
  <2>5. Beside(k, SequenceIterate(k, r, inner))
    BY <2>1 DEF SequenceIterate
  <2> QED BY <2>2, <2>3, <2>4, <2>5
<1>2. PICK inner : inner = NextNsy(h)
  OBVIOUS
<1>3. PICK a : a = WithNsy(h, h.xrls[r].lhs, {})
  OBVIOUS
<1>4. PICK b : b = [a EXCEPT !.nsys[inner].lhsXrl = r]
  OBVIOUS
<1>5. PICK c : c = SequenceTop(b, r, inner)
  OBVIOUS
<1>6. PICK d : d = SequenceTrailing(c, r, inner)
  OBVIOUS
<1>7. PICK e : e = SequenceFirst(d, r, inner)
  OBVIOUS
<1>8. RewriteSequence(h, r) = SequenceIterate(e, r, inner)
  BY <1>2, <1>3, <1>4, <1>5, <1>6, <1>7 DEF RewriteSequence
<1>9. Beside(h, a)
  BY <1>3, BesideNew
<1>10. Beside(a, b)
  <2>1. \A n, q : Beside(a, [a EXCEPT !.nsys[n].lhsXrl = q])
    BY <1>9, BesideNew DEF Beside
  <2> QED BY <1>4, <2>1
<1>11. Beside(h, b)
  BY <1>9, <1>10, BesideTwice
<1>12. Beside(h, c)
  BY <1>1, <1>5, <1>11, BesideTwice DEF Beside
<1>13. Beside(h, d)
  BY <1>1, <1>6, <1>12, BesideTwice DEF Beside
<1>14. Beside(h, e)
  BY <1>1, <1>7, <1>13, BesideTwice DEF Beside
<1> QED BY <1>1, <1>8, <1>14, BesideTwice DEF Beside

(* So does the rewrite of any rule. *)
LEMMA BesideRule ==
    ASSUME NEW h, GrammarFields(h), NEW r, Len(h.xrls[r].rhs) \in Nat
    PROVE  Beside(h, RewriteRule(h, r))
<1>1. Beside(h, RewriteBnf(h, r))
  BY BesideNew DEF RewriteBnf
<1> QED BY <1>1, BesideChaf, BesideSequence, BesideParts DEF RewriteRule

\* The rules are rewritten one after the other.
RewrittenUpTo(f, h, n) ==
    f = [r \in 0 .. n |-> IF r = 0 THEN h ELSE RewriteRule(f[r - 1], r)]

(* The recursive function over the rules exists. *)
LEMMA RewritingExists ==
    ASSUME NEW h, NEW most \in Nat
    PROVE  \E f : RewrittenUpTo(f, h, most)
<1> DEFINE T == {n \in Nat : \E f : RewrittenUpTo(f, h, n)}
<1>1. 0 \in T
  <2>1. RewrittenUpTo([r \in 0 .. 0 |-> h], h, 0)
    BY DEF RewrittenUpTo
  <2> QED BY <2>1
<1>2. ASSUME NEW n \in Nat, n \in T PROVE n + 1 \in T
  <2>1. PICK f : RewrittenUpTo(f, h, n)
    BY <1>2
  <2> DEFINE e == [r \in 0 .. n + 1 |-> IF r = n + 1 THEN RewriteRule(f[n], n + 1) ELSE f[r]]
  <2>2. \A r \in 0 .. n + 1 : e[r] = IF r = 0 THEN h ELSE RewriteRule(e[r - 1], r)
    <3> TAKE r \in 0 .. n + 1
    <3>1. CASE r = n + 1
      BY <3>1
    <3>2. CASE r # n + 1
      <4>1. r \in 0 .. n /\ e[r] = f[r] /\ (r # 0 => r - 1 \in 0 .. n /\ e[r - 1] = f[r - 1])
        BY <3>2
      <4>2. f[r] = IF r = 0 THEN h ELSE RewriteRule(f[r - 1], r)
        BY <2>1, <4>1 DEF RewrittenUpTo
      <4> QED BY <4>1, <4>2
    <3> QED BY <3>1, <3>2
  <2>3. RewrittenUpTo(e, h, n + 1)
    BY <2>2, Zenon DEF RewrittenUpTo
  <2> HIDE DEF e
  <2> QED BY <2>3
<1>3. Nat \subseteq T
  <2> HIDE DEF T
  <2> QED BY <1>1, <1>2, SetInduction
<1> QED BY <1>3

(* The rewrite of all the rules. *)
LEMMA BesideRules ==
    ASSUME NEW h, GrammarShape(h)
    PROVE  Beside(h, WithIrls(h))
<1> DEFINE
      most == Len(h.xrls)
      f == CHOOSE e : RewrittenUpTo(e, h, most)
      T == {n \in Nat : n <= most => Beside(h, f[n])}
<1>1. most \in Nat
  BY DEF GrammarShape, SeqShape
<1>2. WithIrls(h) = f[most]
  BY Zenon DEF WithIrls, RewrittenUpTo
<1>3. RewrittenUpTo(f, h, most)
  BY <1>1, RewritingExists
<1> HIDE DEF f
<1>4. 0 \in T
  <2>1. f[0] = h
    BY <1>1, <1>3 DEF RewrittenUpTo
  <2>2. Beside(h, f[0])
    BY <2>1, BesideParts DEF GrammarShape
  <2> QED BY <2>2
<1>5. ASSUME NEW n \in Nat, n \in T PROVE n + 1 \in T
  <2> SUFFICES ASSUME n + 1 <= most PROVE Beside(h, f[n + 1])
    OBVIOUS
  <2>1. Beside(h, f[n])
    BY <1>1, <1>5
  <2>2. f[n + 1] = RewriteRule(f[n], n + 1)
    BY <1>1, <1>3 DEF RewrittenUpTo
  <2>3. Len(f[n].xrls[n + 1].rhs) \in Nat
    <3>1. n + 1 \in XrlsOf(h)
      BY <1>1 DEF XrlsOf
    <3> QED BY <2>1, <3>1 DEF Beside, GrammarShape, XrlShape
  <2>4. Beside(f[n], f[n + 1])
    BY <2>1, <2>2, <2>3, BesideRule DEF Beside
  <2> QED BY <2>1, <2>4, BesideTwice
<1>6. Nat \subseteq T
  <2> HIDE DEF T
  <2> QED BY <1>4, <1>5, SetInduction
<1> QED BY <1>1, <1>2, <1>6

(* What is left alone is kept. *)
LEMMA KeptBeside ==
    ASSUME NEW h, GrammarShape(h), NEW k, Beside(h, k)
    PROVE  Kept(h, k)
BY KeptElsewhere DEF Beside

\* An internal symbol is made beside, and the external one refers to it.
LEMMA KeptByNsy ==
    ASSUME NEW h, GrammarShape(h), NEW x, NEW flags, NEW id
    PROVE  /\ Kept(h, [h EXCEPT !.xsys[x].nsy = id])
           /\ Kept(h, [h EXCEPT !.xsys[x].nullingNsy = id])
           /\ Kept(h, [WithNsy(h, x, flags) EXCEPT !.xsys[x].nsy = id])
           /\ Kept(h, [WithNsy(h, x, flags) EXCEPT !.xsys[x].nullingNsy = id])
<1>1. ASSUME NEW k, GrammarShape(k)
      PROVE  /\ Kept(k, [k EXCEPT !.xsys[x].nsy = id])
             /\ Kept(k, [k EXCEPT !.xsys[x].nullingNsy = id])
  <2>1. PICK e : e = [k.xsys[x] EXCEPT !.nsy = id]
    OBVIOUS
  <2>2. PICK d : d = [k.xsys[x] EXCEPT !.nullingNsy = id]
    OBVIOUS
  <2>3. ASSUME x \in XsysOf(k)
        PROVE  /\ XsyShape(e) /\ FlagsKept(k.xsys[x].is, e.is)
               /\ XsyShape(d) /\ FlagsKept(k.xsys[x].is, d.is)
    <3>1. XsyShape(k.xsys[x])
      BY <1>1, <2>3 DEF GrammarShape
    <3>2. XsyShape(e) /\ e.is = k.xsys[x].is
      BY <2>1, <3>1, XsyChanged
    <3>3. XsyShape(d) /\ d.is = k.xsys[x].is
      BY <2>2, <3>1, XsyChanged
    <3> QED BY <3>2, <3>3, FlagsSame
  <2>4. [k EXCEPT !.xsys[x].nsy = id] = [k EXCEPT !.xsys = [k.xsys EXCEPT ![x] = e]]
    BY <2>1
  <2>5. [k EXCEPT !.xsys[x].nullingNsy = id] = [k EXCEPT !.xsys = [k.xsys EXCEPT ![x] = d]]
    BY <2>2
  <2> QED BY <1>1, <2>3, <2>4, <2>5, KeptXsy
<1>2. PICK k : k = WithNsy(h, x, flags)
  OBVIOUS
<1>3. Kept(h, k)
  BY <1>2, BesideNew, KeptBeside DEF GrammarShape
<1>4. GrammarShape(k)
  BY <1>3 DEF Kept
<1>5. /\ Kept(h, [k EXCEPT !.xsys[x].nsy = id])
      /\ Kept(h, [k EXCEPT !.xsys[x].nullingNsy = id])
  BY <1>1, <1>3, <1>4, KeptTwice
<1> QED BY <1>1, <1>2, <1>5

(* A symbol that gets its internal symbols is otherwise unchanged. *)
LEMMA KeptByClone ==
    ASSUME NEW h, GrammarShape(h), NEW x
    PROVE  Kept(h, Clone(h, x))
<1>1. PICK a : a = WithClone(h, x)
  OBVIOUS
<1>2. PICK b : b = [a EXCEPT !.xsys[x].nullingNsy = a.xsys[x].nsy]
  OBVIOUS
<1>3. PICK c : c = WithAlias(a, x)
  OBVIOUS
<1>4. Clone(h, x) \in {h, a, b, c}
  BY <1>1, <1>2, <1>3 DEF Clone
<1>5. Kept(h, a)
  <2>1. PICK flags : flags = {"semantic"} \cup (h.xsys[x].is \cap {"nulling"})
    OBVIOUS
  <2>2. a = [WithNsy(h, x, flags) EXCEPT !.xsys[x].nsy = NextNsy(h)]
    BY <1>1, <2>1 DEF WithClone
  <2> QED BY <2>2, KeptByNsy
<1>6. Kept(h, b)
  <2>1. PICK id : id = a.xsys[x].nsy
    OBVIOUS
  <2>2. GrammarShape(a)
    BY <1>5 DEF Kept
  <2>3. Kept(a, [a EXCEPT !.xsys[x].nullingNsy = id])
    BY <2>2, KeptByNsy
  <2>4. Kept(a, b)
    BY <1>2, <2>1, <2>3
  <2> QED BY <1>5, <2>4, KeptTwice
<1>7. Kept(h, c)
  <2>1. PICK id : id = NextNsy(a)
    OBVIOUS
  <2>2. GrammarShape(a)
    BY <1>5 DEF Kept
  <2>3. Kept(a, [WithNsy(a, x, {"semantic", "nulling"}) EXCEPT !.xsys[x].nullingNsy = id])
    BY <2>2, KeptByNsy
  <2>4. Kept(a, c)
    BY <1>3, <2>1, <2>3 DEF WithAlias
  <2> QED BY <1>5, <2>4, KeptTwice
<1> QED BY <1>4, <1>5, <1>6, <1>7, KeptSame

ClonedUpTo(f, h, n) ==
    f = [x \in 0 .. n |-> IF x = 0 THEN h ELSE Clone(f[x - 1], x)]

(* The recursive function over the symbols exists. *)
LEMMA CloningExists ==
    ASSUME NEW h, NEW most \in Nat
    PROVE  \E f : ClonedUpTo(f, h, most)
<1> DEFINE T == {n \in Nat : \E f : ClonedUpTo(f, h, n)}
<1>1. 0 \in T
  <2>1. ClonedUpTo([x \in 0 .. 0 |-> h], h, 0)
    BY DEF ClonedUpTo
  <2> QED BY <2>1
<1>2. ASSUME NEW n \in Nat, n \in T PROVE n + 1 \in T
  <2>1. PICK f : ClonedUpTo(f, h, n)
    BY <1>2
  <2> DEFINE e == [x \in 0 .. n + 1 |-> IF x = n + 1 THEN Clone(f[n], n + 1) ELSE f[x]]
  <2>2. \A x \in 0 .. n + 1 : e[x] = IF x = 0 THEN h ELSE Clone(e[x - 1], x)
    <3> TAKE x \in 0 .. n + 1
    <3>1. CASE x = n + 1
      BY <3>1
    <3>2. CASE x # n + 1
      <4>1. x \in 0 .. n /\ e[x] = f[x] /\ (x # 0 => x - 1 \in 0 .. n /\ e[x - 1] = f[x - 1])
        BY <3>2
      <4>2. f[x] = IF x = 0 THEN h ELSE Clone(f[x - 1], x)
        BY <2>1, <4>1 DEF ClonedUpTo
      <4> QED BY <4>1, <4>2
    <3> QED BY <3>1, <3>2
  <2>3. ClonedUpTo(e, h, n + 1)
    BY <2>2, Zenon DEF ClonedUpTo
  <2> HIDE DEF e
  <2> QED BY <2>3
<1>3. Nat \subseteq T
  <2> HIDE DEF T
  <2> QED BY <1>1, <1>2, SetInduction
<1> QED BY <1>3

(* The internal symbols of all the symbols. *)
LEMMA KeptByClones ==
    ASSUME NEW h, GrammarShape(h)
    PROVE  Kept(h, WithClones(h))
<1> DEFINE
      most == Len(h.xsys)
      f == CHOOSE e : ClonedUpTo(e, h, most)
      T == {n \in Nat : n <= most => Kept(h, f[n])}
<1>1. most \in Nat
  BY DEF GrammarShape, SeqShape
<1>2. WithClones(h) = f[most]
  BY Zenon DEF WithClones, ClonedUpTo
<1>3. ClonedUpTo(f, h, most)
  BY <1>1, CloningExists
<1> HIDE DEF f
<1>4. 0 \in T
  <2>1. f[0] = h
    BY <1>1, <1>3 DEF ClonedUpTo
  <2>2. Kept(h, f[0])
    BY <2>1, KeptSame
  <2> QED BY <2>2
<1>5. ASSUME NEW n \in Nat, n \in T PROVE n + 1 \in T
  <2> SUFFICES ASSUME n + 1 <= most PROVE Kept(h, f[n + 1])
    OBVIOUS
  <2>1. Kept(h, f[n])
    BY <1>1, <1>5
  <2>2. f[n + 1] = Clone(f[n], n + 1)
    BY <1>1, <1>3 DEF ClonedUpTo
  <2>3. Kept(f[n], f[n + 1])
    BY <2>1, <2>2, KeptByClone DEF Kept
  <2> QED BY <2>1, <2>3, KeptTwice
<1>6. Nat \subseteq T
  <2> HIDE DEF T
  <2> QED BY <1>4, <1>5, SetInduction
<1> QED BY <1>1, <1>2, <1>6

(* The whole rewrite keeps external symbols and rules. *)
LEMMA KeptByRewrite ==
    ASSUME NEW h, GrammarShape(h)
    PROVE  Kept(h, Rewrite(h))
<1>1. PICK a : a = WithClones(h)
  OBVIOUS
<1>2. PICK b : b = WithIrls(a)
  OBVIOUS
<1>3. Kept(h, a) /\ GrammarShape(a)
  BY <1>1, KeptByClones DEF Kept
<1>4. Kept(h, b) /\ GrammarShape(b)
  <2>1. Kept(a, b)
    BY <1>2, <1>3, BesideRules, KeptBeside
  <2> QED BY <1>3, <2>1, KeptTwice DEF Kept
<1>5. Beside(b, Augmented(b))
  <2>1. GrammarFields(b)
    BY <1>4 DEF GrammarShape
  <2>2. CASE XsyHas(b, b.start, "nulling")
    BY <2>1, <2>2, BesideParts DEF Augmented
  <2>3. CASE ~ XsyHas(b, b.start, "nulling")
    <3>1. PICK c : c = WithNsy(b, b.start, {"start"})
      OBVIOUS
    <3>2. PICK irl : irl = [NewIrl(b, NoId, NextNsy(b), <<NsyOf(b, b.start)>>) EXCEPT
                              !.virtualLhs = TRUE, !.realCount = 1]
      OBVIOUS
    <3>3. PICK d : d = WithIrl(c, irl)
      OBVIOUS
    <3>4. Augmented(b) = [d EXCEPT !.startIrl = Len(b.irls) + 1]
      BY <2>3, <3>1, <3>2, <3>3 DEF Augmented
    <3>5. Beside(b, c)
      BY <2>1, <3>1, BesideNew
    <3>6. Beside(b, d)
      BY <3>3, <3>5, BesideNew, BesideTwice DEF Beside
    <3>7. \A i : Beside(d, [d EXCEPT !.startIrl = i])
      BY <3>6, BesideParts DEF Beside
    <3> QED BY <3>4, <3>6, <3>7, BesideTwice
  <2> QED BY <2>2, <2>3
<1>6. Kept(b, Augmented(b))
  BY <1>4, <1>5, KeptBeside
<1> QED BY <1>1, <1>2, <1>4, <1>6, KeptTwice DEF Rewrite

\* Precomputation keeps the rules and the locks, wherever it fails.
LEMMA KeptByPrecompute ==
    ASSUME GrammarShape(g), Precompute
    PROVE  Kept(g, g')
<1>1. CASE PrecomputeRefused
  BY <1>1, KeptByEventsOf, KeptSame DEF PrecomputeRefused, PrecomputeFails
<1>2. CASE PrecomputeCountedNullable
  BY <1>2, KeptBySymbolCensus DEF PrecomputeCountedNullable, PrecomputeFails
<1>3. CASE PrecomputeUnproductiveStart
  BY <1>3, KeptBySymbolCensus DEF PrecomputeUnproductiveStart, PrecomputeFails
<1>4. CASE PrecomputeNullingTerminal
  BY <1>4, KeptBySymbolCensus DEF PrecomputeNullingTerminal, PrecomputeFails
<1>5. CASE PrecomputeDone
  <2>1. PICK a : a = Census(g)
    OBVIOUS
  <2>2. PICK b : b = Rewrite(a)
    OBVIOUS
  <2>3. Kept(g, b)
    BY <2>1, <2>2, KeptByCensus, KeptByRewrite, KeptTwice DEF Kept
  <2>4. PICK k : k = [b EXCEPT !.precomputed = TRUE]
    OBVIOUS
  <2>5. GrammarFields(k) /\ k.xsys = b.xsys /\ k.xrls = b.xrls /\ k.xrlTree = b.xrlTree
    BY <2>3, <2>4 DEF Kept, GrammarShape, GrammarFields
  <2>6. g' = k
    BY <1>5, <2>1, <2>2, <2>4 DEF PrecomputeDone, Precomputed
  <2> QED BY <2>3, <2>5, <2>6, KeptAside
<1> QED BY <1>1, <1>2, <1>3, <1>4, <1>5 DEF Precompute

-----------------------------------------------------------------------------
(***************************************************************************)
(* The theorems.                                                           *)
(***************************************************************************)
LEMMA BuiltBySteps ==
    ASSUME BuiltGrammar(g), Next
    PROVE  BuiltGrammar(g') /\ XsysKept(g.xsys, g'.xsys)
<1>1. GrammarShape(g)
  BY DEF BuiltGrammar
<1>2. ASSUME Kept(g, g') PROVE BuiltGrammar(g') /\ XsysKept(g.xsys, g'.xsys)
  BY <1>2, KeptBuilt DEF Kept
<1>3. CASE AskNext
  BY <1>1, <1>2, <1>3, KeptByQuery
<1>4. CASE PrecomputeNext
  BY <1>1, <1>2, <1>4, KeptByPrecompute DEF PrecomputeNext
<1>5. CASE ChangeNext
  <2>1. CASE GrammarChange \/ \E id \in Ids : SymbolChange(id) \/ RuleChange(id)
    BY <1>1, <1>2, <2>1, KeptByChange
  <2>2. ASSUME NEW lhs \in Ids, NewRuleCall(lhs)
        PROVE  BuiltGrammar(g') /\ XsysKept(g.xsys, g'.xsys)
    <3>1. ASSUME NEW rhs \in RightSides, RuleNew(lhs, rhs)
          PROVE  BuiltGrammar(g') /\ XsysKept(g.xsys, g'.xsys)
      <4>1. Len(rhs) \in Nat
        BY CallAssumption
      <4> QED BY <3>1, <4>1, BuiltByRuleNew
    <3>2. ASSUME NEW rhs \in RightSides, RuleNewAbort(lhs, rhs)
          PROVE  BuiltGrammar(g') /\ XsysKept(g.xsys, g'.xsys)
      <4>1. g' = g
        BY <3>2 DEF RuleNewAbort
      <4> QED BY <1>1, <1>2, <4>1, KeptSame
    <3> QED BY <2>2, <3>1, <3>2, BuiltBySequenceNew DEF NewRuleCall
  <2> QED BY <1>5, <2>1, <2>2 DEF ChangeNext
<1> QED BY <1>3, <1>4, <1>5 DEF Next

\* What the calls make is a grammar that knows its rules, for any arguments and in
\* any order; the new grammar is one, so that the beginnings may be any that calls
\* have made.
LEMMA NewGrammarIsBuilt == BuiltGrammar(NewGrammar)
<1>1. NewGrammar.xsys = <<>> /\ NewGrammar.xrls = <<>> /\ GrammarFields(NewGrammar)
  BY DEF NewGrammar, GrammarFields
<1>2. Len(<<>>) = 0 /\ SeqShape(<<>>)
  BY DEF SeqShape
<1>3. XsysOf(NewGrammar) = {} /\ XrlsOf(NewGrammar) = {}
  BY <1>1, <1>2 DEF XsysOf, XrlsOf
<1> QED BY <1>1, <1>2, <1>3 DEF BuiltGrammar, GrammarShape, RulesAreKnown, RulesDiffer

(* Whatever is called (failed precomputations included), the tree of rules and the flags *)
(* of left sides tell every rule there is: marpa_g_rule_new may trust them.              *)
THEOREM GrammarStaysBuilt == Spec => []BuiltGrammar(g)
<1>1. Init => BuiltGrammar(g)
  BY BeginningsAssumption DEF Init
<1>2. BuiltGrammar(g) /\ [Next]_grammarVars => BuiltGrammar(g)'
  <2>1. BuiltGrammar(g) /\ Next => BuiltGrammar(g)'
    BY BuiltBySteps
  <2>2. BuiltGrammar(g) /\ UNCHANGED grammarVars => BuiltGrammar(g)'
    BY DEF grammarVars
  <2> QED BY <2>1, <2>2
<1> QED BY <1>1, <1>2, PTL DEF Spec

\* No rule is held twice, and a symbol with a sequence has no other rule, whatever the
\* order in which rules and sequences are added, before a precomputation and after one
\* that failed (5417, 5425, 5491).
THEOREM NoRuleTwice == Spec => []RulesAreDistinct
<1>1. BuiltGrammar(g) => RulesAreDistinct
  BY DEF BuiltGrammar, RulesAreDistinct
<1> QED BY <1>1, GrammarStaysBuilt, PTL

\* No call undoes a lock: a symbol once locked as a terminal or as none, as valued or as
\* not, stays what it is (3553, 3617, 3948, 7314).
THEOREM NoLockUndone == Spec => LocksHold
<1>1. BuiltGrammar(g) /\ [Next]_grammarVars => [LocksKept]_grammarVars
  <2>1. ASSUME BuiltGrammar(g), Next PROVE LocksKept
    <3>1. XsysKept(g.xsys, g'.xsys)
      BY <2>1, BuiltBySteps
    <3> QED BY <3>1 DEF XsysKept, FlagsKept, Locks, XsysOf, LocksKept
  <2> QED BY <2>1
<1> QED BY <1>1, GrammarStaysBuilt, PTL DEF Spec, LocksHold
=============================================================================
