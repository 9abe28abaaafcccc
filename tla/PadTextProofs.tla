--------------------------- MODULE PadTextProofs ---------------------------
(***************************************************************************)
(* Proofs about PadText, for any finite set of tags, any symbols typed,    *)
(* any contents of files XNote did not write and any bounds: the markup    *)
(* reads back as it was written, a saved note reads back as it is on       *)
(* screen, and undoing ends at the text as it was loaded.                  *)
(***************************************************************************)
EXTENDS PadText, FiniteSetTheorems, FunctionTheorems, SequenceTheorems, TLAPS

-----------------------------------------------------------------------------
(* Induction up to a number, and the functions the recursions define.      *)

LEMMA LeastIs ==
    ASSUME NEW I \in SUBSET Nat, I # {}
    PROVE  Min(I) \in I /\ \A i \in I : Min(I) <= i
  <1> DEFINE R == OpToRel(<, Nat)
  <1>1. IsWellFoundedOn(R, Nat)
    BY NatLessThanWellFounded
  <1>2. \A x, y \in Nat : x < y => <<x, y>> \in R
    BY DEF OpToRel
  <1> HIDE DEF R
  <1>3. PICK x \in I : \A y \in I : ~(<<y, x>> \in R)
    BY <1>1, WFMin, Zenon
  <1>4. \A y \in I : ~(y < x)
    BY <1>2, <1>3
  <1>5. \A y \in I : x <= y
    BY <1>4
  <1> QED BY <1>3, <1>5 DEF Min

LEMMA UpTo ==
    ASSUME NEW n \in Nat, NEW S, 0 \in S, \A i \in 1..n : i - 1 \in S => i \in S
    PROVE  0..n \subseteq S
  <1> DEFINE T == {i \in 0..n : i \notin S}
  <1> SUFFICES ASSUME T # {} PROVE FALSE
    OBVIOUS
  <1>0. T \in SUBSET Nat
    OBVIOUS
  <1>1. PICK x \in T : \A y \in T : x <= y
    <2> HIDE DEF T
    <2> QED BY <1>0, LeastIs
  <1>2. x \in 1..n /\ x - 1 \in 0..n /\ ~(x <= x - 1)
    BY <1>1
  <1> QED BY <1>1, <1>2

\* A loop of n rounds is a function of its rounds, and only one.
Loop(f, T, start, n, step) ==
    f \in [0..n -> T] /\ f[0] = start /\ \A i \in 1..n : f[i] = step[i][f[i - 1]]

LEMMA Rounds ==
    ASSUME NEW T, NEW start \in T, NEW n \in Nat, NEW step \in [1..n -> [T -> T]]
    PROVE  \E f : Loop(f, T, start, n, step)
  <1> DEFINE Run(f, m) == f[0] = start /\ \A i \in 1..m : f[i] = step[i][f[i - 1]]
             S == {m \in 0..n : \E f \in [0..m -> T] : Run(f, m)}
  <1>1. 0 \in S
    <2>1. [i \in 0..0 |-> start] \in [0..0 -> T] /\ Run([i \in 0..0 |-> start], 0)
      OBVIOUS
    <2>2. 0 \in 0..n
      OBVIOUS
    <2> HIDE DEF Run
    <2> QED BY <2>1, <2>2
  <1>2. ASSUME NEW m \in 1..n, m - 1 \in S PROVE m \in S
    <2>1. PICK f \in [0..(m - 1) -> T] : Run(f, m - 1)
      BY <1>2
    <2>2. f[m - 1] \in T /\ step[m][f[m - 1]] \in T
      BY <2>1
    <2> DEFINE g == [i \in 0..m |-> IF i = m THEN step[m][f[m - 1]] ELSE f[i]]
    <2>3. g \in [0..m -> T]
      BY <2>2
    <2>4. g[m] = step[m][f[m - 1]] /\ \A i \in 0..(m - 1) : g[i] = f[i]
      OBVIOUS
    <2> HIDE DEF g
    <2>5. Run(g, m)
      <3>1. g[0] = start
        BY <2>1, <2>4
      <3>2. ASSUME NEW i \in 1..m PROVE g[i] = step[i][g[i - 1]]
        <4>1. i - 1 \in 0..(m - 1) /\ (i # m => i \in 1..(m - 1) /\ i \in 0..(m - 1))
          OBVIOUS
        <4> QED BY <2>1, <2>4, <4>1
      <3> QED BY <3>1, <3>2
    <2>6. m \in 0..n
      OBVIOUS
    <2> HIDE DEF Run
    <2> QED BY <2>3, <2>5, <2>6
  <1> HIDE DEF S
  <1>3. 0..n \subseteq S
    BY <1>1, <1>2, UpTo
  <1>4. n \in S
    BY <1>3
  <1> QED BY <1>4 DEF S, Loop

InStep(f, g, n) == f[0] = g[0] /\ \A i \in 1..n : f[i - 1] = g[i - 1] => f[i] = g[i]

Same(f, g, n) == \A i \in 0..n : f[i] = g[i]

LEMMA SameRounds == ASSUME NEW n \in Nat, NEW f, NEW g, InStep(f, g, n) PROVE Same(f, g, n)
  <1> USE DEF InStep, Same
  <1> DEFINE S == {i \in 0..n : f[i] = g[i]}
  <1>1. 0 \in S /\ \A i \in 1..n : i - 1 \in S => i \in S
    OBVIOUS
  <1> HIDE DEF S
  <1>2. 0..n \subseteq S
    BY <1>1, UpTo
  <1> QED BY <1>2 DEF S

-----------------------------------------------------------------------------
(* Unescaping.                                                             *)

Half == [esc : BOOLEAN, out : Seq(Symbols)]
HalfStart == [esc |-> FALSE, out |-> <<>>]

Unescaping(f, seg) ==
    f = [n \in 0..Len(seg) |-> IF n = 0 THEN HalfStart ELSE Unescaped(f[n - 1], seg[n])]

Halfway(seg) == (CHOOSE f : Unescaping(f, seg))[Len(seg)]

LEMMA SymbolsKnown ==
    TAG \in Symbols /\ ESC \in Symbols /\ PH \in Symbols /\ Slash \in Symbols /\ Other \in Symbols
  BY DEF Symbols

LEMMA UnescapedType == ASSUME NEW h \in Half, NEW s \in Symbols PROVE Unescaped(h, s) \in Half
  <1>1. h.esc \in BOOLEAN /\ h.out \in Seq(Symbols) /\ h = [esc |-> h.esc, out |-> h.out]
    BY DEF Half
  <1>2. /\ <<ESC>> \in Seq(Symbols) /\ <<TAG>> \in Seq(Symbols) /\ <<ESC, s>> \in Seq(Symbols)
    BY SymbolsKnown
  <1>3. CASE ~h.esc
    BY <1>1, <1>3, AppendProperties DEF Unescaped, Half
  <1>4. CASE h.esc
    BY <1>1, <1>2, <1>4, ConcatProperties DEF Unescaped, Half
  <1> QED BY <1>1, <1>3, <1>4

LEMMA UnescapeRounds ==
    ASSUME NEW seg \in Seq(Symbols)
    PROVE  \E f \in [0..Len(seg) -> Half] :
             /\ f[0] = HalfStart /\ \A i \in 1..Len(seg) : f[i] = Unescaped(f[i - 1], seg[i])
             /\ Halfway(seg) = f[Len(seg)]
  <1> DEFINE n == Len(seg)
             step == [i \in 1..n |-> [h \in Half |-> Unescaped(h, seg[i])]]
  <1>1. n \in Nat /\ (\A i \in 1..n : seg[i] \in Symbols)
    BY LenProperties, ElementOfSeq
  <1>2. HalfStart \in Half
    <2>1. <<>> \in Seq(Symbols)
      OBVIOUS
    <2> QED BY <2>1 DEF HalfStart, Half
  <1>3. step \in [1..n -> [Half -> Half]]
    BY <1>1, UnescapedType
  <1>4. \A h \in Half, i \in 1..n : step[i][h] = Unescaped(h, seg[i])
    OBVIOUS
  <1> HIDE DEF step, n
  <1>5. PICK f \in [0..n -> Half] : f[0] = HalfStart /\ \A i \in 1..n : f[i] = step[i][f[i - 1]]
    <2>1. \E f : Loop(f, Half, HalfStart, n, step)
      BY <1>1, <1>2, <1>3, Rounds
    <2> QED BY <2>1 DEF Loop
  <1>6. \A i \in 1..n : f[i] = Unescaped(f[i - 1], seg[i])
    <2> SUFFICES ASSUME NEW i \in 1..n PROVE f[i] = Unescaped(f[i - 1], seg[i])
      OBVIOUS
    <2>1. f[i - 1] \in Half
      BY <1>1
    <2> QED BY <1>4, <1>5, <2>1
  <1>7. Unescaping(f, seg)
    <2>1. \A i \in 0..n : f[i] = IF i = 0 THEN HalfStart ELSE Unescaped(f[i - 1], seg[i])
      BY <1>1, <1>5, <1>6
    <2>2. f = [i \in 0..n |-> f[i]]
      OBVIOUS
    <2> QED BY <2>1, <2>2 DEF Unescaping, n
  <1> DEFINE g == CHOOSE h : Unescaping(h, seg)
  <1>8. Unescaping(g, seg)
    BY <1>7
  <1> HIDE DEF g
  <1>9. \A i \in 0..n : g[i] = IF i = 0 THEN HalfStart ELSE Unescaped(g[i - 1], seg[i])
    BY <1>8 DEF Unescaping, n
  <1>10. Same(g, f, n)
    <2>1. InStep(g, f, n)
      BY <1>1, <1>5, <1>6, <1>9 DEF InStep
    <2> QED BY <1>1, <2>1, SameRounds
  <1>11. Halfway(seg) = f[n]
    BY <1>1, <1>10 DEF Halfway, g, n, Same
  <1> QED BY <1>5, <1>6, <1>11 DEF n

LEMMA HalfwayGrows ==
    /\ Halfway(<<>>) = HalfStart
    /\ \A seg \in Seq(Symbols) : Halfway(seg) \in Half
    /\ \A seg \in Seq(Symbols), x \in Symbols :
         Halfway(Append(seg, x)) = Unescaped(Halfway(seg), x)
  <1>1. Halfway(<<>>) = HalfStart
    <2>1. <<>> \in Seq(Symbols) /\ Len(<<>>) = 0
      OBVIOUS
    <2>2. PICK f : f[0] = HalfStart /\ Halfway(<<>>) = f[Len(<<>>)]
      BY <2>1, UnescapeRounds
    <2> QED BY <2>1, <2>2
  <1>2. ASSUME NEW seg \in Seq(Symbols) PROVE Halfway(seg) \in Half
    <2>1. Len(seg) \in 0..Len(seg)
      BY LenProperties
    <2> QED BY <2>1, UnescapeRounds
  <1>3. ASSUME NEW seg \in Seq(Symbols), NEW x \in Symbols
        PROVE  Halfway(Append(seg, x)) = Unescaped(Halfway(seg), x)
    <2> DEFINE n == Len(seg)
               longer == Append(seg, x)
    <2>1. /\ n \in Nat /\ longer \in Seq(Symbols) /\ Len(longer) = n + 1
          /\ longer[n + 1] = x /\ \A i \in 1..n : longer[i] = seg[i]
      BY LenProperties, AppendProperties
    <2>2. PICK f : /\ f[0] = HalfStart /\ \A i \in 1..n : f[i] = Unescaped(f[i - 1], seg[i])
                   /\ Halfway(seg) = f[n]
      BY UnescapeRounds
    <2> HIDE DEF longer
    <2>3. PICK g : /\ g[0] = HalfStart /\ \A i \in 1..Len(longer) : g[i] = Unescaped(g[i - 1], longer[i])
                   /\ Halfway(longer) = g[Len(longer)]
      BY <2>1, UnescapeRounds
    <2> HIDE DEF n
    <2>4. Same(f, g, n)
      <3>1. \A i \in 1..n : f[i] = Unescaped(f[i - 1], seg[i]) /\ g[i] = Unescaped(g[i - 1], seg[i])
        BY <2>1, <2>2, <2>3
      <3>2. InStep(f, g, n)
        BY <2>2, <2>3, <3>1 DEF InStep
      <3> QED BY <2>1, <3>2, SameRounds
    <2>5. f[n] = g[n]
      BY <2>1, <2>4 DEF Same
    <2>6. g[n + 1] = Unescaped(g[n], x)
      <3>1. n + 1 \in 1..Len(longer) /\ (n + 1) - 1 = n
        BY <2>1
      <3> QED BY <2>1, <2>3, <3>1
    <2> QED BY <2>1, <2>2, <2>3, <2>5, <2>6 DEF longer, n
  <1> QED BY <1>1, <1>2, <1>3

LEMMA UnescapeEnds ==
    ASSUME NEW seg
    PROVE  Unescape(seg) = IF Halfway(seg).esc THEN Append(Halfway(seg).out, ESC) ELSE Halfway(seg).out
  BY DEF Unescape, Halfway, Unescaping, HalfStart

LEMMA UnescapeType == ASSUME NEW seg \in Seq(Symbols) PROVE Unescape(seg) \in Seq(Symbols)
  <1>1. Halfway(seg).out \in Seq(Symbols)
    BY HalfwayGrows DEF Half
  <1> QED BY <1>1, UnescapeEnds, SymbolsKnown, AppendProperties

-----------------------------------------------------------------------------
(* Splitting.                                                              *)

Pieces == {toks \in Seq(Seq(Symbols)) : toks # <<>>}

Uncut == <<<<>>>>

Splitting(f, str) == f = [n \in 0..Len(str) |-> IF n = 0 THEN Uncut ELSE Cutting(f[n - 1], str[n])]

CutUp(str) == (CHOOSE f : Splitting(f, str))[Len(str)]

LEMMA CuttingType == ASSUME NEW toks \in Pieces, NEW s \in Symbols PROVE Cutting(toks, s) \in Pieces
  <1>1. toks \in Seq(Seq(Symbols)) /\ toks # <<>> /\ Len(toks) \in 1..Len(toks) /\ <<>> \in Seq(Symbols)
    BY EmptySeq, LenProperties DEF Pieces
  <1>2. Append(toks, <<>>) \in Pieces
    BY <1>1, AppendProperties DEF Pieces
  <1>3. [toks EXCEPT ![Len(toks)] = Append(@, s)] \in Pieces
    <2>1. Append(toks[Len(toks)], s) \in Seq(Symbols)
      BY <1>1, ElementOfSeq, AppendProperties
    <2>2. [toks EXCEPT ![Len(toks)] = Append(toks[Len(toks)], s)] \in Seq(Seq(Symbols))
      BY <1>1, <2>1, ExceptSeq
    <2>3. Len([toks EXCEPT ![Len(toks)] = Append(toks[Len(toks)], s)]) = Len(toks)
      BY <1>1, <2>1, ExceptSeq
    <2>4. Len(toks) # 0
      BY <1>1
    <2>5. [toks EXCEPT ![Len(toks)] = Append(toks[Len(toks)], s)] # <<>>
      BY <1>1, <2>3, <2>4, EmptySeq
    <2> QED BY <2>2, <2>5 DEF Pieces
  <1> QED BY <1>2, <1>3 DEF Cutting

LEMMA SplitRounds ==
    ASSUME NEW str \in Seq(Symbols)
    PROVE  \E f \in [0..Len(str) -> Pieces] :
             /\ f[0] = Uncut /\ \A i \in 1..Len(str) : f[i] = Cutting(f[i - 1], str[i])
             /\ CutUp(str) = f[Len(str)]
  <1> DEFINE n == Len(str)
             step == [i \in 1..n |-> [h \in Pieces |-> Cutting(h, str[i])]]
  <1>1. n \in Nat /\ (\A i \in 1..n : str[i] \in Symbols)
    BY LenProperties, ElementOfSeq
  <1>2. Uncut \in Pieces
    <2>1. <<<<>>>> \in Seq(Seq(Symbols)) /\ <<<<>>>> # <<>>
      OBVIOUS
    <2> QED BY <2>1 DEF Pieces, Uncut
  <1>3. step \in [1..n -> [Pieces -> Pieces]]
    BY <1>1, CuttingType
  <1>4. \A h \in Pieces, i \in 1..n : step[i][h] = Cutting(h, str[i])
    OBVIOUS
  <1> HIDE DEF step, n
  <1>5. PICK f \in [0..n -> Pieces] : f[0] = Uncut /\ \A i \in 1..n : f[i] = step[i][f[i - 1]]
    <2>1. \E f : Loop(f, Pieces, Uncut, n, step)
      BY <1>1, <1>2, <1>3, Rounds
    <2> QED BY <2>1 DEF Loop
  <1>6. \A i \in 1..n : f[i] = Cutting(f[i - 1], str[i])
    <2> SUFFICES ASSUME NEW i \in 1..n PROVE f[i] = Cutting(f[i - 1], str[i])
      OBVIOUS
    <2>1. f[i - 1] \in Pieces
      BY <1>1
    <2> QED BY <1>4, <1>5, <2>1
  <1>7. Splitting(f, str)
    <2>1. \A i \in 0..n : f[i] = IF i = 0 THEN Uncut ELSE Cutting(f[i - 1], str[i])
      BY <1>1, <1>5, <1>6
    <2>2. f = [i \in 0..n |-> f[i]]
      OBVIOUS
    <2> QED BY <2>1, <2>2 DEF Splitting, n
  <1> DEFINE g == CHOOSE h : Splitting(h, str)
  <1>8. Splitting(g, str)
    BY <1>7
  <1> HIDE DEF g
  <1>9. \A i \in 0..n : g[i] = IF i = 0 THEN Uncut ELSE Cutting(g[i - 1], str[i])
    BY <1>8 DEF Splitting, n
  <1>10. Same(g, f, n)
    <2>1. InStep(g, f, n)
      BY <1>1, <1>5, <1>6, <1>9 DEF InStep
    <2> QED BY <1>1, <2>1, SameRounds
  <1>11. CutUp(str) = f[n]
    BY <1>1, <1>10 DEF CutUp, g, n, Same
  <1> QED BY <1>5, <1>6, <1>11 DEF n

LEMMA CutUpGrows ==
    /\ CutUp(<<>>) = Uncut
    /\ \A str \in Seq(Symbols) : CutUp(str) \in Pieces
    /\ \A str \in Seq(Symbols), x \in Symbols :
         CutUp(Append(str, x)) = Cutting(CutUp(str), x)
  <1>1. CutUp(<<>>) = Uncut
    <2>1. <<>> \in Seq(Symbols) /\ Len(<<>>) = 0
      OBVIOUS
    <2>2. PICK f : f[0] = Uncut /\ CutUp(<<>>) = f[Len(<<>>)]
      BY <2>1, SplitRounds
    <2> QED BY <2>1, <2>2
  <1>2. ASSUME NEW str \in Seq(Symbols) PROVE CutUp(str) \in Pieces
    <2>1. Len(str) \in 0..Len(str)
      BY LenProperties
    <2> QED BY <2>1, SplitRounds
  <1>3. ASSUME NEW str \in Seq(Symbols), NEW x \in Symbols
        PROVE  CutUp(Append(str, x)) = Cutting(CutUp(str), x)
    <2> DEFINE n == Len(str)
               longer == Append(str, x)
    <2>1. /\ n \in Nat /\ longer \in Seq(Symbols) /\ Len(longer) = n + 1
          /\ longer[n + 1] = x /\ \A i \in 1..n : longer[i] = str[i]
      BY LenProperties, AppendProperties
    <2>2. PICK f : /\ f[0] = Uncut /\ \A i \in 1..n : f[i] = Cutting(f[i - 1], str[i])
                   /\ CutUp(str) = f[n]
      BY SplitRounds
    <2> HIDE DEF longer
    <2>3. PICK g : /\ g[0] = Uncut /\ \A i \in 1..Len(longer) : g[i] = Cutting(g[i - 1], longer[i])
                   /\ CutUp(longer) = g[Len(longer)]
      BY <2>1, SplitRounds
    <2> HIDE DEF n
    <2>4. Same(f, g, n)
      <3>1. \A i \in 1..n : f[i] = Cutting(f[i - 1], str[i]) /\ g[i] = Cutting(g[i - 1], str[i])
        BY <2>1, <2>2, <2>3
      <3>2. InStep(f, g, n)
        BY <2>2, <2>3, <3>1 DEF InStep
      <3> QED BY <2>1, <3>2, SameRounds
    <2>5. f[n] = g[n]
      BY <2>1, <2>4 DEF Same
    <2>6. g[n + 1] = Cutting(g[n], x)
      <3>1. n + 1 \in 1..Len(longer) /\ (n + 1) - 1 = n
        BY <2>1
      <3> QED BY <2>1, <2>3, <3>1
    <2> QED BY <2>1, <2>2, <2>3, <2>5, <2>6 DEF longer, n
  <1> QED BY <1>1, <1>2, <1>3

LEMMA SplitIs == ASSUME NEW str PROVE Split(str) = CutUp(str)
  BY DEF Split, CutUp, Splitting, Uncut

-----------------------------------------------------------------------------
(* Reading tokens.                                                         *)

Reading == [out : Seq(Char), open : Seq(Seq(Symbols))]
ReadStart == [out |-> <<>>, open |-> <<>>]

Tokenwise(f, toks) ==
    f = [n \in 0..Len(toks) |-> IF n = 0 THEN ReadStart ELSE ReadToken(f[n - 1], n, toks[n])]

ReadAll(toks) == (CHOOSE f : Tokenwise(f, toks))[Len(toks)]

LEMMA PlainType ==
    ASSUME NEW syms \in Seq(Symbols), NEW tags \in SUBSET Tags
    PROVE  /\ Plain(syms, tags) \in Seq(Char) /\ Len(Plain(syms, tags)) = Len(syms)
           /\ \A i \in 1..Len(syms) : Plain(syms, tags)[i] = [sym |-> syms[i], tags |-> tags]
  <1>1. DOMAIN syms = 1..Len(syms) /\ Len(syms) \in Nat /\ \A i \in 1..Len(syms) : syms[i] \in Symbols
    BY LenProperties, ElementOfSeq
  <1>2. \A i \in 1..Len(syms) : [sym |-> syms[i], tags |-> tags] \in Char
    BY <1>1 DEF Char
  <1> QED BY <1>1, <1>2 DEF Plain

LEMMA RemoveFirstIs ==
    ASSUME NEW S, NEW q \in Seq(S), NEW e
    PROVE  \/ RemoveFirst(q, e) = q /\ \A i \in 1..Len(q) : q[i] # e
           \/ \E k \in 1..Len(q) : /\ q[k] = e
                                   /\ RemoveFirst(q, e) = SubSeq(q, 1, k - 1) \o SubSeq(q, k + 1, Len(q))
  <1>1. CASE \A i \in 1..Len(q) : q[i] # e
    BY <1>1 DEF RemoveFirst
  <1>2. CASE \E i \in 1..Len(q) : q[i] = e
    <2> DEFINE I == {i \in 1..Len(q) : q[i] = e}
    <2>1. I \in SUBSET Nat /\ I # {}
      BY <1>2, LenProperties
    <2>2. Min(I) \in I
      BY <2>1, LeastIs
    <2>3. RemoveFirst(q, e) = RemoveAt(q, Min(I))
      BY <1>2, <2>1 DEF RemoveFirst, SelectInSeq
    <2> HIDE DEF I
    <2>4. Min(I) \in 1..Len(q) /\ q[Min(I)] = e
      BY <2>2 DEF I
    <2> QED BY <2>3, <2>4 DEF RemoveAt
  <1> QED BY <1>1, <1>2

\* A sequence without the k-th element.
LEMMA WithoutIs ==
    ASSUME NEW S, NEW q \in Seq(S), NEW k \in 1..Len(q)
    PROVE  LET w == SubSeq(q, 1, k - 1) \o SubSeq(q, k + 1, Len(q))
           IN  /\ w \in Seq(S) /\ Len(w) = Len(q) - 1
               /\ \A i \in 1..(Len(q) - 1) : w[i] = IF i < k THEN q[i] ELSE q[i + 1]
  <1> DEFINE a == SubSeq(q, 1, k - 1)
             b == SubSeq(q, k + 1, Len(q))
  <1>1. Len(q) \in Nat /\ \A i \in 1..Len(q) : q[i] \in S
    BY LenProperties, ElementOfSeq
  <1>2. a \in Seq(S) /\ Len(a) = k - 1 /\ \A i \in 1..(k - 1) : a[i] = q[i]
    <2>1. 1 \in Int /\ k - 1 \in Int /\ \A i \in 1..(k - 1) : q[i] \in S
      BY <1>1
    <2> QED BY <1>1, <2>1, SubSeqProperties
  <1>3. b \in Seq(S) /\ Len(b) = Len(q) - k /\ \A i \in 1..(Len(q) - k) : b[i] = q[i + k]
    <2>1. k + 1 \in Int /\ Len(q) \in Int /\ \A i \in (k + 1)..Len(q) : q[i] \in S
      BY <1>1
    <2> QED BY <1>1, <2>1, SubSeqProperties
  <1> HIDE DEF a, b
  <1>4. a \o b \in Seq(S) /\ Len(a \o b) = Len(q) - 1
        /\ \A i \in 1..(Len(q) - 1) : (a \o b)[i] = IF i <= k - 1 THEN a[i] ELSE b[i - (k - 1)]
    BY <1>1, <1>2, <1>3, ConcatProperties
  <1>5. ASSUME NEW i \in 1..(Len(q) - 1) PROVE (a \o b)[i] = IF i < k THEN q[i] ELSE q[i + 1]
    <2>1. CASE i < k
      BY <1>1, <1>2, <1>4, <2>1
    <2>2. CASE ~(i < k)
      <3>1. ~(i <= k - 1) /\ i - (k - 1) \in 1..(Len(q) - k) /\ i - (k - 1) + k = i + 1
        BY <1>1, <2>2
      <3> QED BY <1>3, <1>4, <2>2, <3>1
    <2> QED BY <2>1, <2>2
  <1> QED BY <1>4, <1>5 DEF a, b

LEMMA RemoveFirstType == ASSUME NEW S, NEW q \in Seq(S), NEW e PROVE RemoveFirst(q, e) \in Seq(S)
  <1>1. CASE \E k \in 1..Len(q) : RemoveFirst(q, e) = SubSeq(q, 1, k - 1) \o SubSeq(q, k + 1, Len(q))
    <2>1. PICK k \in 1..Len(q) : RemoveFirst(q, e) = SubSeq(q, 1, k - 1) \o SubSeq(q, k + 1, Len(q))
      BY <1>1
    <2>2. SubSeq(q, 1, k - 1) \o SubSeq(q, k + 1, Len(q)) \in Seq(S)
      BY WithoutIs, Zenon
    <2> QED BY <2>1, <2>2
  <1>2. CASE RemoveFirst(q, e) = q
    BY <1>2
  <1> QED BY <1>1, <1>2, RemoveFirstIs, Zenon

LEMMA ReadTokenType ==
    ASSUME NEW acc \in Reading, NEW i, NEW tok \in Seq(Symbols)
    PROVE  ReadToken(acc, i, tok) \in Reading
  <1>1. acc.out \in Seq(Char) /\ acc.open \in Seq(Seq(Symbols)) /\ acc = [out |-> acc.out, open |-> acc.open]
    BY DEF Reading
  <1>2. ASSUME NEW tags \in SUBSET Tags PROVE acc.out \o Plain(Unescape(tok), tags) \in Seq(Char)
    BY <1>1, PlainType, UnescapeType, ConcatProperties
  <1>3. [acc EXCEPT !.out = @ \o Plain(Unescape(tok), {t \in Tags : <<t>> \in ToSet(acc.open)})] \in Reading
    BY <1>1, <1>2 DEF Reading
  <1>4. [acc EXCEPT !.open = RemoveFirst(@, Tail(tok))] \in Reading
    BY <1>1, RemoveFirstType DEF Reading
  <1>5. [acc EXCEPT !.open = <<tok>> \o @] \in Reading
    <2>1. <<tok>> \in Seq(Seq(Symbols))
      OBVIOUS
    <2> QED BY <1>1, <2>1, ConcatProperties DEF Reading
  <1> QED BY <1>3, <1>4, <1>5 DEF ReadToken

LEMMA TokenRounds ==
    ASSUME NEW toks \in Seq(Seq(Symbols))
    PROVE  \E f \in [0..Len(toks) -> Reading] :
             /\ f[0] = ReadStart /\ \A i \in 1..Len(toks) : f[i] = ReadToken(f[i - 1], i, toks[i])
             /\ ReadAll(toks) = f[Len(toks)]
  <1> DEFINE n == Len(toks)
             step == [i \in 1..n |-> [h \in Reading |-> ReadToken(h, i, toks[i])]]
  <1>1. n \in Nat /\ (\A i \in 1..n : toks[i] \in Seq(Symbols))
    BY LenProperties, ElementOfSeq
  <1>2. ReadStart \in Reading
    <2>1. <<>> \in Seq(Char) /\ <<>> \in Seq(Seq(Symbols))
      OBVIOUS
    <2> QED BY <2>1 DEF ReadStart, Reading
  <1>3. step \in [1..n -> [Reading -> Reading]]
    BY <1>1, ReadTokenType
  <1>4. \A h \in Reading, i \in 1..n : step[i][h] = ReadToken(h, i, toks[i])
    OBVIOUS
  <1> HIDE DEF step, n
  <1>5. PICK f \in [0..n -> Reading] : f[0] = ReadStart /\ \A i \in 1..n : f[i] = step[i][f[i - 1]]
    <2>1. \E f : Loop(f, Reading, ReadStart, n, step)
      BY <1>1, <1>2, <1>3, Rounds
    <2> QED BY <2>1 DEF Loop
  <1>6. \A i \in 1..n : f[i] = ReadToken(f[i - 1], i, toks[i])
    <2> SUFFICES ASSUME NEW i \in 1..n PROVE f[i] = ReadToken(f[i - 1], i, toks[i])
      OBVIOUS
    <2>1. f[i - 1] \in Reading
      BY <1>1
    <2> QED BY <1>4, <1>5, <2>1
  <1>7. Tokenwise(f, toks)
    <2>1. \A i \in 0..n : f[i] = IF i = 0 THEN ReadStart ELSE ReadToken(f[i - 1], i, toks[i])
      BY <1>1, <1>5, <1>6
    <2>2. f = [i \in 0..n |-> f[i]]
      OBVIOUS
    <2> QED BY <2>1, <2>2 DEF Tokenwise, n
  <1> DEFINE g == CHOOSE h : Tokenwise(h, toks)
  <1>8. Tokenwise(g, toks)
    BY <1>7
  <1> HIDE DEF g
  <1>9. \A i \in 0..n : g[i] = IF i = 0 THEN ReadStart ELSE ReadToken(g[i - 1], i, toks[i])
    BY <1>8 DEF Tokenwise, n
  <1>10. Same(g, f, n)
    <2>1. InStep(g, f, n)
      BY <1>1, <1>5, <1>6, <1>9 DEF InStep
    <2> QED BY <1>1, <2>1, SameRounds
  <1>11. ReadAll(toks) = f[n]
    BY <1>1, <1>10 DEF ReadAll, g, n, Same
  <1> QED BY <1>5, <1>6, <1>11 DEF n

LEMMA ReadAllGrows ==
    /\ ReadAll(<<>>) = ReadStart
    /\ \A toks \in Seq(Seq(Symbols)) : ReadAll(toks) \in Reading
    /\ \A toks \in Seq(Seq(Symbols)), x \in Seq(Symbols) :
         ReadAll(Append(toks, x)) = ReadToken(ReadAll(toks), Len(toks) + 1, x)
  <1>1. ReadAll(<<>>) = ReadStart
    <2>1. <<>> \in Seq(Seq(Symbols)) /\ Len(<<>>) = 0
      OBVIOUS
    <2>2. PICK f : f[0] = ReadStart /\ ReadAll(<<>>) = f[Len(<<>>)]
      BY <2>1, TokenRounds
    <2> QED BY <2>1, <2>2
  <1>2. ASSUME NEW toks \in Seq(Seq(Symbols)) PROVE ReadAll(toks) \in Reading
    <2>1. Len(toks) \in 0..Len(toks)
      BY LenProperties
    <2> QED BY <2>1, TokenRounds
  <1>3. ASSUME NEW toks \in Seq(Seq(Symbols)), NEW x \in Seq(Symbols)
        PROVE  ReadAll(Append(toks, x)) = ReadToken(ReadAll(toks), Len(toks) + 1, x)
    <2> DEFINE n == Len(toks)
               longer == Append(toks, x)
    <2>1. /\ n \in Nat /\ longer \in Seq(Seq(Symbols)) /\ Len(longer) = n + 1
          /\ longer[n + 1] = x /\ \A i \in 1..n : longer[i] = toks[i]
      BY LenProperties, AppendProperties
    <2>2. PICK f : /\ f[0] = ReadStart /\ \A i \in 1..n : f[i] = ReadToken(f[i - 1], i, toks[i])
                   /\ ReadAll(toks) = f[n]
      BY TokenRounds
    <2> HIDE DEF longer
    <2>3. PICK g : /\ g[0] = ReadStart /\ \A i \in 1..Len(longer) : g[i] = ReadToken(g[i - 1], i, longer[i])
                   /\ ReadAll(longer) = g[Len(longer)]
      BY <2>1, TokenRounds
    <2> HIDE DEF n
    <2>4. Same(f, g, n)
      <3>1. \A i \in 1..n : f[i] = ReadToken(f[i - 1], i, toks[i]) /\ g[i] = ReadToken(g[i - 1], i, toks[i])
        BY <2>1, <2>2, <2>3
      <3>2. InStep(f, g, n)
        BY <2>2, <2>3, <3>1 DEF InStep
      <3> QED BY <2>1, <3>2, SameRounds
    <2>5. f[n] = g[n]
      BY <2>1, <2>4 DEF Same
    <2>6. g[n + 1] = ReadToken(g[n], n + 1, x)
      <3>1. n + 1 \in 1..Len(longer) /\ (n + 1) - 1 = n
        BY <2>1
      <3> QED BY <2>1, <2>3, <3>1
    <2> QED BY <2>1, <2>2, <2>3, <2>5, <2>6 DEF longer, n
  <1> QED BY <1>1, <1>2, <1>3

LEMMA DecodeIs == ASSUME NEW str PROVE Decode(str) = ReadAll(CutUp(str)).out
  BY SplitIs DEF Decode, ReadAll, Tokenwise, ReadStart

LEMMA DecodeType == ASSUME NEW str \in Seq(Symbols) PROVE Decode(str) \in Seq(Char)
  <1>1. CutUp(str) \in Seq(Seq(Symbols))
    BY CutUpGrows DEF Pieces
  <1> QED BY <1>1, DecodeIs, ReadAllGrows DEF Reading

-----------------------------------------------------------------------------
(* Flattening, and sets as sequences.                                      *)

Flattening(f, seqs) == f = [i \in 1..Len(seqs) |-> IF i = 1 THEN seqs[i] ELSE f[i - 1] \o seqs[i]]

LEMMA FlattenRounds ==
    ASSUME NEW S, NEW seqs \in Seq(Seq(S))
    PROVE  \E f \in [0..Len(seqs) -> Seq(S)] :
             /\ f[0] = <<>> /\ \A i \in 1..Len(seqs) : f[i] = f[i - 1] \o seqs[i]
             /\ FlattenSeq(seqs) = f[Len(seqs)]
  <1> DEFINE n == Len(seqs)
             L == Seq(S)
             step == [i \in 1..n |-> [h \in L |-> h \o seqs[i]]]
  <1>1. n \in Nat /\ (\A i \in 1..n : seqs[i] \in L)
    BY LenProperties, ElementOfSeq
  <1>2. <<>> \in L
    OBVIOUS
  <1>3. step \in [1..n -> [L -> L]]
    BY <1>1, ConcatProperties
  <1>4. \A h \in L, i \in 1..n : step[i][h] = h \o seqs[i]
    OBVIOUS
  <1> HIDE DEF step, n, L
  <1>5. PICK f \in [0..n -> L] : f[0] = <<>> /\ \A i \in 1..n : f[i] = step[i][f[i - 1]]
    <2>1. \E f : Loop(f, L, <<>>, n, step)
      BY <1>1, <1>2, <1>3, Rounds
    <2> QED BY <2>1 DEF Loop
  <1>6. \A i \in 1..n : f[i] = f[i - 1] \o seqs[i]
    <2> SUFFICES ASSUME NEW i \in 1..n PROVE f[i] = f[i - 1] \o seqs[i]
      OBVIOUS
    <2>1. f[i - 1] \in L
      BY <1>1
    <2> QED BY <1>4, <1>5, <2>1
  <1>7. FlattenSeq(seqs) = f[n]
    <2>1. CASE n = 0
      <3>1. seqs = <<>>
        BY <2>1, EmptySeq DEF n
      <3> QED BY <1>5, <2>1, <3>1 DEF FlattenSeq, n
    <2>2. CASE n # 0
      <3> DEFINE h == [i \in 1..n |-> f[i]]
      <3>0. \A i \in 1..n : h[i] = f[i]
        OBVIOUS
      <3>1. \A i \in 1..n : h[i] = IF i = 1 THEN seqs[i] ELSE h[i - 1] \o seqs[i]
        <4> HIDE DEF h
        <4> SUFFICES ASSUME NEW i \in 1..n PROVE h[i] = IF i = 1 THEN seqs[i] ELSE h[i - 1] \o seqs[i]
          OBVIOUS
        <4>1. CASE i = 1
          <5>1. 1 \in 1..n /\ 1 - 1 = 0
            BY <4>1
          <5>2. f[1] = f[0] \o seqs[1]
            BY <1>6, <5>1
          <5>3. seqs[1] \in Seq(S)
            BY <1>1, <5>1 DEF L
          <5>4. f[1] = seqs[1]
            BY <1>5, <5>2, <5>3, ConcatEmptySeq
          <5> QED BY <3>0, <4>1, <5>4
        <4>2. CASE i # 1
          <5>1. i - 1 \in 1..n
            BY <1>1, <4>2
          <5>2. h[i - 1] = f[i - 1] /\ h[i] = f[i]
            BY <3>0, <5>1
          <5>3. f[i] = f[i - 1] \o seqs[i]
            BY <1>6
          <5> QED BY <4>2, <5>2, <5>3
        <4> QED BY <4>1, <4>2
      <3>2. h = [i \in 1..n |-> h[i]]
        OBVIOUS
      <3>3. Flattening(h, seqs)
        <4> HIDE DEF h
        <4> QED BY <3>1, <3>2 DEF Flattening, n
      <3> DEFINE g == CHOOSE x : Flattening(x, seqs)
      <3>4. Flattening(g, seqs)
        <4> HIDE DEF h
        <4> QED BY <3>3
      <3> HIDE DEF g
      <3>5. \A i \in 1..n : g[i] = IF i = 1 THEN seqs[i] ELSE g[i - 1] \o seqs[i]
        BY <3>4 DEF Flattening, n
      <3> DEFINE A == {i \in 0..n : i = 0 \/ g[i] = h[i]}
      <3>6. 0 \in A
        BY <1>1
      <3>7. ASSUME NEW i \in 1..n, i - 1 \in A PROVE i \in A
        <4> HIDE DEF h
        <4>1. CASE i = 1
          BY <1>1, <3>1, <3>5, <4>1
        <4>2. CASE i # 1
          <5>1. i - 1 \in 1..n /\ g[i - 1] = h[i - 1]
            BY <1>1, <3>7, <4>2
          <5> QED BY <1>1, <3>1, <3>5, <4>2, <5>1
        <4> QED BY <4>1, <4>2
      <3> HIDE DEF A
      <3>8. n \in A
        <4>1. 0..n \subseteq A
          BY <1>1, <3>6, <3>7, UpTo
        <4> QED BY <1>1, <4>1
      <3>9. g[n] = f[n]
        BY <1>1, <2>2, <3>8 DEF A
      <3>10. FlattenSeq(seqs) = g[n]
        BY <2>2 DEF FlattenSeq, Flattening, g, n
      <3> QED BY <3>9, <3>10
    <2> QED BY <2>1, <2>2
  <1> QED BY <1>5, <1>6, <1>7 DEF n, L

LEMMA FlattenType == ASSUME NEW S, NEW seqs \in Seq(Seq(S)) PROVE FlattenSeq(seqs) \in Seq(S)
  <1>1. Len(seqs) \in 0..Len(seqs)
    BY LenProperties
  <1>2. PICK f \in [0..Len(seqs) -> Seq(S)] : FlattenSeq(seqs) = f[Len(seqs)]
    BY FlattenRounds
  <1> QED BY <1>1, <1>2

\* A finite set as a sequence: each element once.
Lists(q, S) ==
    /\ q \in Seq(S)
    /\ \A i, j \in 1..Len(q) : q[i] = q[j] => i = j
    /\ \A x \in S : \E i \in 1..Len(q) : q[i] = x

LEMMA SetToSeqLists == ASSUME NEW S, IsFiniteSet(S) PROVE Lists(SetToSeq(S), S)
  <1> DEFINE n == Cardinality(S)
             q == SetToSeq(S)
  <1>1. n \in Nat /\ ExistsBijection(1..n, S)
    BY FS_CardinalityType
  <1>2. PICK b : b \in Bijection(1..n, S)
    BY <1>1, Fun_ExistsBij
  <1>3. b \in [1..n -> S] /\ IsInjective(b)
    BY <1>2, Fun_BijectionProperties DEF Injection
  <1>4. q \in [1..n -> S] /\ IsInjective(q)
    BY <1>3 DEF SetToSeq
  <1> HIDE DEF q
  <1>5. q \in Injection(1..n, S)
    BY <1>4 DEF Injection
  <1>6. IsFiniteSet(1..n) /\ Cardinality(1..n) = n
    BY <1>1, FS_Interval
  <1>7. q \in Surjection(1..n, S)
    BY <1>5, <1>6, FS_Injection
  <1>8. q \in Seq(S) /\ Len(q) = n
    BY <1>1, <1>4
  <1>9. \A x \in S : \E i \in 1..n : q[i] = x
    BY <1>7 DEF Surjection
  <1>10. \A i, j \in 1..n : q[i] = q[j] => i = j
    BY <1>4 DEF IsInjective
  <1> QED BY <1>8, <1>9, <1>10 DEF Lists, q

-----------------------------------------------------------------------------
(* Reading a text back: where the reader is after a part of the markup.    *)

\* The open tags are those of G, each once.
Opens(q, G) ==
    /\ G \in SUBSET Tags /\ q \in Seq(Seq(Symbols))
    /\ \A i, j \in 1..Len(q) : q[i] = q[j] => i = j
    /\ \A i \in 1..Len(q) : \E g \in G : q[i] = <<g>>
    /\ \A g \in G : \E i \in 1..Len(q) : q[i] = <<g>>

\* The reader is in the token seg of text, after the tokens toks, with the tags of G
\* open; what it has read is u.
Within(str, toks, seg, u, G) ==
    /\ CutUp(str) = Append(toks, seg)
    /\ Len(toks) % 2 = 0
    /\ ~Halfway(seg).esc
    /\ ReadAll(toks).out \o Plain(Halfway(seg).out, G) = u
    /\ Opens(ReadAll(toks).open, G)

Marked(str, u, G) ==
    \E toks \in Seq(Seq(Symbols)), seg \in Seq(Symbols) : Within(str, toks, seg, u, G)

LEMMA TagsAreSymbols ==
    ASSUME NEW g \in Tags
    PROVE  g \in Symbols /\ g # TAG /\ g # Slash /\ g # ESC /\ <<g>> \in Seq(Symbols)
  <1>1. g \in Symbols
    BY DEF Symbols
  <1>2. g # TAG /\ g # Slash /\ g # ESC
    BY TextAssumption
  <1>3. <<g>> \in Seq(Symbols)
    BY <1>1
  <1> QED BY <1>1, <1>2, <1>3

LEMMA OpensIs ==
    ASSUME NEW q, NEW G, Opens(q, G)
    PROVE  {t \in Tags : <<t>> \in ToSet(q)} = G
  <1>1. DOMAIN q = 1..Len(q)
    BY LenProperties DEF Opens
  <1>2. ToSet(q) = {q[i] : i \in 1..Len(q)}
    BY <1>1 DEF ToSet
  <1>3. ASSUME NEW t \in Tags, <<t>> \in ToSet(q) PROVE t \in G
    <2>1. PICK i \in 1..Len(q) : q[i] = <<t>>
      BY <1>2, <1>3
    <2>2. PICK g \in G : q[i] = <<g>>
      BY DEF Opens
    <2>3. <<t>>[1] = <<g>>[1]
      BY <2>1, <2>2
    <2> QED BY <2>3
  <1>4. ASSUME NEW g \in G PROVE g \in Tags /\ <<g>> \in ToSet(q)
    BY <1>2 DEF Opens
  <1> QED BY <1>3, <1>4

LEMMA OpensMore ==
    ASSUME NEW q, NEW G, Opens(q, G), NEW g \in Tags, g \notin G
    PROVE  Opens(<<<<g>>>> \o q, G \cup {g})
  <1> DEFINE p == <<<<g>>>>
             r == p \o q
             n == Len(q)
  <1>1. q \in Seq(Seq(Symbols)) /\ n \in Nat /\ G \in SUBSET Tags
    BY LenProperties DEF Opens
  <1>2. p \in Seq(Seq(Symbols)) /\ Len(p) = 1 /\ p[1] = <<g>>
    BY TagsAreSymbols
  <1> HIDE DEF p
  <1>3. r \in Seq(Seq(Symbols)) /\ Len(r) = n + 1
        /\ \A i \in 1..(n + 1) : r[i] = IF i <= 1 THEN p[i] ELSE q[i - 1]
    <2>1. /\ p \o q \in Seq(Seq(Symbols)) /\ Len(p \o q) = Len(p) + Len(q)
          /\ \A i \in 1..(Len(p) + Len(q)) : (p \o q)[i] = IF i <= Len(p) THEN p[i] ELSE q[i - Len(p)]
      BY <1>1, <1>2, ConcatProperties
    <2> HIDE DEF r, n
    <2>2. Len(p) + Len(q) = n + 1
      BY <1>1, <1>2 DEF n
    <2> QED BY <1>2, <2>1, <2>2 DEF r
  <1> HIDE DEF r
  <1>4. r[1] = <<g>>
    BY <1>1, <1>2, <1>3
  <1>5. ASSUME NEW i \in 2..(n + 1) PROVE i - 1 \in 1..n /\ r[i] = q[i - 1]
    BY <1>1, <1>3
  <1>5a. ASSUME NEW i \in 1..n PROVE i + 1 \in 2..(n + 1) /\ i + 1 \in 1..(n + 1) /\ r[i + 1] = q[i]
    BY <1>1, <1>3
  <1>6. ASSUME NEW i \in 1..n PROVE q[i] # <<g>>
    <2>1. PICK x \in G : q[i] = <<x>>
      BY DEF Opens, n
    <2>2. <<x>>[1] = x /\ <<g>>[1] = g
      OBVIOUS
    <2> QED BY <2>1, <2>2
  <1>7. ASSUME NEW i \in 1..(n + 1), NEW j \in 1..(n + 1), r[i] = r[j] PROVE i = j
    <2>1. (i = 1 \/ i \in 2..(n + 1)) /\ (j = 1 \/ j \in 2..(n + 1))
      BY <1>1
    <2>2. CASE i = 1
      BY <1>4, <1>5, <1>6, <1>7, <2>1, <2>2
    <2>3. CASE j = 1
      BY <1>4, <1>5, <1>6, <1>7, <2>1, <2>3
    <2>4. CASE i # 1 /\ j # 1
      <3>1. i - 1 \in 1..n /\ j - 1 \in 1..n /\ q[i - 1] = q[j - 1]
        BY <1>5, <1>7, <2>1, <2>4
      <3>2. i - 1 = j - 1
        BY <3>1 DEF Opens, n
      <3> QED BY <3>2
    <2> QED BY <2>2, <2>3, <2>4
  <1>8. ASSUME NEW i \in 1..(n + 1) PROVE \E x \in G \cup {g} : r[i] = <<x>>
    <2>1. CASE i = 1
      BY <1>4, <2>1
    <2>2. CASE i # 1
      <3>1. i - 1 \in 1..n /\ r[i] = q[i - 1]
        BY <1>1, <1>5, <2>2
      <3> QED BY <3>1 DEF Opens, n
    <2> QED BY <2>1, <2>2
  <1>9. ASSUME NEW x \in G \cup {g} PROVE \E i \in 1..(n + 1) : r[i] = <<x>>
    <2>1. CASE x = g
      <3>1. 1 \in 1..(n + 1)
        BY <1>1
      <3> QED BY <1>4, <2>1, <3>1
    <2>2. CASE x \in G
      <3>1. PICK i \in 1..n : q[i] = <<x>>
        BY <2>2 DEF Opens, n
      <3> QED BY <1>5a, <3>1
    <2> QED BY <2>1, <2>2
  <1>10. G \cup {g} \in SUBSET Tags
    BY <1>1
  <1> QED BY <1>3, <1>7, <1>8, <1>9, <1>10 DEF Opens, r, p

LEMMA OpensLess ==
    ASSUME NEW q, NEW G, Opens(q, G), NEW g \in G
    PROVE  Opens(RemoveFirst(q, <<g>>), G \ {g})
  <1> DEFINE n == Len(q)
             r == RemoveFirst(q, <<g>>)
  <1>1. q \in Seq(Seq(Symbols)) /\ n \in Nat /\ G \in SUBSET Tags
    BY LenProperties DEF Opens
  <1>2. \E i \in 1..n : q[i] = <<g>>
    BY DEF Opens
  <1>3. PICK k \in 1..n : q[k] = <<g>> /\ r = SubSeq(q, 1, k - 1) \o SubSeq(q, k + 1, n)
    BY <1>1, <1>2, RemoveFirstIs
  <1>4. /\ r \in Seq(Seq(Symbols)) /\ Len(r) = n - 1
        /\ \A i \in 1..(n - 1) : r[i] = IF i < k THEN q[i] ELSE q[i + 1]
    <2> HIDE DEF r
    <2>1. LET w == SubSeq(q, 1, k - 1) \o SubSeq(q, k + 1, Len(q))
          IN  /\ w \in Seq(Seq(Symbols)) /\ Len(w) = Len(q) - 1
              /\ \A i \in 1..(Len(q) - 1) : w[i] = IF i < k THEN q[i] ELSE q[i + 1]
      BY <1>1, WithoutIs, Zenon
    <2> QED BY <1>3, <2>1
  <1> HIDE DEF r
  <1> DEFINE to == [i \in 1..(n - 1) |-> IF i < k THEN i ELSE i + 1]
  <1>5. ASSUME NEW i \in 1..(n - 1) PROVE to[i] \in 1..n /\ to[i] # k /\ r[i] = q[to[i]]
    <2>1. to[i] = IF i < k THEN i ELSE i + 1
      OBVIOUS
    <2>2. r[i] = IF i < k THEN q[i] ELSE q[i + 1]
      BY <1>4
    <2>3. i \in 1..n /\ i + 1 \in 1..n /\ (i < k => i # k) /\ (~(i < k) => i + 1 # k)
      BY <1>1
    <2> HIDE DEF to, n
    <2> QED BY <2>1, <2>2, <2>3
  <1>6. ASSUME NEW i \in 1..(n - 1), NEW j \in 1..(n - 1), to[i] = to[j] PROVE i = j
    BY <1>1, <1>6
  <1>7. ASSUME NEW i \in 1..n, i # k PROVE \E j \in 1..(n - 1) : to[j] = i
    <2>1. CASE i < k
      <3>1. i \in 1..(n - 1) /\ to[i] = i
        BY <1>1, <2>1
      <3> QED BY <3>1
    <2>2. CASE ~(i < k)
      <3>1. i - 1 \in 1..(n - 1) /\ to[i - 1] = i
        BY <1>1, <1>7, <2>2
      <3> QED BY <3>1
    <2> QED BY <2>1, <2>2
  <1> HIDE DEF to
  <1>8. ASSUME NEW i \in 1..(n - 1), NEW j \in 1..(n - 1), r[i] = r[j] PROVE i = j
    <2>1. to[i] \in 1..n /\ to[j] \in 1..n /\ q[to[i]] = q[to[j]]
      BY <1>5, <1>8
    <2>2. to[i] = to[j]
      BY <2>1 DEF Opens, n
    <2> QED BY <1>6, <2>2
  <1>9. ASSUME NEW i \in 1..(n - 1) PROVE \E x \in G \ {g} : r[i] = <<x>>
    <2>1. PICK x \in G : q[to[i]] = <<x>>
      BY <1>5 DEF Opens, n
    <2>2. x # g
      <3>1. to[i] \in 1..n /\ to[i] # k /\ (x = g => q[to[i]] = q[k])
        BY <1>3, <1>5, <2>1
      <3> QED BY <3>1 DEF Opens, n
    <2> QED BY <1>5, <2>1, <2>2
  <1>10. ASSUME NEW x \in G \ {g} PROVE \E i \in 1..(n - 1) : r[i] = <<x>>
    <2>1. PICK i \in 1..n : q[i] = <<x>>
      BY DEF Opens, n
    <2>2. <<x>>[1] = x /\ <<g>>[1] = g
      OBVIOUS
    <2>3. i # k
      BY <1>3, <2>1, <2>2
    <2>4. PICK j \in 1..(n - 1) : to[j] = i
      BY <1>7, <2>3
    <2> QED BY <1>5, <2>1, <2>4
  <1>11. G \ {g} \in SUBSET Tags
    BY <1>1
  <1> QED BY <1>4, <1>8, <1>9, <1>10, <1>11 DEF Opens, r

LEMMA AppendTwo ==
    ASSUME NEW S, NEW str \in Seq(S), NEW a \in S, NEW b \in S
    PROVE  str \o <<a, b>> = Append(Append(str, a), b)
  OBVIOUS

LEMMA AppendThree ==
    ASSUME NEW S, NEW str \in Seq(S), NEW a \in S, NEW b \in S, NEW c \in S
    PROVE  str \o <<a, b, c>> = Append(Append(Append(str, a), b), c)
  OBVIOUS

LEMMA AppendFour ==
    ASSUME NEW S, NEW str \in Seq(S), NEW a \in S, NEW b \in S, NEW c \in S, NEW d \in S
    PROVE  str \o <<a, b, c, d>> = Append(Append(Append(Append(str, a), b), c), d)
  OBVIOUS

\* A symbol goes to the token being read; the delimiter ends it.
LEMMA CutMore ==
    ASSUME NEW str \in Seq(Symbols), NEW toks \in Seq(Seq(Symbols)), NEW seg \in Seq(Symbols),
           NEW x \in Symbols, CutUp(str) = Append(toks, seg)
    PROVE  /\ x # TAG => CutUp(Append(str, x)) = Append(toks, Append(seg, x))
           /\ x = TAG => CutUp(Append(str, x)) = Append(Append(toks, seg), <<>>)
  <1> DEFINE here == Append(toks, seg)
             n == Len(toks)
             more == Append(seg, x)
  <1>1. CutUp(Append(str, x)) = Cutting(here, x)
    BY CutUpGrows
  <1>2. here \in Seq(Seq(Symbols)) /\ n \in Nat /\ Len(here) = n + 1 /\ here[n + 1] = seg
        /\ \A i \in 1..n : here[i] = toks[i]
    BY AppendProperties, LenProperties
  <1>3. more \in Seq(Symbols)
    BY AppendProperties
  <1>4. Append(toks, more) \in Seq(Seq(Symbols)) /\ Len(Append(toks, more)) = n + 1
        /\ Append(toks, more)[n + 1] = more /\ \A i \in 1..n : Append(toks, more)[i] = toks[i]
    BY <1>3, AppendProperties
  <1> HIDE DEF here, more, n
  <1>5. [here EXCEPT ![n + 1] = more] = Append(toks, more)
    <2>1. n + 1 \in 1..Len(here)
      BY <1>2
    <2>2. /\ [here EXCEPT ![n + 1] = more] \in Seq(Seq(Symbols))
          /\ Len([here EXCEPT ![n + 1] = more]) = Len(here)
          /\ \A j \in 1..Len(here) : [here EXCEPT ![n + 1] = more][j] = IF j = n + 1 THEN more ELSE here[j]
      BY <1>2, <1>3, <2>1, ExceptSeq
    <2> DEFINE w == [here EXCEPT ![n + 1] = more]
               v == Append(toks, more)
    <2>3. w \in Seq(Seq(Symbols)) /\ v \in Seq(Seq(Symbols)) /\ Len(w) = Len(v)
      BY <1>2, <1>4, <2>2
    <2>4. \A j \in 1..Len(w) : w[j] = v[j]
      <3> SUFFICES ASSUME NEW j \in 1..Len(w) PROVE w[j] = v[j]
        OBVIOUS
      <3>1. w[j] = IF j = n + 1 THEN more ELSE here[j]
        BY <2>2
      <3>2. j \in 1..(n + 1)
        BY <1>2, <2>2
      <3> HIDE DEF w, v
      <3>3. j = n + 1 \/ j \in 1..n
        BY <1>2, <3>2
      <3> QED BY <1>2, <1>4, <3>1, <3>3 DEF v
    <2> HIDE DEF w, v
    <2>5. w = v
      BY <2>3, <2>4, SeqEqual
    <2> QED BY <2>5 DEF w, v
  <1>6. Cutting(here, x) = IF x = TAG THEN Append(here, <<>>) ELSE [here EXCEPT ![n + 1] = more]
    BY <1>2 DEF Cutting, more
  <1> QED BY <1>1, <1>5, <1>6 DEF here, more, n

LEMMA CutText ==
    ASSUME NEW str \in Seq(Symbols), NEW toks \in Seq(Seq(Symbols)), NEW seg \in Seq(Symbols),
           NEW x \in Symbols, CutUp(str) = Append(toks, seg), x # TAG
    PROVE  CutUp(Append(str, x)) = Append(toks, Append(seg, x)) /\ Append(seg, x) \in Seq(Symbols)
  <1>1. Append(seg, x) \in Seq(Symbols)
    BY AppendProperties
  <1> QED BY <1>1, CutMore, Zenon

LEMMA CutHere ==
    ASSUME NEW str \in Seq(Symbols), NEW toks \in Seq(Seq(Symbols)), NEW seg \in Seq(Symbols),
           CutUp(str) = Append(toks, seg)
    PROVE  CutUp(Append(str, TAG)) = Append(Append(toks, seg), <<>>)
  <1>1. PICK x \in Symbols : x = TAG
    BY SymbolsKnown
  <1>2. x = TAG => CutUp(Append(str, x)) = Append(Append(toks, seg), <<>>)
    BY CutMore, Zenon
  <1> QED BY <1>1, <1>2

LEMMA CutName ==
    ASSUME NEW str \in Seq(Symbols), NEW toks \in Seq(Seq(Symbols)), NEW seg \in Seq(Symbols),
           CutUp(str) = Append(toks, seg), NEW g \in Tags
    PROVE  CutUp(Append(str, g)) = Append(toks, Append(seg, g))
  <1>1. g \in Symbols
    BY TagsAreSymbols
  <1>2. g # TAG
    BY TagsAreSymbols
  <1> QED BY <1>1, <1>2, CutText

\* The tokens of a string: the finished ones, and the one being filled.
IsCut(str, toks, seg) ==
    /\ str \in Seq(Symbols)
    /\ toks \in Seq(Seq(Symbols))
    /\ seg \in Seq(Symbols)
    /\ CutUp(str) = Append(toks, seg)

LEMMA CutsOn ==
    ASSUME NEW str, NEW toks, NEW seg, IsCut(str, toks, seg), NEW x \in Symbols, x # TAG
    PROVE  IsCut(Append(str, x), toks, Append(seg, x))
  <1>1. str \in Seq(Symbols) /\ toks \in Seq(Seq(Symbols)) /\ seg \in Seq(Symbols)
    BY DEF IsCut
  <1>2. CutUp(str) = Append(toks, seg)
    BY DEF IsCut
  <1>3. CutUp(Append(str, x)) = Append(toks, Append(seg, x))
    BY <1>1, <1>2, CutText, Zenon
  <1>4. Append(str, x) \in Seq(Symbols)
    BY <1>1, AppendProperties, Zenon
  <1>5. Append(seg, x) \in Seq(Symbols)
    BY <1>1, AppendProperties, Zenon
  <1> QED BY <1>1, <1>3, <1>4, <1>5, Zenon DEF IsCut

LEMMA CutsHere ==
    ASSUME NEW str, NEW toks, NEW seg, IsCut(str, toks, seg)
    PROVE  IsCut(Append(str, TAG), Append(toks, seg), <<>>)
  <1>1. str \in Seq(Symbols) /\ toks \in Seq(Seq(Symbols)) /\ seg \in Seq(Symbols)
    BY DEF IsCut
  <1>2. CutUp(str) = Append(toks, seg)
    BY DEF IsCut
  <1>3. CutUp(Append(str, TAG)) = Append(Append(toks, seg), <<>>)
    BY <1>1, <1>2, CutHere, Zenon
  <1>4. TAG \in Symbols
    BY SymbolsKnown
  <1>5. Append(str, TAG) \in Seq(Symbols)
    BY <1>1, <1>4, AppendProperties, Zenon
  <1>6. Append(toks, seg) \in Seq(Seq(Symbols))
    BY <1>1, AppendProperties, Zenon
  <1>7. <<>> \in Seq(Symbols)
    BY EmptySeq
  <1> QED BY <1>3, <1>5, <1>6, <1>7, Zenon DEF IsCut

LEMMA PairIs == ASSUME NEW S, NEW a \in S, NEW b \in S PROVE Append(<<a>>, b) = <<a, b>>
  <1> DEFINE one == <<a>>
             two == <<a, b>>
             w == Append(one, b)
  <1>1. one \in Seq(S) /\ two \in Seq(S)
    OBVIOUS
  <1>2. Len(one) = 1 /\ one[1] = a /\ Len(two) = 2 /\ two[1] = a /\ two[2] = b
    OBVIOUS
  <1> HIDE DEF one, two
  <1>3. w \in Seq(S)
    BY <1>1, AppendProperties
  <1>4. Len(w) = Len(one) + 1
    BY <1>1, AppendProperties
  <1>5. w[Len(one) + 1] = b
    BY <1>1, AppendProperties
  <1>6. \A i \in 1..Len(one) : w[i] = one[i]
    BY <1>1, AppendProperties
  <1> HIDE DEF w
  <1>7. Len(w) = 2 /\ w[1] = a /\ w[2] = b
    BY <1>2, <1>4, <1>5, <1>6
  <1>8. \A i \in 1..2 : w[i] = two[i]
    BY <1>2, <1>7
  <1>9. w = two
    BY <1>1, <1>2, <1>3, <1>7, <1>8, SeqEqual
  <1> QED BY <1>9 DEF w, one, two

LEMMA Parity == ASSUME NEW n \in Nat, n % 2 = 0 PROVE (n + 1) % 2 = 1 /\ (n + 2) % 2 = 0
  OBVIOUS

LEMMA ReadTextToken ==
    ASSUME NEW str, NEW toks \in Seq(Seq(Symbols)), NEW seg \in Seq(Symbols), NEW u, NEW G,
           Within(str, toks, seg, u, G)
    PROVE  ReadAll(Append(toks, seg)) = [out |-> u, open |-> ReadAll(toks).open]
  <1> DEFINE n == Len(toks)
             here == ReadAll(toks)
             formats == {t \in Tags : <<t>> \in ToSet(here.open)}
  <1>1. n \in Nat /\ n % 2 = 0
    BY LenProperties DEF Within
  <1>2. here \in Reading
    BY ReadAllGrows
  <1>3. ReadAll(Append(toks, seg)) = ReadToken(here, n + 1, seg)
    BY ReadAllGrows
  <1>4. (n + 1) % 2 = 1
    BY <1>1, Parity
  <1>5. formats = G
    BY OpensIs DEF Within
  <1>6. Unescape(seg) = Halfway(seg).out
    BY UnescapeEnds DEF Within
  <1> HIDE DEF here, n
  <1>7. ReadToken(here, n + 1, seg) = [here EXCEPT !.out = @ \o Plain(Unescape(seg), formats)]
    BY <1>4 DEF ReadToken
  <1>8. here.out \o Plain(Unescape(seg), formats) = u
    BY <1>5, <1>6 DEF Within, here
  <1>9. here = [out |-> here.out, open |-> here.open]
    BY <1>2 DEF Reading
  <1> QED BY <1>3, <1>7, <1>8, <1>9 DEF here

\* In an opened or closed tag: what is read as text begins again after it.
LEMMA MarkedTag ==
    ASSUME NEW str \in Seq(Symbols), NEW u \in Seq(Char), NEW G, NEW H, NEW toks \in Seq(Seq(Symbols)),
           NEW seg \in Seq(Symbols), NEW name \in Seq(Symbols), NEW longer,
           Within(str, toks, seg, u, G),
           CutUp(longer) = Append(Append(Append(toks, seg), name), <<>>),
           ReadToken([out |-> u, open |-> ReadAll(toks).open], Len(toks) + 2, name).out = u,
           Opens(ReadToken([out |-> u, open |-> ReadAll(toks).open], Len(toks) + 2, name).open, H)
    PROVE  Marked(longer, u, H)
  <1> DEFINE here == Append(toks, seg)
             there == Append(here, name)
             n == Len(toks)
  <1>1. here \in Seq(Seq(Symbols)) /\ Len(here) = n + 1 /\ n \in Nat /\ n % 2 = 0
    BY LenProperties, AppendProperties DEF Within
  <1>2. there \in Seq(Seq(Symbols)) /\ Len(there) = n + 2
    <2> HIDE DEF here
    <2>1. there \in Seq(Seq(Symbols)) /\ Len(there) = Len(here) + 1
      BY <1>1, AppendProperties
    <2> QED BY <1>1, <2>1
  <1>3. ReadAll(there) = ReadToken([out |-> u, open |-> ReadAll(toks).open], n + 2, name)
    <2>1. ReadAll(here) = [out |-> u, open |-> ReadAll(toks).open]
      BY ReadTextToken
    <2> HIDE DEF here
    <2>2. ReadAll(there) = ReadToken(ReadAll(here), Len(here) + 1, name)
      BY <1>1, ReadAllGrows
    <2>3. Len(here) + 1 = n + 2
      BY <1>1
    <2> QED BY <2>1, <2>2, <2>3
  <1>4. (n + 2) % 2 = 0
    BY <1>1, Parity
  <1>5. <<>> \in Seq(Symbols) /\ Halfway(<<>>) = [esc |-> FALSE, out |-> <<>>]
    BY HalfwayGrows, EmptySeq DEF HalfStart
  <1>6. Plain(<<>>, H) = <<>>
    BY DEF Plain
  <1> HIDE DEF here, there, n
  <1>7. ReadAll(there).out \o Plain(Halfway(<<>>).out, H) = u
    <2>1. ReadAll(there).out = u
      BY <1>3 DEF n
    <2>2. u \o <<>> = u
      BY ConcatEmptySeq
    <2>3. Plain(Halfway(<<>>).out, H) = <<>>
      BY <1>5, <1>6
    <2> QED BY <2>1, <2>2, <2>3
  <1>8. Within(longer, there, <<>>, u, H)
    <2>1. CutUp(longer) = Append(there, <<>>)
      BY DEF here, there
    <2>2. Len(there) % 2 = 0
      BY <1>2, <1>4
    <2>3. ~Halfway(<<>>).esc
      BY <1>5
    <2>4. Opens(ReadAll(there).open, H)
      BY <1>3 DEF n
    <2> QED BY <1>7, <2>1, <2>2, <2>3, <2>4 DEF Within
  <1> QED BY <1>2, <1>5, <1>8 DEF Marked

LEMMA MarkedOpen ==
    ASSUME NEW str \in Seq(Symbols), NEW u \in Seq(Char), NEW G, Marked(str, u, G),
           NEW g \in Tags, g \notin G
    PROVE  Marked(str \o <<TAG, g, TAG>>, u, G \cup {g})
  <1>1. PICK toks \in Seq(Seq(Symbols)), seg \in Seq(Symbols) : Within(str, toks, seg, u, G)
    BY DEF Marked
  <1>2. g \in Symbols /\ g # TAG /\ g # Slash /\ <<g>> \in Seq(Symbols) /\ TAG \in Symbols
    BY TagsAreSymbols, SymbolsKnown
  <1> DEFINE one == Append(str, TAG)
             two == Append(one, g)
             here == Append(toks, seg)
  <1>3. IsCut(str, toks, seg)
    BY <1>1 DEF Within, IsCut
  <1>4. IsCut(one, here, <<>>)
    BY <1>3, CutsHere, Zenon
  <1>5. IsCut(two, here, Append(<<>>, g))
    BY <1>2, <1>4, CutsOn, Zenon
  <1>6. Append(<<>>, g) = <<g>>
    OBVIOUS
  <1>7. IsCut(two, here, <<g>>)
    BY <1>5, <1>6, Zenon
  <1>8. IsCut(Append(two, TAG), Append(here, <<g>>), <<>>)
    BY <1>7, CutsHere, Zenon
  <1>9. str \o <<TAG, g, TAG>> = Append(two, TAG)
    BY <1>2, AppendThree DEF two, one
  <1>10. Len(toks) \in Nat /\ Len(toks) % 2 = 0
    BY <1>1, LenProperties DEF Within
  <1> DEFINE acc == [out |-> u, open |-> ReadAll(toks).open]
  <1>11. ReadToken(acc, Len(toks) + 2, <<g>>) = [acc EXCEPT !.open = <<<<g>>>> \o @]
    <2>1. (Len(toks) + 2) % 2 # 1
      BY <1>10, Parity
    <2>2. Head(<<g>>) # Slash
      BY <1>2
    <2> HIDE DEF acc
    <2> QED BY <2>1, <2>2 DEF ReadToken
  <1>12. Opens(<<<<g>>>> \o ReadAll(toks).open, G \cup {g})
    BY <1>1, OpensMore DEF Within
  <1>13. /\ ReadToken(acc, Len(toks) + 2, <<g>>).out = u
         /\ ReadToken(acc, Len(toks) + 2, <<g>>).open = <<<<g>>>> \o ReadAll(toks).open
    BY <1>11
  <1>14. Opens(ReadToken(acc, Len(toks) + 2, <<g>>).open, G \cup {g})
    BY <1>12, <1>13
  <1>15. CutUp(Append(two, TAG)) = Append(Append(Append(toks, seg), <<g>>), <<>>)
    BY <1>8, Zenon DEF IsCut
  <1> HIDE DEF one, two
  <1> QED BY <1>1, <1>2, <1>9, <1>13, <1>14, <1>15, MarkedTag

LEMMA MarkedClose ==
    ASSUME NEW str \in Seq(Symbols), NEW u \in Seq(Char), NEW G, Marked(str, u, G), NEW g \in G
    PROVE  Marked(str \o <<TAG, Slash, g, TAG>>, u, G \ {g})
  <1>1. PICK toks \in Seq(Seq(Symbols)), seg \in Seq(Symbols) : Within(str, toks, seg, u, G)
    BY DEF Marked
  <1>2. g \in Tags
    BY <1>1 DEF Within, Opens
  <1>3. g \in Symbols /\ g # TAG /\ TAG \in Symbols /\ Slash \in Symbols /\ Slash # TAG
    BY <1>2, TagsAreSymbols, SymbolsKnown DEF TAG, Slash
  <1> DEFINE one == Append(str, TAG)
             two == Append(one, Slash)
             three == Append(two, g)
             here == Append(toks, seg)
  <1>4. IsCut(str, toks, seg)
    BY <1>1 DEF Within, IsCut
  <1>5. IsCut(one, here, <<>>)
    BY <1>4, CutsHere, Zenon
  <1>6. IsCut(two, here, Append(<<>>, Slash))
    BY <1>3, <1>5, CutsOn, Zenon
  <1>7. Append(<<>>, Slash) = <<Slash>>
    OBVIOUS
  <1>8. IsCut(three, here, Append(<<Slash>>, g))
    BY <1>3, <1>6, <1>7, CutsOn, Zenon
  <1>9. Append(<<Slash>>, g) = <<Slash, g>> /\ <<Slash, g>> \in Seq(Symbols)
    BY <1>3, PairIs
  <1>10. IsCut(Append(three, TAG), Append(here, <<Slash, g>>), <<>>)
    BY <1>8, <1>9, CutsHere, Zenon
  <1>11. str \o <<TAG, Slash, g, TAG>> = Append(three, TAG)
    BY <1>3, AppendFour DEF three, two, one
  <1>12. Len(toks) \in Nat /\ Len(toks) % 2 = 0
    BY <1>1, LenProperties DEF Within
  <1> DEFINE acc == [out |-> u, open |-> ReadAll(toks).open]
  <1>13. ReadToken(acc, Len(toks) + 2, <<Slash, g>>) = [acc EXCEPT !.open = RemoveFirst(@, <<g>>)]
    <2>1. (Len(toks) + 2) % 2 # 1
      BY <1>12, Parity
    <2>2. <<Slash, g>> # <<>> /\ Head(<<Slash, g>>) = Slash /\ Tail(<<Slash, g>>) = <<g>>
      OBVIOUS
    <2> HIDE DEF acc
    <2> QED BY <2>1, <2>2 DEF ReadToken
  <1>14. Opens(RemoveFirst(ReadAll(toks).open, <<g>>), G \ {g})
    BY <1>1, OpensLess DEF Within
  <1>15. /\ ReadToken(acc, Len(toks) + 2, <<Slash, g>>).out = u
         /\ ReadToken(acc, Len(toks) + 2, <<Slash, g>>).open = RemoveFirst(ReadAll(toks).open, <<g>>)
    BY <1>13
  <1>16. Opens(ReadToken(acc, Len(toks) + 2, <<Slash, g>>).open, G \ {g})
    BY <1>14, <1>15
  <1>17. CutUp(Append(three, TAG)) = Append(Append(Append(toks, seg), <<Slash, g>>), <<>>)
    BY <1>10, Zenon DEF IsCut
  <1> HIDE DEF one, two, three
  <1> QED BY <1>1, <1>9, <1>11, <1>15, <1>16, <1>17, MarkedTag

LEMMA PlainGrows ==
    ASSUME NEW syms \in Seq(Symbols), NEW G \in SUBSET Tags, NEW s \in Symbols
    PROVE  Plain(Append(syms, s), G) = Append(Plain(syms, G), [sym |-> s, tags |-> G])
  <1> DEFINE n == Len(syms)
             more == Append(syms, s)
             c == [sym |-> s, tags |-> G]
             w == Plain(more, G)
             p == Plain(syms, G)
             v == Append(p, c)
  <1>1. n \in Nat /\ c \in Char
    BY LenProperties DEF Char
  <1>2. more \in Seq(Symbols) /\ Len(more) = n + 1 /\ more[n + 1] = s /\ \A i \in 1..n : more[i] = syms[i]
    BY AppendProperties
  <1>3. p \in Seq(Char) /\ Len(p) = n /\ \A i \in 1..n : p[i] = [sym |-> syms[i], tags |-> G]
    BY PlainType
  <1> HIDE DEF more, n
  <1>4. w \in Seq(Char) /\ Len(w) = n + 1 /\ \A i \in 1..(n + 1) : w[i] = [sym |-> more[i], tags |-> G]
    BY <1>2, PlainType
  <1> HIDE DEF p, w, c
  <1>5. v \in Seq(Char) /\ Len(v) = n + 1 /\ v[n + 1] = c /\ \A i \in 1..n : v[i] = p[i]
    BY <1>1, <1>3, AppendProperties
  <1> HIDE DEF v
  <1>6. \A i \in 1..(n + 1) : w[i] = v[i]
    <2> SUFFICES ASSUME NEW i \in 1..(n + 1) PROVE w[i] = v[i]
      OBVIOUS
    <2>1. i = n + 1 \/ i \in 1..n
      BY <1>1
    <2>2. w[i] = [sym |-> more[i], tags |-> G]
      BY <1>4
    <2>3. CASE i = n + 1
      BY <1>2, <1>5, <2>2, <2>3 DEF c
    <2>4. CASE i \in 1..n
      BY <1>2, <1>3, <1>5, <2>2, <2>4
    <2> QED BY <2>1, <2>3, <2>4
  <1>7. w = v
    BY <1>4, <1>5, <1>6, SeqEqual
  <1> QED BY <1>7 DEF w, v, p, c, more

LEMMA ConcatAppend ==
    ASSUME NEW S, NEW a \in Seq(S), NEW b \in Seq(S), NEW x \in S
    PROVE  a \o Append(b, x) = Append(a \o b, x)
  <1>1. <<x>> \in Seq(S) /\ a \o b \in Seq(S)
    BY ConcatProperties
  <1>2. Append(b, x) = b \o <<x>> /\ Append(a \o b, x) = (a \o b) \o <<x>>
    BY <1>1, AppendIsConcat
  <1> QED BY <1>1, <1>2, ConcatAssociative

LEMMA GluedThree ==
    ASSUME NEW a \in Seq(Symbols), NEW b \in Seq(Symbols), NEW c \in Seq(Symbols)
    PROVE  (a \o b) \o c = a \o (b \o c)
  BY ConcatAssociative, SMTT(60)

\* A symbol as it is written is read as itself.
LEMMA EscapeReads ==
    ASSUME NEW str \in Seq(Symbols), NEW toks \in Seq(Seq(Symbols)), NEW seg \in Seq(Symbols),
           CutUp(str) = Append(toks, seg), ~Halfway(seg).esc, NEW s \in Symbols
    PROVE  \E new \in Seq(Symbols) :
             /\ CutUp(str \o Escape(s)) = Append(toks, new)
             /\ ~Halfway(new).esc /\ Halfway(new).out = Append(Halfway(seg).out, s)
  <1> DEFINE o == Halfway(seg).out
             h == [esc |-> FALSE, out |-> o]
  <1>1. Halfway(seg) = h /\ o \in Seq(Symbols)
    BY HalfwayGrows DEF Half
  <1>2. /\ TAG \in Symbols /\ ESC \in Symbols /\ PH \in Symbols
        /\ ESC # TAG /\ PH # TAG /\ PH # ESC
    BY SymbolsKnown DEF TAG, ESC, PH
  <1> HIDE DEF o
  <1>3. CASE s # TAG /\ s # ESC
    <2>1. Escape(s) = <<s>> /\ str \o <<s>> = Append(str, s)
      BY <1>3, AppendIsConcat DEF Escape
    <2>2. CutUp(Append(str, s)) = Append(toks, Append(seg, s)) /\ Append(seg, s) \in Seq(Symbols)
      BY <1>3, CutText
    <2>3. Halfway(Append(seg, s)) = Unescaped(h, s)
      BY <1>1, HalfwayGrows
    <2>4. Unescaped(h, s) = [esc |-> FALSE, out |-> Append(o, s)]
      BY <1>1, <1>3 DEF Unescaped
    <2>5. ~Halfway(Append(seg, s)).esc /\ Halfway(Append(seg, s)).out = Append(o, s)
      <3>1. Halfway(Append(seg, s)) = [esc |-> FALSE, out |-> Append(o, s)]
        BY <2>3, <2>4, Zenon
      <3> QED BY <3>1
    <2> QED BY <2>1, <2>2, <2>5 DEF o
  <1>4. CASE s = TAG \/ s = ESC
    <2> DEFINE x == IF s = TAG THEN PH ELSE ESC
               one == Append(str, ESC)
               part == Append(seg, ESC)
               new == Append(part, x)
    <2>1. x \in Symbols /\ x # TAG /\ Escape(s) = <<ESC, x>>
      BY <1>2, <1>4 DEF Escape
    <2> HIDE DEF x
    <2>2. IsCut(one, toks, part)
      <3>1. IsCut(str, toks, seg)
        BY DEF IsCut
      <3> QED BY <1>2, <3>1, CutsOn, Zenon
    <2>2a. part \in Seq(Symbols)
      BY <2>2 DEF IsCut
    <2>2b. one \in Seq(Symbols)
      BY <2>2 DEF IsCut
    <2>3. Halfway(part) = [esc |-> TRUE, out |-> o]
      <3>1. Halfway(part) = Unescaped(h, ESC)
        BY <1>1, <1>2, HalfwayGrows
      <3> QED BY <1>1, <3>1 DEF Unescaped
    <2>4. str \o <<ESC, x>> = Append(one, x)
      BY <1>2, <2>1, AppendTwo
    <2> HIDE DEF one, part
    <2>5. CutUp(Append(one, x)) = Append(toks, new) /\ new \in Seq(Symbols)
      <3>1. IsCut(Append(one, x), toks, new)
        BY <2>1, <2>2, CutsOn, Zenon
      <3> QED BY <3>1 DEF IsCut
    <2>6. Halfway(new) = Unescaped(Halfway(part), x)
      BY <2>1, <2>2a, HalfwayGrows
    <2>7. Unescaped([esc |-> TRUE, out |-> o], x) = [esc |-> FALSE, out |-> o \o <<s>>]
      BY <1>2, <1>4 DEF Unescaped, x
    <2>8. o \o <<s>> = Append(o, s)
      BY <1>1, AppendIsConcat
    <2>9. Halfway(new) = [esc |-> FALSE, out |-> Append(o, s)]
      BY <2>3, <2>6, <2>7, <2>8
    <2>10. ~Halfway(new).esc /\ Halfway(new).out = Append(o, s)
      BY <2>9
    <2> HIDE DEF new
    <2> QED BY <2>1, <2>4, <2>5, <2>10 DEF o
  <1> QED BY <1>3, <1>4

LEMMA MarkedChar ==
    ASSUME NEW str \in Seq(Symbols), NEW u \in Seq(Char), NEW G, Marked(str, u, G), NEW s \in Symbols
    PROVE  Marked(str \o Escape(s), Append(u, [sym |-> s, tags |-> G]), G)
  <1>1. PICK toks \in Seq(Seq(Symbols)), seg \in Seq(Symbols) : Within(str, toks, seg, u, G)
    BY DEF Marked
  <1>2. PICK new \in Seq(Symbols) :
          /\ CutUp(str \o Escape(s)) = Append(toks, new)
          /\ ~Halfway(new).esc /\ Halfway(new).out = Append(Halfway(seg).out, s)
    BY <1>1, EscapeReads DEF Within
  <1>3. G \in SUBSET Tags /\ Halfway(seg).out \in Seq(Symbols) /\ ReadAll(toks).out \in Seq(Char)
    BY <1>1, HalfwayGrows, ReadAllGrows DEF Within, Opens, Half, Reading
  <1> DEFINE c == [sym |-> s, tags |-> G]
             p == Plain(Halfway(seg).out, G)
             r == ReadAll(toks).out
  <1>4. c \in Char /\ p \in Seq(Char) /\ r \in Seq(Char)
    BY <1>3, PlainType DEF Char
  <1>5. Plain(Halfway(new).out, G) = Append(p, c)
    BY <1>2, <1>3, PlainGrows
  <1>6. r \o Plain(Halfway(new).out, G) = Append(u, c)
    <2> HIDE DEF c, p, r
    <2>1. r \o Append(p, c) = Append(r \o p, c)
      BY <1>4, ConcatAppend
    <2>2. r \o p = u
      BY <1>1 DEF Within, p, r
    <2> QED BY <1>5, <2>1, <2>2
  <1>7. Within(str \o Escape(s), toks, new, Append(u, c), G)
    BY <1>1, <1>2, <1>6 DEF Within
  <1> QED BY <1>7 DEF Marked, c

LEMMA MarkedStart == Marked(<<>>, <<>>, {})
  <1>1. <<>> \in Seq(Symbols) /\ <<>> \in Seq(Seq(Symbols))
    OBVIOUS
  <1>2. CutUp(<<>>) = Append(<<>>, <<>>)
    <2>1. Append(<<>>, <<>>) = <<<<>>>>
      OBVIOUS
    <2> QED BY <2>1, CutUpGrows DEF Uncut
  <1>3. Len(<<>>) % 2 = 0
    <2>1. Len(<<>>) = 0
      OBVIOUS
    <2> QED BY <2>1
  <1>4. Halfway(<<>>) = [esc |-> FALSE, out |-> <<>>] /\ ReadAll(<<>>) = [out |-> <<>>, open |-> <<>>]
    BY HalfwayGrows, ReadAllGrows DEF HalfStart, ReadStart
  <1>5. <<>> \o Plain(<<>>, {}) = <<>>
    BY DEF Plain
  <1>6. Opens(<<>>, {})
    <2>1. Len(<<>>) = 0 /\ {} \in SUBSET Tags
      OBVIOUS
    <2> QED BY <1>1, <2>1 DEF Opens
  <1>7. ReadAll(<<>>).out \o Plain(Halfway(<<>>).out, {}) = <<>>
    BY <1>4, <1>5
  <1>8. ~Halfway(<<>>).esc /\ Opens(ReadAll(<<>>).open, {})
    BY <1>4, <1>6
  <1>9. Within(<<>>, <<>>, <<>>, <<>>, {})
    BY <1>2, <1>3, <1>7, <1>8 DEF Within
  <1> QED BY <1>1, <1>9 DEF Marked

LEMMA MarkedEnd ==
    ASSUME NEW str, NEW u, NEW G, Marked(str, u, G)
    PROVE  Decode(str) = u
  <1>1. PICK toks \in Seq(Seq(Symbols)), seg \in Seq(Symbols) : Within(str, toks, seg, u, G)
    BY DEF Marked
  <1>2. ReadAll(Append(toks, seg)).out = u
    BY <1>1, ReadTextToken
  <1> QED BY <1>1, <1>2, DecodeIs DEF Within

LEMMA MarkedOpens ==
    ASSUME NEW str \in Seq(Symbols), NEW u \in Seq(Char), NEW G, Marked(str, u, G),
           NEW S \in SUBSET Tags, NEW q, Lists(q, S), S \cap G = {}
    PROVE  LET added == FlattenSeq([k \in DOMAIN q |-> <<TAG, q[k], TAG>>])
           IN  added \in Seq(Symbols) /\ Marked(str \o added, u, G \cup S)
  <1> DEFINE n == Len(q)
             seqs == [k \in DOMAIN q |-> <<TAG, q[k], TAG>>]
             some == [i \in 0..n |-> {q[k] : k \in 1..i}]
  <1>1. q \in Seq(S) /\ n \in Nat /\ DOMAIN q = 1..n
    BY LenProperties DEF Lists
  <1>2. \A k \in 1..n : q[k] \in S
    BY <1>1, ElementOfSeq
  <1> HIDE DEF n
  <1>3. ASSUME NEW k \in 1..n PROVE <<TAG, q[k], TAG>> \in Seq(Symbols)
    <2>1. q[k] \in Symbols /\ TAG \in Symbols /\ Slash \in Symbols
      BY <1>2, TagsAreSymbols, SymbolsKnown
    <2> QED BY <2>1
  <1>4. seqs \in Seq(Seq(Symbols)) /\ Len(seqs) = n /\ \A k \in 1..n : seqs[k] = <<TAG, q[k], TAG>>
    BY <1>1, <1>3
  <1> HIDE DEF seqs
  <1>5. PICK f \in [0..n -> Seq(Symbols)] :
          /\ f[0] = <<>> /\ \A i \in 1..n : f[i] = f[i - 1] \o seqs[i]
          /\ FlattenSeq(seqs) = f[n]
    BY <1>4, FlattenRounds, Zenon
  <1>6. some[0] = {} /\ some[n] = S
    <2>1. some[n] = {q[k] : k \in 1..n} /\ some[0] = {q[k] : k \in 1..0}
      BY <1>1
    <2>2. \A x \in S : \E k \in 1..n : q[k] = x
      BY DEF Lists, n
    <2>3. {q[k] : k \in 1..n} = S
      BY <1>2, <2>2
    <2>4. 1..0 = {}
      OBVIOUS
    <2> QED BY <2>1, <2>3, <2>4
  <1>7. ASSUME NEW i \in 1..n
        PROVE  some[i] = some[i - 1] \cup {q[i]} /\ q[i] \notin some[i - 1] /\ some[i - 1] \subseteq S
    <2>1. some[i] = {q[k] : k \in 1..i} /\ some[i - 1] = {q[k] : k \in 1..(i - 1)}
      BY <1>1
    <2>2. ASSUME NEW k \in 1..(i - 1) PROVE q[k] # q[i] /\ q[k] \in S
      <3>1. k \in 1..n /\ k # i
        BY <1>1
      <3> QED BY <1>2, <3>1 DEF Lists, n
    <2>3. 1..i = 1..(i - 1) \cup {i}
      BY <1>1
    <2> QED BY <2>1, <2>2, <2>3
  <1> HIDE DEF some
  <1> DEFINE A == {i \in 0..n : Marked(str \o f[i], u, G \cup some[i])}
  <1>8. 0 \in A
    <2>1. str \o f[0] = str
      BY <1>5, ConcatEmptySeq
    <2>2. G \cup some[0] = G
      BY <1>6
    <2>3. 0 \in 0..n
      BY <1>1
    <2> QED BY <2>1, <2>2, <2>3
  <1>9. ASSUME NEW i \in 1..n, i - 1 \in A PROVE i \in A
    <2> DEFINE before == str \o f[i - 1]
               H == G \cup some[i - 1]
    <2>1. f[i - 1] \in Seq(Symbols) /\ i \in 0..n
      BY <1>1
    <2>2. before \in Seq(Symbols) /\ Marked(before, u, H)
      BY <1>9, <2>1, ConcatProperties
    <2>3. seqs[i] \in Seq(Symbols) /\ seqs[i] = <<TAG, q[i], TAG>>
      BY <1>3, <1>4
    <2>4. str \o f[i] = before \o seqs[i]
      <3>1. f[i] = f[i - 1] \o seqs[i]
        BY <1>5
      <3> DEFINE x == f[i - 1]
                 y == seqs[i]
      <3>2. x \in Seq(Symbols) /\ y \in Seq(Symbols)
        BY <2>1, <2>3
      <3> HIDE DEF x, y
      <3>3. (str \o x) \o y = str \o (x \o y)
        BY <3>2, GluedThree, SMTT(60)
      <3> QED BY <3>1, <3>3 DEF x, y
    <2>5. q[i] \in Tags /\ q[i] \notin H
      BY <1>2, <1>7
    <2>6. G \cup some[i] = H \cup {q[i]}
      BY <1>7
    <2> HIDE DEF before, H
    <2>7. Marked(before \o <<TAG, q[i], TAG>>, u, H \cup {q[i]})
      BY <2>2, <2>5, MarkedOpen
    <2>8. Marked(str \o f[i], u, G \cup some[i])
      BY <2>3, <2>4, <2>6, <2>7
    <2> QED BY <2>1, <2>8
  <1>10. n \in A
    <2> HIDE DEF A
    <2>1. 0..n \subseteq A
      BY <1>1, <1>8, <1>9, UpTo
    <2> QED BY <1>1, <2>1
  <1>11. f[n] \in Seq(Symbols)
    BY <1>1
  <1>12. FlattenSeq(seqs) \in Seq(Symbols) /\ Marked(str \o FlattenSeq(seqs), u, G \cup S)
    BY <1>5, <1>6, <1>10, <1>11
  <1> QED BY <1>12, Zenon DEF seqs

LEMMA MarkedCloses ==
    ASSUME NEW str \in Seq(Symbols), NEW u \in Seq(Char), NEW G, Marked(str, u, G),
           NEW S \in SUBSET Tags, NEW q, Lists(q, S), S \subseteq G
    PROVE  LET added == FlattenSeq([k \in DOMAIN q |-> <<TAG, Slash, q[k], TAG>>])
           IN  added \in Seq(Symbols) /\ Marked(str \o added, u, G \ S)
  <1> DEFINE n == Len(q)
             seqs == [k \in DOMAIN q |-> <<TAG, Slash, q[k], TAG>>]
             some == [i \in 0..n |-> {q[k] : k \in 1..i}]
  <1>1. q \in Seq(S) /\ n \in Nat /\ DOMAIN q = 1..n
    BY LenProperties DEF Lists
  <1>2. \A k \in 1..n : q[k] \in S
    BY <1>1, ElementOfSeq
  <1> HIDE DEF n
  <1>3. ASSUME NEW k \in 1..n PROVE <<TAG, Slash, q[k], TAG>> \in Seq(Symbols)
    <2>1. q[k] \in Symbols /\ TAG \in Symbols /\ Slash \in Symbols
      BY <1>2, TagsAreSymbols, SymbolsKnown
    <2> QED BY <2>1
  <1>4. seqs \in Seq(Seq(Symbols)) /\ Len(seqs) = n /\ \A k \in 1..n : seqs[k] = <<TAG, Slash, q[k], TAG>>
    BY <1>1, <1>3
  <1> HIDE DEF seqs
  <1>5. PICK f \in [0..n -> Seq(Symbols)] :
          /\ f[0] = <<>> /\ \A i \in 1..n : f[i] = f[i - 1] \o seqs[i]
          /\ FlattenSeq(seqs) = f[n]
    BY <1>4, FlattenRounds, Zenon
  <1>6. some[0] = {} /\ some[n] = S
    <2>1. some[n] = {q[k] : k \in 1..n} /\ some[0] = {q[k] : k \in 1..0}
      BY <1>1
    <2>2. \A x \in S : \E k \in 1..n : q[k] = x
      BY DEF Lists, n
    <2>3. {q[k] : k \in 1..n} = S
      BY <1>2, <2>2
    <2>4. 1..0 = {}
      OBVIOUS
    <2> QED BY <2>1, <2>3, <2>4
  <1>7. ASSUME NEW i \in 1..n
        PROVE  some[i] = some[i - 1] \cup {q[i]} /\ q[i] \notin some[i - 1] /\ some[i - 1] \subseteq S
    <2>1. some[i] = {q[k] : k \in 1..i} /\ some[i - 1] = {q[k] : k \in 1..(i - 1)}
      BY <1>1
    <2>2. ASSUME NEW k \in 1..(i - 1) PROVE q[k] # q[i] /\ q[k] \in S
      <3>1. k \in 1..n /\ k # i
        BY <1>1
      <3> QED BY <1>2, <3>1 DEF Lists, n
    <2>3. 1..i = 1..(i - 1) \cup {i}
      BY <1>1
    <2> QED BY <2>1, <2>2, <2>3
  <1> HIDE DEF some
  <1> DEFINE A == {i \in 0..n : Marked(str \o f[i], u, G \ some[i])}
  <1>8. 0 \in A
    <2>1. str \o f[0] = str
      BY <1>5, ConcatEmptySeq
    <2>2. G \ some[0] = G
      BY <1>6
    <2>3. 0 \in 0..n
      BY <1>1
    <2> QED BY <2>1, <2>2, <2>3
  <1>9. ASSUME NEW i \in 1..n, i - 1 \in A PROVE i \in A
    <2> DEFINE before == str \o f[i - 1]
               H == G \ some[i - 1]
    <2>1. f[i - 1] \in Seq(Symbols) /\ i \in 0..n
      BY <1>1
    <2>2. before \in Seq(Symbols) /\ Marked(before, u, H)
      BY <1>9, <2>1, ConcatProperties
    <2>3. seqs[i] \in Seq(Symbols) /\ seqs[i] = <<TAG, Slash, q[i], TAG>>
      BY <1>3, <1>4
    <2>4. str \o f[i] = before \o seqs[i]
      <3>1. f[i] = f[i - 1] \o seqs[i]
        BY <1>5
      <3> DEFINE x == f[i - 1]
                 y == seqs[i]
      <3>2. x \in Seq(Symbols) /\ y \in Seq(Symbols)
        BY <2>1, <2>3
      <3> HIDE DEF x, y
      <3>3. (str \o x) \o y = str \o (x \o y)
        BY <3>2, GluedThree, SMTT(60)
      <3> QED BY <3>1, <3>3 DEF x, y
    <2>5. q[i] \in H
      BY <1>2, <1>7
    <2>6. G \ some[i] = H \ {q[i]}
      BY <1>7
    <2> HIDE DEF before, H
    <2>7. Marked(before \o <<TAG, Slash, q[i], TAG>>, u, H \ {q[i]})
      BY <2>2, <2>5, MarkedClose
    <2>8. Marked(str \o f[i], u, G \ some[i])
      BY <2>3, <2>4, <2>6, <2>7
    <2> QED BY <2>1, <2>8
  <1>10. n \in A
    <2> HIDE DEF A
    <2>1. 0..n \subseteq A
      BY <1>1, <1>8, <1>9, UpTo
    <2> QED BY <1>1, <2>1
  <1>11. f[n] \in Seq(Symbols)
    BY <1>1
  <1>12. FlattenSeq(seqs) \in Seq(Symbols) /\ Marked(str \o FlattenSeq(seqs), u, G \ S)
    BY <1>5, <1>6, <1>10, <1>11
  <1> QED BY <1>12, Zenon DEF seqs

\* What Encode writes from the i-th position on to the next.
PartOf(t, i) ==
    LET Opened == SetToSeq(TagsAt(t, i) \ TagsAt(t, i - 1))
        Closed == SetToSeq(TagsAt(t, i - 1) \ TagsAt(t, i))
    IN  FlattenSeq([k \in DOMAIN Opened |-> <<TAG, Opened[k], TAG>>])
        \o FlattenSeq([k \in DOMAIN Closed |-> <<TAG, Slash, Closed[k], TAG>>])
        \o (IF i \in DOMAIN t THEN Escape(t[i].sym) ELSE <<>>)

LEMMA EncodeIs == ASSUME NEW t PROVE Encode(t) = FlattenSeq([i \in 1..(Len(t) + 1) |-> PartOf(t, i)])
  BY DEF Encode, PartOf

LEMMA TagsAtType == ASSUME NEW t \in Seq(Char), NEW i PROVE TagsAt(t, i) \in SUBSET Tags
  <1>1. DOMAIN t = 1..Len(t)
    BY LenProperties
  <1>2. CASE i \in DOMAIN t
    <2>1. t[i] \in Char
      BY <1>1, <1>2, ElementOfSeq
    <2> QED BY <1>2, <2>1 DEF TagsAt, Char
  <1>3. CASE i \notin DOMAIN t
    BY <1>3 DEF TagsAt
  <1> QED BY <1>2, <1>3

LEMMA EscapeType == ASSUME NEW s \in Symbols PROVE Escape(s) \in Seq(Symbols)
  <1>1. <<ESC, PH>> \in Seq(Symbols) /\ <<ESC, ESC>> \in Seq(Symbols) /\ <<s>> \in Seq(Symbols)
    BY SymbolsKnown
  <1> QED BY <1>1 DEF Escape

\* The part of one position: the tags become those of the position, and its character is read.
LEMMA MarkedPart ==
    ASSUME NEW t \in Seq(Char), NEW i \in 1..(Len(t) + 1), NEW str \in Seq(Symbols), NEW u \in Seq(Char),
           Marked(str, u, TagsAt(t, i - 1))
    PROVE  /\ PartOf(t, i) \in Seq(Symbols)
           /\ Marked(str \o PartOf(t, i), IF i \in 1..Len(t) THEN Append(u, t[i]) ELSE u, TagsAt(t, i))
  <1> DEFINE G == TagsAt(t, i - 1)
             H == TagsAt(t, i)
             opened == SetToSeq(H \ G)
             closed == SetToSeq(G \ H)
             open == FlattenSeq([k \in DOMAIN opened |-> <<TAG, opened[k], TAG>>])
             close == FlattenSeq([k \in DOMAIN closed |-> <<TAG, Slash, closed[k], TAG>>])
             char == IF i \in DOMAIN t THEN Escape(t[i].sym) ELSE <<>>
  <1>1. G \in SUBSET Tags /\ H \in SUBSET Tags
    BY TagsAtType
  <1>2. DOMAIN t = 1..Len(t) /\ Len(t) \in Nat
    BY LenProperties
  <1>3. PartOf(t, i) = open \o close \o char
    BY DEF PartOf
  <1>4. Lists(opened, H \ G) /\ Lists(closed, G \ H)
    <2>1. IsFiniteSet(Tags)
      BY TextAssumption
    <2>2. IsFiniteSet(H \ G) /\ IsFiniteSet(G \ H)
      <3>1. (H \ G) \subseteq Tags /\ (G \ H) \subseteq Tags
        BY <1>1
      <3> HIDE DEF G, H
      <3> QED BY <2>1, <3>1, FS_Subset
    <2> HIDE DEF G, H
    <2> QED BY <2>2, SetToSeqLists
  <1> HIDE DEF G, H, opened, closed
  <1>5. open \in Seq(Symbols) /\ Marked(str \o open, u, G \cup (H \ G))
    <2>1. Marked(str, u, G)
      BY DEF G
    <2>2. (H \ G) \in SUBSET Tags /\ (H \ G) \cap G = {}
      BY <1>1
    <2> QED BY <1>4, <2>1, <2>2, MarkedOpens, Zenon
  <1> HIDE DEF open
  <1>6. str \o open \in Seq(Symbols)
    BY <1>5, ConcatProperties
  <1>7. close \in Seq(Symbols) /\ Marked((str \o open) \o close, u, (G \cup (H \ G)) \ (G \ H))
    <2>1. (G \ H) \in SUBSET Tags /\ (G \ H) \subseteq (G \cup (H \ G))
      BY <1>1
    <2> QED BY <1>4, <1>5, <1>6, <2>1, MarkedCloses, Zenon
  <1> HIDE DEF close
  <1>8. (G \cup (H \ G)) \ (G \ H) = H
    OBVIOUS
  <1> DEFINE before == (str \o open) \o close
  <1>9. before \in Seq(Symbols) /\ Marked(before, u, H) /\ open \o close \in Seq(Symbols)
    BY <1>5, <1>6, <1>7, <1>8, ConcatProperties
  <1>9a. before = str \o (open \o close)
    <2>1. open \in Seq(Symbols)
      BY <1>5
    <2>2. close \in Seq(Symbols)
      BY <1>7
    <2> QED BY <2>1, <2>2, GluedThree, SMTT(60)
  <1>10. CASE i \in 1..Len(t)
    <2>1. t[i] \in Char /\ H = t[i].tags
      BY <1>2, <1>10, ElementOfSeq DEF H, TagsAt
    <2>2. t[i].sym \in Symbols /\ t[i] = [sym |-> t[i].sym, tags |-> H]
      BY <2>1 DEF Char
    <2> DEFINE esc == Escape(t[i].sym)
    <2>3. esc \in Seq(Symbols) /\ char = esc
      BY <1>2, <1>10, <2>2, EscapeType
    <2>4. Marked(before \o esc, Append(u, [sym |-> t[i].sym, tags |-> H]), H)
      <3> HIDE DEF before
      <3> QED BY <1>9, <2>2, MarkedChar
    <2>5. Marked(before \o esc, Append(u, t[i]), H)
      BY <2>2, <2>4
    <2> HIDE DEF esc, char
    <2>6. (open \o close) \o char \in Seq(Symbols)
      BY <1>9, <2>3, ConcatProperties
    <2>7. str \o ((open \o close) \o char) = before \o char
      <3> DEFINE x == open \o close
      <3> HIDE DEF before
      <3>1. before = str \o x
        BY <1>9a
      <3>2. x \in Seq(Symbols)
        BY <1>9
      <3>3. char \in Seq(Symbols)
        BY <2>3
      <3> HIDE DEF x
      <3>4. (str \o x) \o char = str \o (x \o char)
        BY <3>2, <3>3, GluedThree, SMTT(60)
      <3>5. before \o char = str \o (x \o char)
        BY <3>1, <3>4
      <3> QED BY <3>5 DEF x
    <2> HIDE DEF before
    <2> QED BY <1>3, <1>10, <2>3, <2>5, <2>6, <2>7 DEF H
  <1>11. CASE i \notin 1..Len(t)
    <2>1. char = <<>>
      BY <1>2, <1>11
    <2>2. PartOf(t, i) = open \o close
      BY <1>3, <1>9, <2>1, ConcatEmptySeq
    <2>3. before = str \o (open \o close)
      BY <1>9a
    <2> HIDE DEF before
    <2> QED BY <1>9, <1>11, <2>2, <2>3 DEF H
  <1> QED BY <1>10, <1>11

LEMMA PartType ==
    ASSUME NEW t \in Seq(Char), NEW i \in 1..(Len(t) + 1) PROVE PartOf(t, i) \in Seq(Symbols)
  <1> DEFINE opened == SetToSeq(TagsAt(t, i) \ TagsAt(t, i - 1))
             closed == SetToSeq(TagsAt(t, i - 1) \ TagsAt(t, i))
             opens == [k \in DOMAIN opened |-> <<TAG, opened[k], TAG>>]
             closes == [k \in DOMAIN closed |-> <<TAG, Slash, closed[k], TAG>>]
             char == IF i \in DOMAIN t THEN Escape(t[i].sym) ELSE <<>>
  <1>1. opened \in Seq(Tags) /\ closed \in Seq(Tags)
    <2> DEFINE G == TagsAt(t, i - 1)
               H == TagsAt(t, i)
    <2>1. G \in SUBSET Tags /\ H \in SUBSET Tags
      BY TagsAtType
    <2> HIDE DEF G, H
    <2>2. (H \ G) \subseteq Tags /\ (G \ H) \subseteq Tags /\ IsFiniteSet(Tags)
      BY <2>1, TextAssumption
    <2>3. IsFiniteSet(H \ G) /\ IsFiniteSet(G \ H)
      BY <2>2, FS_Subset
    <2>4. SetToSeq(H \ G) \in Seq(H \ G) /\ SetToSeq(G \ H) \in Seq(G \ H)
      BY <2>3, SetToSeqLists DEF Lists
    <2>5. SetToSeq(H \ G) \in Seq(Tags) /\ SetToSeq(G \ H) \in Seq(Tags)
      BY <2>2, <2>4, SeqMonotonic
    <2> QED BY <2>5 DEF G, H
  <1> HIDE DEF opened, closed
  <1>2. ASSUME NEW g \in Tags PROVE <<TAG, g, TAG>> \in Seq(Symbols) /\ <<TAG, Slash, g, TAG>> \in Seq(Symbols)
    BY TagsAreSymbols, SymbolsKnown
  <1>3. opens \in Seq(Seq(Symbols)) /\ closes \in Seq(Seq(Symbols))
    <2>1. /\ DOMAIN opened = 1..Len(opened) /\ Len(opened) \in Nat
          /\ DOMAIN closed = 1..Len(closed) /\ Len(closed) \in Nat
          /\ (\A k \in 1..Len(opened) : opened[k] \in Tags)
          /\ (\A k \in 1..Len(closed) : closed[k] \in Tags)
      BY <1>1, LenProperties, ElementOfSeq
    <2>2. /\ \A k \in 1..Len(opened) : <<TAG, opened[k], TAG>> \in Seq(Symbols)
          /\ \A k \in 1..Len(closed) : <<TAG, Slash, closed[k], TAG>> \in Seq(Symbols)
      BY <1>2, <2>1
    <2> QED BY <2>1, <2>2
  <1>4. char \in Seq(Symbols)
    <2>1. ASSUME i \in DOMAIN t PROVE Escape(t[i].sym) \in Seq(Symbols)
      <3>1. t[i] \in Char
        BY <2>1, LenProperties, ElementOfSeq
      <3> QED BY <3>1, EscapeType DEF Char
    <2>2. <<>> \in Seq(Symbols)
      OBVIOUS
    <2> QED BY <2>1, <2>2
  <1> DEFINE open == FlattenSeq(opens)
             close == FlattenSeq(closes)
  <1>5. PartOf(t, i) = (open \o close) \o char
    BY DEF PartOf, opened, closed
  <1> HIDE DEF opens, closes, char
  <1>6. open \in Seq(Symbols) /\ close \in Seq(Symbols)
    BY <1>3, FlattenType
  <1> HIDE DEF open, close
  <1>7. open \o close \in Seq(Symbols)
    BY <1>6, ConcatProperties
  <1> DEFINE tags == open \o close
  <1> HIDE DEF tags
  <1>8. tags \o char \in Seq(Symbols)
    BY <1>4, <1>7, ConcatProperties DEF tags
  <1> QED BY <1>5, <1>8 DEF tags

(***************************************************************************)
(* Whatever a note holds, its characters (the markup's own among them) and *)
(* their formatting, what is written for it reads back as the same note    *)
(* (xpad_text_buffer_get_text_with_tags and set_text_with_tags).           *)
(***************************************************************************)
THEOREM MarkupReadsBack ==
    ASSUME NEW t \in Seq(Char) PROVE Encode(t) \in Seq(Symbols) /\ Decode(Encode(t)) = t
  <1> DEFINE n == Len(t)
             parts == [i \in 1..(n + 1) |-> PartOf(t, i)]
  <1>1. n \in Nat /\ DOMAIN t = 1..n
    BY LenProperties
  <1>2. Encode(t) = FlattenSeq(parts)
    BY EncodeIs
  <1>3. \A i \in 1..(n + 1) : parts[i] = PartOf(t, i) /\ PartOf(t, i) \in Seq(Symbols)
    BY PartType
  <1>4. parts \in Seq(Seq(Symbols)) /\ Len(parts) = n + 1
    BY <1>1, <1>3
  <1> HIDE DEF parts
  <1>5. PICK f \in [0..Len(parts) -> Seq(Symbols)] :
          /\ f[0] = <<>> /\ \A i \in 1..Len(parts) : f[i] = f[i - 1] \o parts[i]
          /\ FlattenSeq(parts) = f[Len(parts)]
    BY <1>4, FlattenRounds, Zenon
  <1>6. \A i \in 0..(n + 1) : f[i] \in Seq(Symbols)
    BY <1>1, <1>4, <1>5
  <1>7. \A i \in 1..(n + 1) : f[i] = f[i - 1] \o PartOf(t, i)
    BY <1>3, <1>4, <1>5
  <1>8. TagsAt(t, 0) = {} /\ TagsAt(t, n + 1) = {}
    BY <1>1 DEF TagsAt
  <1> DEFINE upto == [i \in 0..n |-> SubSeq(t, 1, i)]
  <1>9. upto[0] = <<>> /\ upto[n] = t
    <2>1. SubSeq(t, 1, 0) = <<>> /\ SubSeq(t, 1, n) = t
      BY SubSeqEmpty, SubSeqFull
    <2> QED BY <1>1, <2>1
  <1>10. ASSUME NEW i \in 0..n PROVE upto[i] \in Seq(Char)
    <2>1. 1 \in Int /\ i \in Int /\ \A j \in 1..i : t[j] \in Char
      BY <1>1, ElementOfSeq
    <2> QED BY <2>1, SubSeqProperties
  <1>11. ASSUME NEW i \in 1..n PROVE upto[i] = Append(upto[i - 1], t[i])
    <2>1. SubSeq(t, 1, i) = SubSeq(t, 1, i - 1) \o <<t[i]>>
      <3>1. 1 \in 1..Len(t) /\ i \in 1..Len(t)
        BY <1>1
      <3> QED BY <3>1, SubSeqRecursiveSecond
    <2>2. upto[i] = SubSeq(t, 1, i) /\ upto[i - 1] = SubSeq(t, 1, i - 1) /\ i - 1 \in 0..n
      BY <1>1
    <2>3. upto[i - 1] \in Seq(Char) /\ t[i] \in Char
      BY <1>10, <2>2, ElementOfSeq
    <2> HIDE DEF upto
    <2>4. Append(upto[i - 1], t[i]) = upto[i - 1] \o <<t[i]>>
      BY <2>3, AppendIsConcat
    <2> QED BY <2>1, <2>2, <2>4
  <1> HIDE DEF upto
  <1> DEFINE A == {i \in 0..n : Marked(f[i], upto[i], TagsAt(t, i))}
  <1>12. 0 \in A
    <2>1. 0 \in 0..n
      BY <1>1
    <2> QED BY <1>5, <1>8, <1>9, <2>1, MarkedStart
  <1>13. ASSUME NEW i \in 1..n, i - 1 \in A PROVE i \in A
    <2>1. i \in 1..(Len(t) + 1) /\ i - 1 \in 0..n /\ i \in 1..(n + 1) /\ i - 1 \in 0..(n + 1) /\ i \in 0..n
      BY <1>1
    <2>2. f[i - 1] \in Seq(Symbols) /\ upto[i - 1] \in Seq(Char)
      BY <1>6, <1>10, <2>1
    <2>3. Marked(f[i - 1], upto[i - 1], TagsAt(t, i - 1))
      BY <1>13
    <2>4. Marked(f[i - 1] \o PartOf(t, i), Append(upto[i - 1], t[i]), TagsAt(t, i))
      BY <2>1, <2>2, <2>3, MarkedPart
    <2>5. Marked(f[i], upto[i], TagsAt(t, i))
      BY <1>7, <1>11, <2>1, <2>4
    <2> QED BY <2>1, <2>5
  <1>14. n \in A
    <2> HIDE DEF A
    <2>1. 0..n \subseteq A
      BY <1>1, <1>12, <1>13, UpTo
    <2> QED BY <1>1, <2>1
  <1>15. Marked(f[n + 1], t, {})
    <2>1. n + 1 \in 1..(Len(t) + 1) /\ n + 1 \in 1..(n + 1) /\ (n + 1) - 1 = n /\ n \in 0..(n + 1)
          /\ ~(n + 1 \in 1..Len(t))
      BY <1>1
    <2>2. f[n] \in Seq(Symbols) /\ Marked(f[n], t, TagsAt(t, n))
      BY <1>6, <1>9, <1>14, <2>1
    <2>3. Marked(f[n] \o PartOf(t, n + 1), t, TagsAt(t, n + 1))
      BY <2>1, <2>2, MarkedPart
    <2>4. f[n + 1] = f[n] \o PartOf(t, n + 1)
      BY <1>7, <2>1
    <2> QED BY <1>8, <2>3, <2>4
  <1>16. Encode(t) = f[n + 1] /\ f[n + 1] \in Seq(Symbols)
    BY <1>1, <1>2, <1>4, <1>5, <1>6
  <1> QED BY <1>15, <1>16, MarkedEnd

-----------------------------------------------------------------------------
(* Edits, and what undoes them.                                            *)

LEMMA PutIs ==
    ASSUME NEW S, NEW w \in Seq(S), NEW i \in 1..(Len(w) + 1), NEW new \in Seq(S)
    PROVE  /\ Put(w, i, new) \in Seq(S) /\ Len(Put(w, i, new)) = Len(w) + Len(new)
           /\ \A k \in 1..(Len(w) + Len(new)) :
                Put(w, i, new)[k] = IF k < i THEN w[k]
                                    ELSE IF k < i + Len(new) THEN new[k - i + 1] ELSE w[k - Len(new)]
  <1> DEFINE a == SubSeq(w, 1, i - 1)
             b == SubSeq(w, i, Len(w))
             n == Len(w)
             m == Len(new)
             ab == a \o new
             p == ab \o b
  <1>1. n \in Nat /\ m \in Nat /\ \A k \in 1..n : w[k] \in S
    BY LenProperties, ElementOfSeq
  <1>2. a \in Seq(S) /\ Len(a) = i - 1 /\ \A k \in 1..(i - 1) : a[k] = w[k]
    <2>1. 1 \in Int /\ i - 1 \in Int /\ \A k \in 1..(i - 1) : w[k] \in S
      BY <1>1
    <2> QED BY <1>1, <2>1, SubSeqProperties
  <1>3. b \in Seq(S) /\ Len(b) = n - i + 1 /\ \A k \in 1..(n - i + 1) : b[k] = w[i + k - 1]
    <2>1. i \in Int /\ n \in Int /\ \A k \in i..n : w[k] \in S
      BY <1>1
    <2> QED BY <1>1, <2>1, SubSeqProperties
  <1>4. Put(w, i, new) = p
    BY DEF Put
  <1> HIDE DEF a, b
  <1>5. ab \in Seq(S) /\ Len(ab) = i - 1 + m
    BY <1>1, <1>2, ConcatProperties
  <1>6. \A k \in 1..(i - 1 + m) : ab[k] = IF k <= i - 1 THEN w[k] ELSE new[k - (i - 1)]
    <2>1. \A k \in 1..(Len(a) + Len(new)) : ab[k] = IF k <= Len(a) THEN a[k] ELSE new[k - Len(a)]
      BY <1>2, ConcatProperties
    <2> HIDE DEF ab
    <2> QED BY <1>1, <1>2, <2>1
  <1> HIDE DEF ab
  <1>7. p \in Seq(S) /\ Len(p) = Len(ab) + Len(b)
    BY <1>3, <1>5, ConcatProperties
  <1>8. \A k \in 1..(Len(ab) + Len(b)) : p[k] = IF k <= Len(ab) THEN ab[k] ELSE b[k - Len(ab)]
    BY <1>3, <1>5, ConcatProperties
  <1> HIDE DEF p, n, m
  <1>9. Len(ab) + Len(b) = n + m
    BY <1>1, <1>3, <1>5
  <1>9a. i \in 1..(n + 1)
    BY DEF n
  <1>10. ASSUME NEW k \in 1..(n + m)
         PROVE  p[k] = IF k < i THEN w[k] ELSE IF k < i + m THEN new[k - i + 1] ELSE w[k - m]
    <2>1. p[k] = IF k <= i - 1 + m THEN ab[k] ELSE b[k - (i - 1 + m)]
      BY <1>5, <1>8, <1>9
    <2>2. CASE k < i
      <3>1. k <= i - 1 + m /\ k <= i - 1 /\ k \in 1..(i - 1 + m)
        BY <1>1, <1>9a, <2>2
      <3> QED BY <1>6, <2>1, <2>2, <3>1
    <2>3. CASE ~(k < i) /\ k < i + m
      <3>1. k <= i - 1 + m /\ ~(k <= i - 1) /\ k \in 1..(i - 1 + m) /\ k - (i - 1) = k - i + 1
        BY <1>1, <1>9a, <2>3
      <3> QED BY <1>6, <2>1, <2>3, <3>1
    <2>4. CASE ~(k < i + m)
      <3> DEFINE j == k - (i - 1 + m)
      <3>1. ~(k <= i - 1 + m) /\ j \in 1..(n - i + 1) /\ i + j - 1 = k - m /\ ~(k < i)
        BY <1>1, <1>9a, <2>4
      <3> HIDE DEF j
      <3>2. b[j] = w[i + j - 1]
        BY <1>3, <3>1
      <3> QED BY <2>1, <2>4, <3>1, <3>2 DEF j
    <2> QED BY <1>1, <1>9a, <2>2, <2>3, <2>4
  <1> QED BY <1>4, <1>7, <1>9, <1>10 DEF n, m

LEMMA CutIs ==
    ASSUME NEW S, NEW w \in Seq(S), NEW i \in 1..(Len(w) + 1), NEW n \in Nat, i + n <= Len(w) + 1
    PROVE  /\ Cut(w, i, n) \in Seq(S) /\ Len(Cut(w, i, n)) = Len(w) - n
           /\ \A k \in 1..(Len(w) - n) : Cut(w, i, n)[k] = IF k < i THEN w[k] ELSE w[k + n]
  <1> DEFINE a == SubSeq(w, 1, i - 1)
             b == SubSeq(w, i + n, Len(w))
             l == Len(w)
             p == a \o b
  <1>1. l \in Nat /\ \A k \in 1..l : w[k] \in S
    BY LenProperties, ElementOfSeq
  <1>2. a \in Seq(S) /\ Len(a) = i - 1 /\ \A k \in 1..(i - 1) : a[k] = w[k]
    <2>1. 1 \in Int /\ i - 1 \in Int /\ \A k \in 1..(i - 1) : w[k] \in S
      BY <1>1
    <2> QED BY <1>1, <2>1, SubSeqProperties
  <1>3. b \in Seq(S) /\ Len(b) = l - i - n + 1 /\ \A k \in 1..(l - i - n + 1) : b[k] = w[i + n + k - 1]
    <2>1. i + n \in Int /\ l \in Int /\ \A k \in (i + n)..l : w[k] \in S
      BY <1>1
    <2> QED BY <1>1, <2>1, SubSeqProperties
  <1>4. Cut(w, i, n) = p
    BY DEF Cut
  <1> HIDE DEF a, b
  <1>5. p \in Seq(S) /\ Len(p) = Len(a) + Len(b)
    BY <1>2, <1>3, ConcatProperties
  <1>6. \A k \in 1..(Len(a) + Len(b)) : p[k] = IF k <= Len(a) THEN a[k] ELSE b[k - Len(a)]
    BY <1>2, <1>3, ConcatProperties
  <1> HIDE DEF p, l
  <1>7. Len(a) + Len(b) = l - n
    BY <1>1, <1>2, <1>3
  <1>8. i \in 1..(l + 1) /\ i + n <= l + 1
    BY DEF l
  <1>9. ASSUME NEW k \in 1..(l - n) PROVE p[k] = IF k < i THEN w[k] ELSE w[k + n]
    <2>1. p[k] = IF k <= i - 1 THEN a[k] ELSE b[k - (i - 1)]
      BY <1>2, <1>6, <1>7
    <2>2. CASE k < i
      <3>1. k <= i - 1 /\ k \in 1..(i - 1)
        BY <1>1, <1>8, <2>2
      <3> QED BY <1>2, <2>1, <2>2, <3>1
    <2>3. CASE ~(k < i)
      <3> DEFINE j == k - (i - 1)
      <3>1. ~(k <= i - 1) /\ j \in 1..(l - i - n + 1) /\ i + n + j - 1 = k + n
        BY <1>1, <1>8, <2>3
      <3> HIDE DEF j
      <3>2. b[j] = w[i + n + j - 1]
        BY <1>3, <3>1
      <3> QED BY <2>1, <2>3, <3>1, <3>2 DEF j
    <2> QED BY <2>2, <2>3
  <1> QED BY <1>4, <1>5, <1>7, <1>9 DEF l

LEMMA SegmentIs ==
    ASSUME NEW S, NEW w \in Seq(S), NEW i \in 1..(Len(w) + 1), NEW n \in Nat, i + n <= Len(w) + 1
    PROVE  /\ SubSeq(w, i, i + n - 1) \in Seq(S) /\ Len(SubSeq(w, i, i + n - 1)) = n
           /\ \A k \in 1..n : SubSeq(w, i, i + n - 1)[k] = w[i + k - 1]
  <1>1. Len(w) \in Nat /\ \A k \in 1..Len(w) : w[k] \in S
    BY LenProperties, ElementOfSeq
  <1>2. i \in Int /\ i + n - 1 \in Int /\ \A k \in i..(i + n - 1) : w[k] \in S
    BY <1>1
  <1>3. /\ SubSeq(w, i, i + n - 1) \in Seq(S)
        /\ Len(SubSeq(w, i, i + n - 1)) = IF i <= i + n - 1 THEN (i + n - 1) - i + 1 ELSE 0
        /\ \A k \in 1..((i + n - 1) - i + 1) : SubSeq(w, i, i + n - 1)[k] = w[i + k - 1]
    BY <1>2, SubSeqProperties
  <1>4. (i + n - 1) - i + 1 = n /\ (~(i <= i + n - 1) => n = 0)
    BY <1>1
  <1> QED BY <1>3, <1>4

\* What was put in can be cut out again, and what was cut out can be put in again.
LEMMA CutUndoesPut ==
    ASSUME NEW S, NEW w \in Seq(S), NEW i \in 1..(Len(w) + 1), NEW new \in Seq(S)
    PROVE  /\ i \in 1..(Len(Put(w, i, new)) + 1) /\ i + Len(new) <= Len(Put(w, i, new)) + 1
           /\ SubSeq(Put(w, i, new), i, i + Len(new) - 1) = new
           /\ Cut(Put(w, i, new), i, Len(new)) = w
  <1> DEFINE p == Put(w, i, new)
             n == Len(w)
             m == Len(new)
             c == Cut(p, i, m)
             q == SubSeq(p, i, i + m - 1)
  <1>1. n \in Nat /\ m \in Nat
    BY LenProperties
  <1>2. p \in Seq(S) /\ Len(p) = n + m
        /\ \A k \in 1..(n + m) : p[k] = IF k < i THEN w[k]
                                        ELSE IF k < i + m THEN new[k - i + 1] ELSE w[k - m]
    BY PutIs
  <1> HIDE DEF p, n, m
  <1>3. i \in 1..(n + 1)
    BY DEF n
  <1>4. i \in 1..(Len(p) + 1) /\ i + m <= Len(p) + 1
    BY <1>1, <1>2, <1>3
  <1>5. c \in Seq(S) /\ Len(c) = Len(p) - m /\ \A k \in 1..(Len(p) - m) : c[k] = IF k < i THEN p[k] ELSE p[k + m]
    BY <1>1, <1>2, <1>4, CutIs
  <1>6. q \in Seq(S) /\ Len(q) = m /\ \A k \in 1..m : q[k] = p[i + k - 1]
    BY <1>1, <1>2, <1>4, SegmentIs
  <1> HIDE DEF c, q
  <1>7. \A k \in 1..m : q[k] = new[k]
    <2> SUFFICES ASSUME NEW k \in 1..m PROVE q[k] = new[k]
      OBVIOUS
    <2> DEFINE j == i + k - 1
    <2>1. j \in 1..(n + m) /\ ~(j < i) /\ j < i + m /\ j - i + 1 = k
      BY <1>1, <1>3
    <2>2. q[k] = p[j]
      BY <1>6
    <2> HIDE DEF j
    <2> QED BY <1>2, <2>1, <2>2
  <1>8. q = new
    BY <1>6, <1>7, SeqEqual DEF m
  <1>9. Len(p) - m = n
    BY <1>1, <1>2
  <1>10. \A k \in 1..n : c[k] = w[k]
    <2> SUFFICES ASSUME NEW k \in 1..n PROVE c[k] = w[k]
      OBVIOUS
    <2>1. c[k] = IF k < i THEN p[k] ELSE p[k + m]
      BY <1>5, <1>9
    <2>2. CASE k < i
      <3>1. k \in 1..(n + m)
        BY <1>1
      <3> QED BY <1>2, <2>1, <2>2, <3>1
    <2>3. CASE ~(k < i)
      <3> DEFINE j == k + m
      <3>1. j \in 1..(n + m) /\ ~(j < i) /\ ~(j < i + m) /\ j - m = k
        BY <1>1, <1>3, <2>3
      <3> HIDE DEF j
      <3>2. p[j] = w[j - m]
        BY <1>2, <3>1
      <3> QED BY <2>1, <2>3, <3>1, <3>2 DEF j
    <2> QED BY <2>2, <2>3
  <1>11. c = w
    BY <1>5, <1>9, <1>10, SeqEqual DEF n
  <1> QED BY <1>4, <1>8, <1>11 DEF c, q, p, m

LEMMA PutUndoesCut ==
    ASSUME NEW S, NEW w \in Seq(S), NEW i \in 1..(Len(w) + 1), NEW n \in Nat, i + n <= Len(w) + 1
    PROVE  /\ i \in 1..(Len(Cut(w, i, n)) + 1)
           /\ Put(Cut(w, i, n), i, SubSeq(w, i, i + n - 1)) = w
  <1> DEFINE c == Cut(w, i, n)
             q == SubSeq(w, i, i + n - 1)
             p == Put(c, i, q)
             l == Len(w)
  <1>1. l \in Nat
    BY LenProperties
  <1>2. c \in Seq(S) /\ Len(c) = l - n /\ \A k \in 1..(l - n) : c[k] = IF k < i THEN w[k] ELSE w[k + n]
    BY CutIs
  <1>3. q \in Seq(S) /\ Len(q) = n /\ \A k \in 1..n : q[k] = w[i + k - 1]
    BY SegmentIs
  <1>4. i \in 1..(l + 1) /\ i + n <= l + 1
    BY DEF l
  <1> HIDE DEF c, q, l
  <1>5. i \in 1..(Len(c) + 1)
    BY <1>1, <1>2, <1>4
  <1>6. /\ p \in Seq(S) /\ Len(p) = Len(c) + Len(q)
        /\ \A k \in 1..(Len(c) + Len(q)) :
             p[k] = IF k < i THEN c[k] ELSE IF k < i + Len(q) THEN q[k - i + 1] ELSE c[k - Len(q)]
    <2>1. c \in Seq(S)
      BY <1>2
    <2>2. q \in Seq(S)
      BY <1>3
    <2> QED BY <1>5, <2>1, <2>2, PutIs
  <1> HIDE DEF p
  <1>7. Len(c) + Len(q) = l
    BY <1>1, <1>2, <1>3
  <1>8. \A k \in 1..l : p[k] = w[k]
    <2> SUFFICES ASSUME NEW k \in 1..l PROVE p[k] = w[k]
      OBVIOUS
    <2>1. p[k] = IF k < i THEN c[k] ELSE IF k < i + n THEN q[k - i + 1] ELSE c[k - n]
      BY <1>3, <1>6, <1>7
    <2>2. CASE k < i
      <3>1. k \in 1..(l - n)
        BY <1>1, <1>4, <2>2
      <3> QED BY <1>2, <2>1, <2>2, <3>1
    <2>3. CASE ~(k < i) /\ k < i + n
      <3> DEFINE j == k - i + 1
      <3>1. j \in 1..n /\ i + j - 1 = k
        BY <1>1, <1>4, <2>3
      <3> HIDE DEF j
      <3>2. q[j] = w[i + j - 1]
        BY <1>3, <3>1
      <3> QED BY <2>1, <2>3, <3>1, <3>2 DEF j
    <2>4. CASE ~(k < i + n)
      <3> DEFINE j == k - n
      <3>1. j \in 1..(l - n) /\ ~(j < i) /\ j + n = k /\ ~(k < i)
        BY <1>1, <1>4, <2>4
      <3> HIDE DEF j
      <3>2. c[j] = w[j + n]
        BY <1>2, <3>1
      <3> QED BY <2>1, <2>4, <3>1, <3>2 DEF j
    <2> QED BY <2>2, <2>3, <2>4
  <1>9. p = w
    BY <1>6, <1>7, <1>8, SeqEqual DEF l
  <1> QED BY <1>5, <1>9 DEF p, c, q

-----------------------------------------------------------------------------
(* The history: an entry on the characters alone, the formatting left out. *)

SymDone(w, e) == IF e.op = "ins" THEN Put(w, e.at, e.syms) ELSE Cut(w, e.at, Len(e.syms))

\* The entry can be done on the characters w.
Fits(w, e) ==
    /\ e.at \in 1..(Len(w) + 1)
    /\ e.op = "del" => /\ e.at + Len(e.syms) <= Len(w) + 1
                       /\ SubSeq(w, e.at, e.at + Len(e.syms) - 1) = e.syms

LEMMA InvertedIs ==
    ASSUME NEW e \in Entry
    PROVE  /\ e.op \in {"ins", "del"} /\ e.at \in Nat /\ e.syms \in Seq(Symbols)
           /\ Inverted(e) \in Entry /\ Inverted(e).at = e.at /\ Inverted(e).syms = e.syms
           /\ Inverted(e).op = IF e.op = "ins" THEN "del" ELSE "ins"
  <1>1. MaxLen \in Nat
    BY TextAssumption
  <1>2. e.op \in {"ins", "del"} /\ e.at \in 1..(MaxLen + 1) /\ e.syms \in Seq(Symbols)
    BY DEF Entry
  <1>3. e.at \in Nat
    <2>1. \A k \in 1..(MaxLen + 1) : k \in Nat
      BY <1>1
    <2> QED BY <1>2, <2>1
  <1>4. Inverted(e) = [op |-> IF e.op = "ins" THEN "del" ELSE "ins", at |-> e.at, syms |-> e.syms]
    BY DEF Inverted, Entry
  <1>5. Inverted(e) \in Entry
    BY <1>2, <1>4 DEF Entry
  <1> QED BY <1>2, <1>3, <1>4, <1>5

LEMMA Reversible ==
    ASSUME NEW w \in Seq(Symbols), NEW e \in Entry, Fits(w, e)
    PROVE  /\ SymDone(w, e) \in Seq(Symbols) /\ Fits(SymDone(w, e), Inverted(e))
           /\ SymDone(SymDone(w, e), Inverted(e)) = w
  <1> DEFINE i == e.at
             q == e.syms
             b == Inverted(e)
  <1>1. /\ e.op \in {"ins", "del"} /\ q \in Seq(Symbols) /\ b.at = i /\ b.syms = q
        /\ b.op = IF e.op = "ins" THEN "del" ELSE "ins"
    BY InvertedIs
  <1>2. i \in 1..(Len(w) + 1) /\ Len(q) \in Nat
    BY <1>1, LenProperties DEF Fits
  <1> HIDE DEF b
  <1>3. CASE e.op = "ins"
    <2> DEFINE p == Put(w, i, q)
    <2>1. SymDone(w, e) = p /\ b.op = "del"
      BY <1>1, <1>3 DEF SymDone
    <2> HIDE DEF i, q
    <2>2. p \in Seq(Symbols)
      BY <1>1, <1>2, PutIs
    <2>3. /\ i \in 1..(Len(p) + 1) /\ i + Len(q) <= Len(p) + 1
          /\ SubSeq(p, i, i + Len(q) - 1) = q
          /\ Cut(p, i, Len(q)) = w
      BY <1>1, <1>2, CutUndoesPut
    <2> HIDE DEF p
    <2>4. Fits(p, b)
      BY <1>1, <2>3 DEF Fits
    <2>5. SymDone(p, b) = w
      BY <1>1, <2>1, <2>3 DEF SymDone
    <2> QED BY <2>1, <2>2, <2>4, <2>5 DEF b
  <1>4. CASE e.op = "del"
    <2> DEFINE c == Cut(w, i, Len(q))
    <2>1. SymDone(w, e) = c /\ b.op = "ins"
      BY <1>1, <1>4 DEF SymDone
    <2>2. i + Len(q) <= Len(w) + 1 /\ SubSeq(w, i, i + Len(q) - 1) = q
      BY <1>4 DEF Fits
    <2> HIDE DEF i, q
    <2>3. c \in Seq(Symbols)
      BY <1>2, <2>2, CutIs
    <2>4. i \in 1..(Len(c) + 1) /\ Put(c, i, SubSeq(w, i, i + Len(q) - 1)) = w
      BY <1>2, <2>2, PutUndoesCut
    <2> HIDE DEF c
    <2>5. Fits(c, b)
      BY <1>1, <2>1, <2>4 DEF Fits
    <2>6. SymDone(c, b) = w
      BY <1>1, <2>1, <2>2, <2>4 DEF SymDone
    <2> QED BY <2>1, <2>3, <2>5, <2>6 DEF b
  <1> QED BY <1>1, <1>3, <1>4

LEMMA SymsOfIs ==
    ASSUME NEW t \in Seq(Char)
    PROVE  /\ SymsOf(t) \in Seq(Symbols) /\ Len(SymsOf(t)) = Len(t)
           /\ \A i \in 1..Len(t) : SymsOf(t)[i] = t[i].sym
  <1>1. DOMAIN t = 1..Len(t) /\ Len(t) \in Nat /\ \A i \in 1..Len(t) : t[i] \in Char
    BY LenProperties, ElementOfSeq
  <1>2. \A i \in 1..Len(t) : t[i].sym \in Symbols
    BY <1>1 DEF Char
  <1> QED BY <1>1, <1>2 DEF SymsOf

LEMMA SymsOfPlain ==
    ASSUME NEW syms \in Seq(Symbols), NEW tags \in SUBSET Tags
    PROVE  SymsOf(Plain(syms, tags)) = syms
  <1> DEFINE p == Plain(syms, tags)
             w == SymsOf(p)
  <1>1. p \in Seq(Char) /\ Len(p) = Len(syms) /\ \A i \in 1..Len(syms) : p[i] = [sym |-> syms[i], tags |-> tags]
    BY PlainType
  <1> HIDE DEF p
  <1>2. w \in Seq(Symbols) /\ Len(w) = Len(p) /\ \A i \in 1..Len(p) : w[i] = p[i].sym
    BY <1>1, SymsOfIs
  <1> HIDE DEF w
  <1>3. ASSUME NEW i \in 1..Len(w) PROVE w[i] = syms[i]
    <2>1. i \in 1..Len(p) /\ i \in 1..Len(syms)
      BY <1>1, <1>2
    <2>2. p[i] = [sym |-> syms[i], tags |-> tags]
      BY <1>1, <2>1
    <2>3. w[i] = p[i].sym
      BY <1>2, <2>1
    <2> QED BY <2>2, <2>3
  <1>4. w = syms
    BY <1>1, <1>2, <1>3, SeqEqual
  <1> QED BY <1>4 DEF w, p

LEMMA SymsOfPut ==
    ASSUME NEW t \in Seq(Char), NEW i \in 1..(Len(t) + 1), NEW new \in Seq(Char)
    PROVE  SymsOf(Put(t, i, new)) = Put(SymsOf(t), i, SymsOf(new))
  <1> DEFINE n == Len(t)
             m == Len(new)
             p == Put(t, i, new)
             w == SymsOf(p)
             st == SymsOf(t)
             sn == SymsOf(new)
             v == Put(st, i, sn)
  <1>1. n \in Nat /\ m \in Nat
    BY LenProperties
  <1>2. p \in Seq(Char) /\ Len(p) = n + m
        /\ \A k \in 1..(n + m) : p[k] = IF k < i THEN t[k]
                                        ELSE IF k < i + m THEN new[k - i + 1] ELSE t[k - m]
    BY PutIs
  <1>3. st \in Seq(Symbols) /\ Len(st) = n /\ \A k \in 1..n : st[k] = t[k].sym
    BY SymsOfIs
  <1>4. sn \in Seq(Symbols) /\ Len(sn) = m /\ \A k \in 1..m : sn[k] = new[k].sym
    BY SymsOfIs
  <1>5. i \in 1..(n + 1)
    OBVIOUS
  <1> HIDE DEF n, m, p, st, sn
  <1>6. w \in Seq(Symbols) /\ Len(w) = n + m /\ \A k \in 1..(n + m) : w[k] = p[k].sym
    BY <1>2, SymsOfIs
  <1> HIDE DEF w
  <1>7. /\ v \in Seq(Symbols) /\ Len(v) = Len(st) + Len(sn)
        /\ \A k \in 1..(Len(st) + Len(sn)) :
             v[k] = IF k < i THEN st[k] ELSE IF k < i + Len(sn) THEN sn[k - i + 1] ELSE st[k - Len(sn)]
    <2>1. st \in Seq(Symbols) /\ sn \in Seq(Symbols)
      BY <1>3, <1>4
    <2>2. i \in 1..(Len(st) + 1)
      BY <1>3, <1>5
    <2> QED BY <2>1, <2>2, PutIs
  <1> HIDE DEF v
  <1>8. \A k \in 1..(n + m) : w[k] = v[k]
    <2> SUFFICES ASSUME NEW k \in 1..(n + m) PROVE w[k] = v[k]
      OBVIOUS
    <2>1. v[k] = IF k < i THEN st[k] ELSE IF k < i + m THEN sn[k - i + 1] ELSE st[k - m]
      BY <1>3, <1>4, <1>7
    <2>2. w[k] = p[k].sym
      BY <1>6
    <2>3. CASE k < i
      <3>1. k \in 1..n
        BY <1>1, <1>5, <2>3
      <3> QED BY <1>2, <1>3, <2>1, <2>2, <2>3, <3>1
    <2>4. CASE ~(k < i) /\ k < i + m
      <3>1. k - i + 1 \in 1..m
        BY <1>1, <1>5, <2>4
      <3> QED BY <1>2, <1>4, <2>1, <2>2, <2>4, <3>1
    <2>5. CASE ~(k < i) /\ ~(k < i + m)
      <3>1. k - m \in 1..n
        BY <1>1, <1>5, <2>5
      <3> QED BY <1>2, <1>3, <2>1, <2>2, <2>5, <3>1
    <2> QED BY <2>3, <2>4, <2>5
  <1>9. w = v
    <2>1. Len(w) = Len(v) /\ \A k \in 1..Len(w) : w[k] = v[k]
      BY <1>3, <1>4, <1>6, <1>7, <1>8
    <2> QED BY <1>6, <1>7, <2>1, SeqEqual
  <1> QED BY <1>9 DEF w, v, p, st, sn

LEMMA SymsOfCut ==
    ASSUME NEW t \in Seq(Char), NEW i \in 1..(Len(t) + 1), NEW n \in Nat, i + n <= Len(t) + 1
    PROVE  /\ SymsOf(Cut(t, i, n)) = Cut(SymsOf(t), i, n)
           /\ SymsOf(SubSeq(t, i, i + n - 1)) = SubSeq(SymsOf(t), i, i + n - 1)
  <1> DEFINE l == Len(t)
             c == Cut(t, i, n)
             q == SubSeq(t, i, i + n - 1)
             st == SymsOf(t)
             w == SymsOf(c)
             v == Cut(st, i, n)
             wq == SymsOf(q)
             vq == SubSeq(st, i, i + n - 1)
  <1>1. l \in Nat /\ i \in 1..(l + 1) /\ i + n <= l + 1
    BY LenProperties
  <1>2. c \in Seq(Char) /\ Len(c) = l - n /\ \A k \in 1..(l - n) : c[k] = IF k < i THEN t[k] ELSE t[k + n]
    BY CutIs
  <1>3. q \in Seq(Char) /\ Len(q) = n /\ \A k \in 1..n : q[k] = t[i + k - 1]
    BY SegmentIs
  <1>4. st \in Seq(Symbols) /\ Len(st) = l /\ \A k \in 1..l : st[k] = t[k].sym
    BY SymsOfIs
  <1> HIDE DEF l, c, q, st
  <1>5. w \in Seq(Symbols) /\ Len(w) = Len(c) /\ \A k \in 1..Len(c) : w[k] = c[k].sym
    BY <1>2, SymsOfIs
  <1>6. wq \in Seq(Symbols) /\ Len(wq) = Len(q) /\ \A k \in 1..Len(q) : wq[k] = q[k].sym
    BY <1>3, SymsOfIs
  <1> HIDE DEF w, wq
  <1>7. i \in 1..(Len(st) + 1) /\ i + n <= Len(st) + 1
    BY <1>1, <1>4
  <1>8. v \in Seq(Symbols) /\ Len(v) = Len(st) - n
        /\ \A k \in 1..(Len(st) - n) : v[k] = IF k < i THEN st[k] ELSE st[k + n]
    BY <1>4, <1>7, CutIs
  <1>9. vq \in Seq(Symbols) /\ Len(vq) = n /\ \A k \in 1..n : vq[k] = st[i + k - 1]
    BY <1>4, <1>7, SegmentIs
  <1> HIDE DEF v, vq
  <1>10. w = v
    <2>1. Len(w) = l - n /\ Len(v) = l - n
      BY <1>2, <1>4, <1>5, <1>8
    <2>2. ASSUME NEW k \in 1..(l - n) PROVE w[k] = v[k]
      <3>1. w[k] = c[k].sym /\ c[k] = (IF k < i THEN t[k] ELSE t[k + n])
            /\ v[k] = (IF k < i THEN st[k] ELSE st[k + n])
        BY <1>2, <1>4, <1>5, <1>8
      <3>2. k \in 1..l /\ k + n \in 1..l
        BY <1>1
      <3> QED BY <1>4, <3>1, <3>2
    <2> QED BY <1>5, <1>8, <2>1, <2>2, SeqEqual
  <1>11. wq = vq
    <2>1. Len(wq) = n /\ Len(vq) = n
      BY <1>3, <1>6, <1>9
    <2>2. ASSUME NEW k \in 1..n PROVE wq[k] = vq[k]
      <3>1. wq[k] = q[k].sym /\ q[k] = t[i + k - 1] /\ vq[k] = st[i + k - 1]
        BY <1>3, <1>6, <1>9
      <3>2. i + k - 1 \in 1..l
        BY <1>1
      <3> QED BY <1>4, <3>1, <3>2
    <2> QED BY <1>6, <1>9, <2>1, <2>2, SeqEqual
  <1> QED BY <1>10, <1>11 DEF w, v, wq, vq, c, q, st

LEMMA DoneIs ==
    ASSUME NEW t \in Seq(Char), NEW e \in Entry, Fits(SymsOf(t), e)
    PROVE  Done(t, e) \in Seq(Char) /\ SymsOf(Done(t, e)) = SymDone(SymsOf(t), e)
  <1> DEFINE i == e.at
             q == e.syms
  <1>1. e.op \in {"ins", "del"} /\ q \in Seq(Symbols) /\ Len(q) \in Nat
    BY InvertedIs, LenProperties
  <1>2. Len(SymsOf(t)) = Len(t)
    BY SymsOfIs
  <1>3. i \in 1..(Len(t) + 1)
    BY <1>2 DEF Fits
  <1>4. CASE e.op = "ins"
    <2> DEFINE tags == Between(t, i)
               new == Plain(q, tags)
    <2>1. tags \in SUBSET Tags
      BY TagsAtType DEF Between
    <2>2. Done(t, e) = Put(t, i, new) /\ SymDone(SymsOf(t), e) = Put(SymsOf(t), i, q)
      BY <1>4 DEF Done, SymDone
    <2> HIDE DEF i, q, tags
    <2>3. new \in Seq(Char) /\ SymsOf(new) = q
      BY <1>1, <2>1, PlainType, SymsOfPlain
    <2> HIDE DEF new
    <2>4. Put(t, i, new) \in Seq(Char) /\ SymsOf(Put(t, i, new)) = Put(SymsOf(t), i, SymsOf(new))
      BY <1>3, <2>3, PutIs, SymsOfPut
    <2> QED BY <2>2, <2>3, <2>4
  <1>5. CASE e.op = "del"
    <2>1. Done(t, e) = Cut(t, i, Len(q)) /\ SymDone(SymsOf(t), e) = Cut(SymsOf(t), i, Len(q))
      BY <1>5 DEF Done, SymDone
    <2>2. i + Len(q) <= Len(t) + 1
      BY <1>2, <1>5 DEF Fits
    <2> HIDE DEF i, q
    <2>3. Cut(t, i, Len(q)) \in Seq(Char)
      BY <1>1, <1>3, <2>2, CutIs
    <2>4. SymsOf(Cut(t, i, Len(q))) = Cut(SymsOf(t), i, Len(q))
      BY <1>1, <1>3, <2>2, SymsOfCut
    <2> QED BY <2>1, <2>3, <2>4
  <1> QED BY <1>1, <1>4, <1>5

\* The i-th entry of the history: those that can be undone, then those that can be done
\* again.
LogAt(u, r, i) == IF i <= Len(u) THEN u[i] ELSE r[Len(u) + Len(r) + 1 - i]

\* h leads from entry to entry through the characters there were.
Chain(h, u, r) ==
    /\ h \in [0..(Len(u) + Len(r)) -> Seq(Symbols)]
    /\ \A i \in 1..(Len(u) + Len(r)) :
         Fits(h[i - 1], LogAt(u, r, i)) /\ h[i] = SymDone(h[i - 1], LogAt(u, r, i))

History(t, u, r, b) == \E h : Chain(h, u, r) /\ h[0] = b /\ h[Len(u)] = SymsOf(t)

LEMMA Forgotten == ASSUME NEW t \in Seq(Char) PROVE History(t, <<>>, <<>>, SymsOf(t))
  <1> DEFINE h == [i \in 0..0 |-> SymsOf(t)]
  <1>1. SymsOf(t) \in Seq(Symbols)
    BY SymsOfIs
  <1>2. Len(<<>>) = 0
    OBVIOUS
  <1>3. h \in [0..0 -> Seq(Symbols)] /\ h[0] = SymsOf(t)
    BY <1>1
  <1> HIDE DEF h
  <1>4. Chain(h, <<>>, <<>>)
    <2>1. h \in [0..(Len(<<>>) + Len(<<>>)) -> Seq(Symbols)]
      BY <1>2, <1>3
    <2>2. ~\E i \in 1..(Len(<<>>) + Len(<<>>)) : TRUE
      BY <1>2
    <2> QED BY <2>1, <2>2 DEF Chain
  <1> QED BY <1>2, <1>3, <1>4 DEF History

LEMMA LastIs ==
    ASSUME NEW S, NEW q \in Seq(S), q # <<>>
    PROVE  /\ Len(q) \in Nat \ {0} /\ Last(q) \in S /\ Last(q) = q[Len(q)]
           /\ Front(q) \in Seq(S) /\ Len(Front(q)) = Len(q) - 1
           /\ \A i \in 1..(Len(q) - 1) : Front(q)[i] = q[i]
  <1>1. Len(q) \in Nat \ {0} /\ \A i \in 1..Len(q) : q[i] \in S
    BY EmptySeq, ElementOfSeq
  <1>2. Last(q) = q[Len(q)] /\ Last(q) \in S
    BY <1>1 DEF Last
  <1>3. 1 \in Int /\ Len(q) - 1 \in Int /\ \A i \in 1..(Len(q) - 1) : q[i] \in S
    BY <1>1
  <1>4. /\ SubSeq(q, 1, Len(q) - 1) \in Seq(S)
        /\ Len(SubSeq(q, 1, Len(q) - 1)) = IF 1 <= Len(q) - 1 THEN (Len(q) - 1) - 1 + 1 ELSE 0
        /\ \A i \in 1..((Len(q) - 1) - 1 + 1) : SubSeq(q, 1, Len(q) - 1)[i] = q[1 + i - 1]
    BY <1>3, SubSeqProperties
  <1>5. Front(q) = SubSeq(q, 1, Len(q) - 1)
    BY DEF Front
  <1> DEFINE f == SubSeq(q, 1, Len(q) - 1)
             n == Len(q)
  <1> HIDE DEF f, n
  <1>6. /\ f \in Seq(S) /\ Len(f) = (IF 1 <= n - 1 THEN (n - 1) - 1 + 1 ELSE 0)
        /\ \A i \in 1..((n - 1) - 1 + 1) : f[i] = q[1 + i - 1]
    BY <1>4 DEF f, n
  <1>7. n \in Nat \ {0}
    BY <1>1 DEF n
  <1>8. Len(f) = n - 1 /\ \A i \in 1..(n - 1) : f[i] = q[i]
    BY <1>6, <1>7
  <1> QED BY <1>1, <1>2, <1>5, <1>6, <1>8 DEF f, n

LEMMA Recorded ==
    ASSUME NEW u \in Seq(Entry), NEW r \in Seq(Entry), NEW b, NEW t \in Seq(Char), NEW new \in Seq(Char),
           History(t, u, r, b), NEW e \in Entry, Fits(SymsOf(t), e), SymsOf(new) = SymDone(SymsOf(t), e)
    PROVE  History(new, Append(u, e), <<>>, b)
  <1> DEFINE n == Len(u)
             m == Len(r)
             v == Append(u, e)
  <1>1. n \in Nat /\ m \in Nat /\ Len(<<>>) = 0
    BY LenProperties
  <1>2. v \in Seq(Entry) /\ Len(v) = n + 1 /\ (\A i \in 1..n : v[i] = u[i]) /\ v[n + 1] = e
    BY AppendProperties
  <1>3. PICK h : Chain(h, u, r) /\ h[0] = b /\ h[n] = SymsOf(t)
    BY DEF History
  <1> HIDE DEF n, m, v
  <1>4. h \in [0..(n + m) -> Seq(Symbols)]
        /\ \A i \in 1..(n + m) : Fits(h[i - 1], LogAt(u, r, i)) /\ h[i] = SymDone(h[i - 1], LogAt(u, r, i))
    BY <1>3 DEF Chain, n, m
  <1> DEFINE g == [i \in 0..(n + 1) |-> IF i = n + 1 THEN SymsOf(new) ELSE h[i]]
  <1>5. g \in [0..(n + 1) -> Seq(Symbols)]
    <2>1. SymsOf(new) \in Seq(Symbols)
      BY SymsOfIs
    <2>2. \A i \in 0..n : h[i] \in Seq(Symbols)
      BY <1>1, <1>4
    <2>3. \A i \in 0..(n + 1) : i # n + 1 => i \in 0..n
      BY <1>1
    <2> QED BY <2>1, <2>2, <2>3
  <1>6. g[n + 1] = SymsOf(new) /\ \A i \in 0..n : g[i] = h[i]
    BY <1>1
  <1> HIDE DEF g
  <1>7. ASSUME NEW i \in 1..(n + 1) PROVE LogAt(v, <<>>, i) = v[i]
    <2>1. i <= Len(v)
      BY <1>2
    <2> QED BY <2>1 DEF LogAt
  <1>8. ASSUME NEW i \in 1..(n + 1) PROVE Fits(g[i - 1], v[i]) /\ g[i] = SymDone(g[i - 1], v[i])
    <2>1. CASE i = n + 1
      <3>1. i - 1 = n /\ n \in 0..n
        BY <1>1, <2>1
      <3>2. g[i - 1] = SymsOf(t) /\ v[i] = e /\ g[i] = SymsOf(new)
        BY <1>2, <1>3, <1>6, <2>1, <3>1
      <3> QED BY <3>2
    <2>2. CASE i # n + 1
      <3>1. i \in 1..n /\ i \in 0..n /\ i - 1 \in 0..n /\ i \in 1..(n + m) /\ i <= n
        BY <1>1, <2>2
      <3>2. LogAt(u, r, i) = u[i]
        BY <3>1 DEF LogAt, n
      <3>3. g[i - 1] = h[i - 1] /\ g[i] = h[i] /\ v[i] = u[i]
        BY <1>2, <1>6, <3>1
      <3> QED BY <1>4, <3>1, <3>2, <3>3
    <2> QED BY <2>1, <2>2
  <1>9. Chain(g, v, <<>>)
    <2>1. Len(v) + Len(<<>>) = n + 1
      BY <1>1, <1>2
    <2> QED BY <1>5, <1>7, <1>8, <2>1 DEF Chain
  <1>10. g[0] = b /\ g[Len(v)] = SymsOf(new)
    BY <1>1, <1>2, <1>3, <1>6
  <1> QED BY <1>9, <1>10 DEF History, v

\* Undoing and doing again move along the same chain.
LEMMA StepBack ==
    ASSUME NEW u \in Seq(Entry), NEW r \in Seq(Entry), NEW b, NEW t \in Seq(Char), u # <<>>,
           History(t, u, r, b)
    PROVE  /\ Fits(SymsOf(t), Inverted(Last(u)))
           /\ \A new : SymsOf(new) = SymDone(SymsOf(t), Inverted(Last(u)))
                       => History(new, Front(u), Append(r, Last(u)), b)
  <1> DEFINE n == Len(u)
             m == Len(r)
             e == Last(u)
             v == Front(u)
             s == Append(r, e)
  <1>1. n \in Nat \ {0} /\ m \in Nat /\ e \in Entry /\ e = u[n]
        /\ v \in Seq(Entry) /\ Len(v) = n - 1 /\ \A i \in 1..(n - 1) : v[i] = u[i]
    BY LastIs, LenProperties
  <1>2. s \in Seq(Entry) /\ Len(s) = m + 1 /\ (\A i \in 1..m : s[i] = r[i]) /\ s[m + 1] = e
    BY <1>1, AppendProperties
  <1>3. PICK h : Chain(h, u, r) /\ h[0] = b /\ h[n] = SymsOf(t)
    BY DEF History
  <1> HIDE DEF n, m, e, v, s
  <1>4. h \in [0..(n + m) -> Seq(Symbols)]
        /\ \A i \in 1..(n + m) : Fits(h[i - 1], LogAt(u, r, i)) /\ h[i] = SymDone(h[i - 1], LogAt(u, r, i))
    BY <1>3 DEF Chain, n, m
  <1>5. Fits(h[n - 1], e) /\ h[n] = SymDone(h[n - 1], e) /\ h[n - 1] \in Seq(Symbols)
    <2>1. n \in 1..(n + m) /\ n - 1 \in 0..(n + m)
      BY <1>1
    <2>2. LogAt(u, r, n) = e
      BY <1>1 DEF LogAt, n
    <2> QED BY <1>4, <2>1, <2>2
  <1>6. Fits(SymsOf(t), Inverted(e)) /\ SymDone(SymsOf(t), Inverted(e)) = h[n - 1]
    BY <1>1, <1>3, <1>5, Reversible
  <1>7. ASSUME NEW i \in 1..(n + m) PROVE LogAt(v, s, i) = LogAt(u, r, i)
    <2>1. Len(v) + Len(s) + 1 - i = n + m + 1 - i
      BY <1>1, <1>2
    <2>2. CASE i < n
      <3>1. i <= Len(v) /\ i <= Len(u) /\ i \in 1..(n - 1)
        BY <1>1, <2>2 DEF n
      <3> QED BY <1>1, <3>1 DEF LogAt
    <2>3. CASE i = n
      <3>1. ~(i <= Len(v)) /\ i <= Len(u) /\ n + m + 1 - i = m + 1
        BY <1>1, <2>3 DEF n
      <3>2. LogAt(v, s, i) = s[m + 1]
        BY <2>1, <3>1 DEF LogAt
      <3> QED BY <1>1, <1>2, <2>3, <3>1, <3>2 DEF LogAt
    <2>4. CASE i > n
      <3> DEFINE k == n + m + 1 - i
      <3>1. ~(i <= Len(v)) /\ ~(i <= n) /\ k \in 1..m
        BY <1>1, <2>4
      <3>2. LogAt(v, s, i) = s[k]
        BY <2>1, <3>1 DEF LogAt
      <3>3. LogAt(u, r, i) = r[k]
        BY <3>1 DEF LogAt, n, m
      <3> QED BY <1>2, <3>1, <3>2, <3>3
    <2> QED BY <1>1, <2>2, <2>3, <2>4
  <1>8. Chain(h, v, s)
    <2>1. Len(v) + Len(s) = n + m
      BY <1>1, <1>2
    <2> QED BY <1>4, <1>7, <2>1 DEF Chain
  <1>9. ASSUME NEW new, SymsOf(new) = SymDone(SymsOf(t), Inverted(e)) PROVE History(new, v, s, b)
    <2>1. h[Len(v)] = SymsOf(new)
      BY <1>1, <1>6, <1>9
    <2> QED BY <1>3, <1>8, <2>1 DEF History
  <1> QED BY <1>6, <1>9 DEF e, v, s

LEMMA StepForth ==
    ASSUME NEW u \in Seq(Entry), NEW r \in Seq(Entry), NEW b, NEW t \in Seq(Char), r # <<>>,
           History(t, u, r, b)
    PROVE  /\ Fits(SymsOf(t), Last(r))
           /\ \A new : SymsOf(new) = SymDone(SymsOf(t), Last(r))
                       => History(new, Append(u, Last(r)), Front(r), b)
  <1> DEFINE n == Len(u)
             m == Len(r)
             e == Last(r)
             v == Append(u, e)
             s == Front(r)
  <1>1. m \in Nat \ {0} /\ n \in Nat /\ e \in Entry /\ e = r[m]
        /\ s \in Seq(Entry) /\ Len(s) = m - 1 /\ \A i \in 1..(m - 1) : s[i] = r[i]
    BY LastIs, LenProperties
  <1>2. v \in Seq(Entry) /\ Len(v) = n + 1 /\ (\A i \in 1..n : v[i] = u[i]) /\ v[n + 1] = e
    BY <1>1, AppendProperties
  <1>3. PICK h : Chain(h, u, r) /\ h[0] = b /\ h[n] = SymsOf(t)
    BY DEF History
  <1> HIDE DEF n, m, e, v, s
  <1>4. h \in [0..(n + m) -> Seq(Symbols)]
        /\ \A i \in 1..(n + m) : Fits(h[i - 1], LogAt(u, r, i)) /\ h[i] = SymDone(h[i - 1], LogAt(u, r, i))
    BY <1>3 DEF Chain, n, m
  <1>5. Fits(SymsOf(t), e) /\ h[n + 1] = SymDone(SymsOf(t), e)
    <2>1. n + 1 \in 1..(n + m) /\ (n + 1) - 1 = n /\ ~(n + 1 <= n) /\ n + m + 1 - (n + 1) = m
      BY <1>1
    <2>2. LogAt(u, r, n + 1) = e
      BY <1>1, <2>1 DEF LogAt, n, m
    <2> QED BY <1>3, <1>4, <2>1, <2>2
  <1>7. ASSUME NEW i \in 1..(n + m) PROVE LogAt(v, s, i) = LogAt(u, r, i)
    <2>1. Len(v) + Len(s) + 1 - i = n + m + 1 - i
      BY <1>1, <1>2
    <2>2. CASE i <= n
      <3>1. i <= Len(v) /\ i <= Len(u) /\ i \in 1..n
        BY <1>1, <1>2, <2>2 DEF n
      <3> QED BY <1>2, <3>1 DEF LogAt
    <2>3. CASE i = n + 1
      <3>1. i <= Len(v) /\ ~(i <= Len(u)) /\ n + m + 1 - i = m
        BY <1>1, <1>2, <2>3 DEF n
      <3>2. LogAt(v, s, i) = e
        BY <1>2, <2>3, <3>1 DEF LogAt
      <3>3. LogAt(u, r, i) = r[m]
        BY <3>1 DEF LogAt, n, m
      <3> QED BY <1>1, <3>2, <3>3
    <2>4. CASE i > n + 1
      <3> DEFINE k == n + m + 1 - i
      <3>1. ~(i <= Len(v)) /\ ~(i <= n) /\ k \in 1..(m - 1)
        BY <1>1, <1>2, <2>4
      <3>2. LogAt(v, s, i) = s[k]
        BY <2>1, <3>1 DEF LogAt
      <3>3. LogAt(u, r, i) = r[k]
        BY <3>1 DEF LogAt, n, m
      <3> QED BY <1>1, <3>1, <3>2, <3>3
    <2> QED BY <1>1, <2>2, <2>3, <2>4
  <1>8. Chain(h, v, s)
    <2>1. Len(v) + Len(s) = n + m
      BY <1>1, <1>2
    <2> QED BY <1>4, <1>7, <2>1 DEF Chain
  <1>9. ASSUME NEW new, SymsOf(new) = SymDone(SymsOf(t), e) PROVE History(new, v, s, b)
    <2>1. h[Len(v)] = SymsOf(new)
      BY <1>2, <1>5, <1>9
    <2> QED BY <1>3, <1>8, <2>1 DEF History
  <1> QED BY <1>5, <1>9 DEF e, v, s

Undoing(f, t, u) ==
    f = [n \in 0..Len(u) |-> IF n = 0 THEN t ELSE Done(f[n - 1], Inverted(u[Len(u) + 1 - n]))]

LEMMA UndoneAll ==
    ASSUME NEW t \in Seq(Char), NEW u \in Seq(Entry), NEW r \in Seq(Entry), NEW b, History(t, u, r, b)
    PROVE  SymsOf((CHOOSE f : Undoing(f, t, u))[Len(u)]) = b
  <1> DEFINE n == Len(u)
             m == Len(r)
             L == Seq(Char)
             back == [i \in 1..n |-> Inverted(u[n + 1 - i])]
             step == [i \in 1..n |-> [x \in L |-> IF Done(x, back[i]) \in L THEN Done(x, back[i]) ELSE <<>>]]
  <1>1. n \in Nat /\ m \in Nat /\ <<>> \in L /\ \A i \in 1..n : u[i] \in Entry
    BY LenProperties, ElementOfSeq, EmptySeq
  <1>2. PICK h : Chain(h, u, r) /\ h[0] = b /\ h[n] = SymsOf(t)
    BY DEF History
  <1>3. h \in [0..(n + m) -> Seq(Symbols)]
        /\ \A i \in 1..(n + m) : Fits(h[i - 1], LogAt(u, r, i)) /\ h[i] = SymDone(h[i - 1], LogAt(u, r, i))
    BY <1>2 DEF Chain
  <1>4. ASSUME NEW i \in 1..n
        PROVE  /\ Fits(h[i], Inverted(u[i])) /\ SymDone(h[i], Inverted(u[i])) = h[i - 1]
               /\ Inverted(u[i]) \in Entry
    <2>1. i \in 1..(n + m) /\ i - 1 \in 0..(n + m) /\ i <= Len(u)
      BY <1>1
    <2>2. LogAt(u, r, i) = u[i]
      BY <2>1 DEF LogAt
    <2>3. h[i - 1] \in Seq(Symbols) /\ Fits(h[i - 1], u[i]) /\ h[i] = SymDone(h[i - 1], u[i])
      BY <1>3, <2>1, <2>2
    <2>4. u[i] \in Entry
      BY <1>1
    <2> QED BY <2>3, <2>4, Reversible, InvertedIs
  <1>5. step \in [1..n -> [L -> L]]
    BY <1>1
  <1>6. \A i \in 1..n, x \in L : step[i][x] = IF Done(x, back[i]) \in L THEN Done(x, back[i]) ELSE <<>>
    OBVIOUS
  <1>7. \A i \in 1..n : back[i] = Inverted(u[n + 1 - i])
    OBVIOUS
  <1> HIDE DEF step, back, n, m, L
  <1>8. PICK f \in [0..n -> L] : f[0] = t /\ \A i \in 1..n : f[i] = step[i][f[i - 1]]
    <2>1. t \in L
      BY DEF L
    <2>2. \E f : Loop(f, L, t, n, step)
      BY <1>1, <1>5, <2>1, Rounds
    <2> QED BY <2>2 DEF Loop
  <1> DEFINE A == {i \in 0..n : SymsOf(f[i]) = h[n - i] /\ (i # 0 => f[i] = Done(f[i - 1], back[i]))}
  <1>9. 0 \in A
    BY <1>1, <1>2, <1>8
  <1>10. ASSUME NEW i \in 1..n, i - 1 \in A PROVE i \in A
    <2> DEFINE k == n + 1 - i
    <2>1. k \in 1..n /\ k - 1 = n - i /\ n - (i - 1) = k /\ i - 1 \in 0..n /\ i \in 0..n
      BY <1>1
    <2>2. f[i - 1] \in L /\ SymsOf(f[i - 1]) = h[k] /\ back[i] = Inverted(u[k])
      BY <1>7, <1>8, <1>10, <2>1
    <2> HIDE DEF k
    <2>3. Fits(h[k], back[i]) /\ SymDone(h[k], back[i]) = h[k - 1] /\ back[i] \in Entry
      BY <1>4, <2>1, <2>2
    <2>4. Done(f[i - 1], back[i]) \in L /\ SymsOf(Done(f[i - 1], back[i])) = h[k - 1]
      BY <2>2, <2>3, DoneIs DEF L
    <2>5. f[i] = Done(f[i - 1], back[i])
      BY <1>6, <1>8, <2>2, <2>4
    <2> QED BY <2>1, <2>4, <2>5
  <1>11. 0..n \subseteq A
    <2> HIDE DEF A
    <2> QED BY <1>1, <1>9, <1>10, UpTo
  <1>12. \A i \in 1..n : f[i] = Done(f[i - 1], Inverted(u[n + 1 - i]))
    <2> SUFFICES ASSUME NEW i \in 1..n PROVE f[i] = Done(f[i - 1], back[i])
      BY <1>7
    <2>1. i \in 0..n /\ i # 0
      BY <1>1
    <2> QED BY <1>11, <2>1
  <1>13. SymsOf(f[n]) = b
    <2>1. n \in A /\ n - n = 0
      BY <1>1, <1>11
    <2> QED BY <1>2, <2>1
  <1>14. Undoing(f, t, u)
    <2>1. \A i \in 0..n : f[i] = IF i = 0 THEN t ELSE Done(f[i - 1], Inverted(u[n + 1 - i]))
      BY <1>1, <1>8, <1>12
    <2>2. f = [i \in 0..n |-> f[i]]
      OBVIOUS
    <2> QED BY <2>1, <2>2 DEF Undoing, n
  <1> DEFINE g == CHOOSE x : Undoing(x, t, u)
  <1>15. Undoing(g, t, u)
    BY <1>14
  <1> HIDE DEF g
  <1>16. \A i \in 0..n : g[i] = IF i = 0 THEN t ELSE Done(g[i - 1], Inverted(u[n + 1 - i]))
    BY <1>15 DEF Undoing, n
  <1>17. Same(g, f, n)
    <2>1. InStep(g, f, n)
      BY <1>1, <1>8, <1>12, <1>16 DEF InStep
    <2> QED BY <1>1, <2>1, SameRounds
  <1>18. g[n] = f[n]
    BY <1>1, <1>17 DEF Same
  <1> QED BY <1>13, <1>18 DEF g, n

-----------------------------------------------------------------------------
(* The steps.                                                              *)

\* Every entry of the history leads from the text before it to the text after it.
IInv == TypeOK /\ History(text, undo, redo, base)

LEMMA InitIInv == Init => IInv /\ CleanReadsBack
  <1> SUFFICES ASSUME Init PROVE IInv /\ CleanReadsBack
    OBVIOUS
  <1>1. <<>> \in Seq(Symbols) /\ <<>> \in Seq(Entry)
    OBVIOUS
  <1>2. file \in Seq(Symbols)
    BY <1>1, TextAssumption DEF Init
  <1>3. PICK user \in Legacy \cup {<<>>} :
          \/ user = file /\ text = Decode(file) /\ unsaved = FALSE
          \/ file = <<>> /\ text = Decode(user) /\ unsaved = TRUE
    BY DEF Init
  <1>4. user \in Seq(Symbols) /\ text = Decode(user) /\ unsaved \in BOOLEAN
        /\ (~unsaved => text = Decode(file))
    BY <1>1, <1>3, TextAssumption
  <1>5. text \in Seq(Char)
    BY <1>4, DecodeType
  <1>6. base \in Seq(Symbols) /\ base = SymsOf(text)
    BY <1>5, SymsOfIs DEF Init
  <1>7. failed \in BOOLEAN /\ lock \in BOOLEAN /\ editable \in BOOLEAN /\ (lock \/ editable)
        /\ undo = <<>> /\ redo = <<>>
    BY DEF Init
  <1>8. TypeOK
    BY <1>1, <1>2, <1>4, <1>5, <1>6, <1>7 DEF TypeOK
  <1>9. History(text, undo, redo, base)
    BY <1>5, <1>6, <1>7, Forgotten
  <1>10. CleanReadsBack
    BY <1>4 DEF CleanReadsBack
  <1> QED BY <1>8, <1>9, <1>10 DEF IInv

\* An edit leaves the file, the lock and what was loaded alone.
LEMMA EditKept ==
    ASSUME IInv, Changed, text' \in Seq(Char), undo' \in Seq(Entry), redo' \in Seq(Entry),
           History(text', undo', redo', base)
    PROVE  IInv'
  <1>1. base' = base /\ file' = file /\ failed' = failed /\ unsaved' = TRUE /\ lock' = lock /\ editable' = editable
    BY DEF Changed, lockVars
  <1>2. TypeOK'
    BY <1>1 DEF IInv, TypeOK
  <1> QED BY <1>1, <1>2 DEF IInv

LEMMA RecordedEdit ==
    ASSUME IInv, Changed, NEW op \in {"ins", "del"}, NEW i \in 1..(MaxLen + 1), NEW syms \in Seq(Symbols),
           Record(op, i, syms), text' \in Seq(Char),
           Fits(SymsOf(text), [op |-> op, at |-> i, syms |-> syms]),
           SymsOf(text') = SymDone(SymsOf(text), [op |-> op, at |-> i, syms |-> syms])
    PROVE  IInv'
  <1> DEFINE e == [op |-> op, at |-> i, syms |-> syms]
  <1>1. e \in Entry
    BY DEF Entry
  <1>2. undo' = Append(undo, e) /\ redo' = <<>>
    BY DEF Record
  <1>3. text \in Seq(Char) /\ undo \in Seq(Entry) /\ redo \in Seq(Entry) /\ History(text, undo, redo, base)
    BY DEF IInv, TypeOK
  <1>4. Fits(SymsOf(text), e) /\ SymsOf(text') = SymDone(SymsOf(text), e)
    OBVIOUS
  <1> HIDE DEF e
  <1>5. History(text', Append(undo, e), <<>>, base)
    BY <1>1, <1>3, <1>4, Recorded
  <1>6. undo' \in Seq(Entry) /\ redo' \in Seq(Entry)
    BY <1>1, <1>2, <1>3, AppendProperties, EmptySeq
  <1> QED BY <1>2, <1>5, <1>6, EditKept

LEMMA Inserted ==
    ASSUME IInv, NEW i \in 1..(Len(text) + 1), NEW s \in Typed, NEW tags \in SUBSET Tags, Insert(i, s, tags)
    PROVE  IInv'
  <1> DEFINE w == <<s>>
             new == Plain(w, tags)
             st == SymsOf(text)
  <1>1. text \in Seq(Char) /\ Len(text) \in Nat /\ MaxLen \in Nat /\ Len(text) < MaxLen
    BY LenProperties, TextAssumption DEF IInv, TypeOK, Insert
  <1>2. w \in Seq(Symbols)
    BY TextAssumption
  <1>3. text' = Put(text, i, new) /\ Record("ins", i, w) /\ Changed
    BY DEF Insert
  <1> HIDE DEF w
  <1>4. new \in Seq(Char) /\ SymsOf(new) = w
    BY <1>2, PlainType, SymsOfPlain
  <1> HIDE DEF new
  <1>5. text' \in Seq(Char) /\ SymsOf(text') = Put(st, i, w)
    BY <1>1, <1>3, <1>4, PutIs, SymsOfPut
  <1>6. Len(st) = Len(text) /\ st \in Seq(Symbols)
    BY <1>1, SymsOfIs
  <1> HIDE DEF st
  <1>7. Fits(st, [op |-> "ins", at |-> i, syms |-> w]) /\ SymDone(st, [op |-> "ins", at |-> i, syms |-> w]) = Put(st, i, w)
    BY <1>6 DEF Fits, SymDone
  <1>8. i \in 1..(MaxLen + 1)
    BY <1>1
  <1> QED BY <1>2, <1>3, <1>5, <1>7, <1>8, RecordedEdit DEF st

LEMMA Deleted ==
    ASSUME IInv, NEW i \in 1..(Len(text) + 1), i \in 1..(MaxLen + 1), NEW n \in Nat, i + n <= Len(text) + 1,
           Delete(i, n)
    PROVE  IInv'
  <1> DEFINE q == SubSeq(text, i, i + n - 1)
             w == SymsOf(q)
             st == SymsOf(text)
  <1>1. text \in Seq(Char)
    BY DEF IInv, TypeOK
  <1>2. text' = Cut(text, i, n) /\ Record("del", i, w) /\ Changed
    BY DEF Delete
  <1>3. q \in Seq(Char) /\ Len(q) = n
    BY <1>1, SegmentIs
  <1>4. w = SubSeq(st, i, i + n - 1) /\ SymsOf(Cut(text, i, n)) = Cut(st, i, n)
    BY <1>1, SymsOfCut
  <1> HIDE DEF q
  <1>5. w \in Seq(Symbols) /\ Len(w) = n
    BY <1>3, SymsOfIs
  <1>6. Len(st) = Len(text) /\ st \in Seq(Symbols)
    BY <1>1, SymsOfIs
  <1> HIDE DEF w, st
  <1>7. text' \in Seq(Char) /\ SymsOf(text') = Cut(st, i, n)
    BY <1>1, <1>2, <1>4, CutIs
  <1>8. Fits(st, [op |-> "del", at |-> i, syms |-> w])
    BY <1>4, <1>5, <1>6 DEF Fits
  <1>9. SymDone(st, [op |-> "del", at |-> i, syms |-> w]) = Cut(st, i, n)
    BY <1>5 DEF SymDone
  <1> QED BY <1>2, <1>5, <1>7, <1>8, <1>9, RecordedEdit DEF st

LEMMA Toggled ==
    ASSUME IInv, NEW i, NEW n, NEW tag \in Tags, Toggle(i, n, tag) PROVE IInv'
  <1> DEFINE range == i..(i + n - 1)
             tagged == \A k \in range : tag \in text[k].tags
             new(k) == IF k \notin range THEN text[k]
                       ELSE [text[k] EXCEPT !.tags = IF tagged THEN @ \ {tag} ELSE @ \cup {tag}]
  <1>1. text \in Seq(Char) /\ undo \in Seq(Entry) /\ redo \in Seq(Entry) /\ History(text, undo, redo, base)
    BY DEF IInv, TypeOK
  <1>2. DOMAIN text = 1..Len(text) /\ Len(text) \in Nat /\ \A k \in 1..Len(text) : text[k] \in Char
    BY <1>1, LenProperties, ElementOfSeq
  <1>3. text' = [k \in DOMAIN text |-> new(k)] /\ undo' = undo /\ redo' = redo /\ Changed
    BY DEF Toggle, Reformat
  <1> HIDE DEF range, tagged
  <1>4. ASSUME NEW k \in 1..Len(text) PROVE new(k) \in Char /\ new(k).sym = text[k].sym
    <2>1. text[k].sym \in Symbols /\ text[k].tags \in SUBSET Tags /\ text[k] = [sym |-> text[k].sym, tags |-> text[k].tags]
      BY <1>2 DEF Char
    <2>2. CASE k \notin range
      BY <1>2, <2>2
    <2>3. CASE k \in range
      <3> DEFINE after == IF tagged THEN text[k].tags \ {tag} ELSE text[k].tags \cup {tag}
      <3>1. after \in SUBSET Tags
        BY <2>1
      <3>2. new(k) = [text[k] EXCEPT !.tags = after]
        BY <2>3
      <3> HIDE DEF after, new
      <3> QED BY <2>1, <3>1, <3>2 DEF Char
    <2> QED BY <2>2, <2>3
  <1> HIDE DEF new
  <1>5. text' \in Seq(Char) /\ Len(text') = Len(text) /\ \A k \in 1..Len(text) : text'[k] = new(k)
    BY <1>2, <1>3, <1>4
  <1>6. SymsOf(text') = SymsOf(text)
    <2>1. /\ SymsOf(text) \in Seq(Symbols) /\ Len(SymsOf(text)) = Len(text)
          /\ \A k \in 1..Len(text) : SymsOf(text)[k] = text[k].sym
      BY <1>1, SymsOfIs
    <2>2. /\ SymsOf(text') \in Seq(Symbols) /\ Len(SymsOf(text')) = Len(text')
          /\ \A k \in 1..Len(text') : SymsOf(text')[k] = text'[k].sym
      BY <1>5, SymsOfIs
    <2>3. \A k \in 1..Len(SymsOf(text')) : SymsOf(text')[k] = SymsOf(text)[k]
      BY <1>4, <1>5, <2>1, <2>2
    <2> QED BY <1>5, <2>1, <2>2, <2>3, SeqEqual
  <1>7. History(text', undo, redo, base)
    BY <1>1, <1>6 DEF History
  <1> QED BY <1>1, <1>3, <1>5, <1>7, EditKept

LEMMA UndoStep == ASSUME IInv, Undo PROVE IInv'
  <1> DEFINE e == Last(undo)
             b == Inverted(e)
  <1>1. text \in Seq(Char) /\ undo \in Seq(Entry) /\ redo \in Seq(Entry) /\ undo # <<>>
        /\ History(text, undo, redo, base)
    BY DEF IInv, TypeOK, Undo
  <1>2. text' = Done(text, b) /\ undo' = Front(undo) /\ redo' = Append(redo, e) /\ Changed
    BY DEF Undo
  <1>3. e \in Entry /\ undo' \in Seq(Entry)
    BY <1>1, <1>2, LastIs
  <1>4. redo' \in Seq(Entry)
    BY <1>1, <1>2, <1>3, AppendProperties
  <1>5. b \in Entry
    BY <1>3, InvertedIs
  <1>6. /\ Fits(SymsOf(text), b)
        /\ \A new : SymsOf(new) = SymDone(SymsOf(text), b) => History(new, Front(undo), Append(redo, e), base)
    BY <1>1, StepBack
  <1> HIDE DEF e, b
  <1>7. text' \in Seq(Char) /\ SymsOf(text') = SymDone(SymsOf(text), b)
    BY <1>1, <1>2, <1>5, <1>6, DoneIs
  <1>8. History(text', undo', redo', base)
    BY <1>2, <1>6, <1>7
  <1> QED BY <1>2, <1>3, <1>4, <1>7, <1>8, EditKept

LEMMA RedoStep == ASSUME IInv, Redo PROVE IInv'
  <1> DEFINE e == Last(redo)
  <1>1. text \in Seq(Char) /\ undo \in Seq(Entry) /\ redo \in Seq(Entry) /\ redo # <<>>
        /\ History(text, undo, redo, base)
    BY DEF IInv, TypeOK, Redo
  <1>2. text' = Done(text, e) /\ redo' = Front(redo) /\ undo' = Append(undo, e) /\ Changed
    BY DEF Redo
  <1>3. e \in Entry /\ redo' \in Seq(Entry)
    BY <1>1, <1>2, LastIs
  <1>4. undo' \in Seq(Entry)
    BY <1>1, <1>2, <1>3, AppendProperties
  <1>5. /\ Fits(SymsOf(text), e)
        /\ \A new : SymsOf(new) = SymDone(SymsOf(text), e) => History(new, Append(undo, e), Front(redo), base)
    BY <1>1, StepForth
  <1> HIDE DEF e
  <1>6. text' \in Seq(Char) /\ SymsOf(text') = SymDone(SymsOf(text), e)
    BY <1>1, <1>2, <1>3, <1>5, DoneIs
  <1>7. History(text', undo', redo', base)
    BY <1>2, <1>5, <1>6
  <1> QED BY <1>2, <1>3, <1>4, <1>6, <1>7, EditKept

LEMMA ReloadStep == ASSUME IInv, Reload PROVE IInv' /\ text' = Decode(file')
  <1>1. file \in Seq(Symbols) /\ text' = Decode(file) /\ base' = SymsOf(text') /\ undo' = <<>> /\ redo' = <<>>
        /\ failed' = FALSE /\ unsaved' = FALSE /\ file' = file /\ lock' = lock /\ editable' = editable
    BY DEF IInv, TypeOK, Reload, LoadFrozen, lockVars
  <1>2. text' \in Seq(Char)
    BY <1>1, DecodeType
  <1>3. History(text', undo', redo', base')
    BY <1>1, <1>2, Forgotten
  <1>4. base' \in Seq(Symbols)
    BY <1>1, <1>2, SymsOfIs
  <1>5. undo' \in Seq(Entry) /\ redo' \in Seq(Entry)
    BY <1>1, EmptySeq
  <1>6. TypeOK'
    BY <1>1, <1>2, <1>4, <1>5 DEF IInv, TypeOK
  <1> QED BY <1>1, <1>3, <1>6 DEF IInv

LEMMA SaveStep ==
    ASSUME IInv, Save PROVE IInv' /\ (~unsaved' => text' = text /\ file' = Encode(text))
  <1>1. PICK committed \in BOOLEAN :
          file' = (IF committed THEN Encode(text) ELSE file) /\ unsaved' = ~committed
    BY DEF Save
  <1>2. UNCHANGED <<text, failed, undo, redo, lockVars, base>>
    BY DEF Save
  <1>3. Encode(text) \in Seq(Symbols)
    BY MarkupReadsBack DEF IInv, TypeOK
  <1>4. file' \in Seq(Symbols) /\ unsaved' \in BOOLEAN
    BY <1>1, <1>3 DEF IInv, TypeOK
  <1>5. TypeOK'
    BY <1>2, <1>4 DEF IInv, TypeOK, lockVars
  <1>6. History(text, undo, redo, base)'
    BY <1>2 DEF IInv
  <1>7. ~unsaved' => committed
    BY <1>1
  <1> QED BY <1>1, <1>2, <1>5, <1>6, <1>7 DEF IInv

\* The lock, and a reload that fails, leave the text and its history alone.
LEMMA OtherStep ==
    ASSUME IInv, ReloadFails \/ ToggleLock \/ Unlock \/ FocusLeave
    PROVE  IInv' /\ text' = text /\ file' = file /\ unsaved' = unsaved /\ (failed' \/ failed' = failed)
  <1>1. text' = text /\ file' = file /\ unsaved' = unsaved /\ undo' = undo /\ redo' = redo /\ base' = base
    BY DEF ReloadFails, ToggleLock, Unlock, FocusLeave
  <1>2. failed' \in BOOLEAN /\ (failed' \/ failed' = failed)
    BY DEF IInv, TypeOK, ReloadFails, ToggleLock, Unlock, FocusLeave
  <1>3. lock' \in BOOLEAN /\ editable' \in BOOLEAN /\ (lock' \/ editable')
    BY DEF IInv, TypeOK, ReloadFails, ToggleLock, Unlock, FocusLeave, lockVars
  <1>4. TypeOK'
    BY <1>1, <1>2, <1>3 DEF IInv, TypeOK
  <1>5. History(text, undo, redo, base)'
    BY <1>1 DEF IInv
  <1> QED BY <1>1, <1>2, <1>4, <1>5 DEF IInv

\* The edits of Next.
Editing ==
    \/ \E i \in 1..(Len(text) + 1), s \in Typed : Type(i, s) \/ PasteMenu(i, s)
    \/ \E r \in Ranges : r[2] > 0 /\ (Erase(r[1], r[2]) \/ CutMenu(r[1], r[2]))
    \/ \E r \in Ranges, tag \in Tags : Toggle(r[1], r[2], tag)
    \/ Clear \/ Undo \/ Redo

LEMMA EditStep == ASSUME IInv, Editing PROVE IInv' /\ unsaved' = TRUE
  <1>1. text \in Seq(Char) /\ Len(text) \in Nat /\ MaxLen \in Nat
    BY LenProperties, TextAssumption DEF IInv, TypeOK
  <1>2. ASSUME NEW i \in 1..(Len(text) + 1), NEW s \in Typed, Type(i, s) \/ PasteMenu(i, s)
        PROVE  IInv' /\ unsaved' = TRUE
    <2>1. \E tags \in SUBSET Tags : Insert(i, s, tags)
      <3>1. Between(text, i) \in SUBSET Tags
        BY <1>1, TagsAtType DEF Between
      <3> QED BY <1>2, <3>1 DEF Type, PasteMenu
    <2> QED BY <2>1, Inserted DEF Insert, Changed
  <1>3. ASSUME NEW r \in Ranges, r[2] > 0 /\ (Erase(r[1], r[2]) \/ CutMenu(r[1], r[2]))
        PROVE  IInv' /\ unsaved' = TRUE
    <2>1. r[1] \in 1..(MaxLen + 1) /\ r[2] \in 0..MaxLen /\ r[1] + r[2] <= Len(text) + 1
      BY DEF Ranges
    <2>2. r[1] \in 1..(Len(text) + 1) /\ r[2] \in Nat
      BY <1>1, <2>1
    <2>3. Delete(r[1], r[2])
      BY <1>3 DEF Erase, CutMenu
    <2> QED BY <2>1, <2>2, <2>3, Deleted DEF Delete, Changed
  <1>4. ASSUME NEW r \in Ranges, NEW tag \in Tags, Toggle(r[1], r[2], tag) PROVE IInv' /\ unsaved' = TRUE
    BY <1>4, Toggled DEF Toggle, Changed
  <1>5. ASSUME Clear PROVE IInv' /\ unsaved' = TRUE
    <2>1. Delete(1, Len(text)) /\ 1 \in 1..(Len(text) + 1) /\ 1 \in 1..(MaxLen + 1) /\ 1 + Len(text) <= Len(text) + 1
      BY <1>1, <1>5 DEF Clear
    <2> QED BY <1>1, <2>1, Deleted DEF Delete, Changed
  <1>6. ASSUME Undo PROVE IInv' /\ unsaved' = TRUE
    BY <1>6, UndoStep DEF Undo, Changed
  <1>7. ASSUME Redo PROVE IInv' /\ unsaved' = TRUE
    BY <1>7, RedoStep DEF Redo, Changed
  <1> QED BY <1>2, <1>3, <1>4, <1>5, <1>6, <1>7 DEF Editing

LEMMA NextIs == Next => Editing \/ Save \/ Reload \/ ReloadFails \/ ToggleLock \/ Unlock \/ FocusLeave
  BY DEF Next, Editing

LEMMA StutterStep == ASSUME IInv, UNCHANGED vars PROVE IInv'
  <1>1. /\ text' = text /\ file' = file /\ unsaved' = unsaved /\ failed' = failed
        /\ undo' = undo /\ redo' = redo /\ lock' = lock /\ editable' = editable /\ base' = base
    BY DEF vars, lockVars
  <1>2. TypeOK'
    BY <1>1 DEF IInv, TypeOK
  <1> QED BY <1>1, <1>2 DEF IInv

LEMMA StepIInv == IInv /\ [Next]_vars => IInv'
  <1> SUFFICES ASSUME IInv, [Next]_vars PROVE IInv'
    OBVIOUS
  <1>1. CASE UNCHANGED vars
    BY <1>1, StutterStep
  <1>2. CASE Next
    BY <1>2, NextIs, EditStep, SaveStep, ReloadStep, OtherStep
  <1> QED BY <1>1, <1>2

LEMMA StepClean == IInv /\ CleanReadsBack /\ [Next]_vars => CleanReadsBack'
  <1> SUFFICES ASSUME IInv, CleanReadsBack, [Next]_vars PROVE CleanReadsBack'
    OBVIOUS
  <1>1. CASE UNCHANGED vars
    BY <1>1 DEF CleanReadsBack, vars
  <1>2. CASE Editing
    BY <1>2, EditStep DEF CleanReadsBack
  <1>3. CASE Save
    <2>1. Decode(Encode(text)) = text
      BY MarkupReadsBack DEF IInv, TypeOK
    <2> QED BY <1>3, <2>1, SaveStep DEF CleanReadsBack
  <1>4. CASE Reload
    BY <1>4, ReloadStep DEF CleanReadsBack
  <1>5. CASE ReloadFails \/ ToggleLock \/ Unlock \/ FocusLeave
    BY <1>5, OtherStep DEF CleanReadsBack
  <1> QED BY <1>1, <1>2, <1>3, <1>4, <1>5, NextIs

LEMMA UndoEnds == IInv => UndoEndsAtLoad
  <1> SUFFICES ASSUME IInv PROVE UndoEndsAtLoad
    OBVIOUS
  <1>1. SymsOf((CHOOSE f : Undoing(f, text, undo))[Len(undo)]) = base
    BY UndoneAll DEF IInv, TypeOK
  <1> QED BY <1>1 DEF UndoEndsAtLoad, Undoing

-----------------------------------------------------------------------------
\* Of every reachable state: its types, and a history whose entries lead one after another
\* from the characters as they were loaded to those on screen, and on through what was
\* undone.
THEOREM Invariant == Spec => []IInv
  <1>1. Init => IInv
    BY InitIInv
  <1> QED BY <1>1, StepIInv, PTL DEF Spec

\* The variables keep their types: what is undone or done again is always an edit of the
\* text as it is then, or the text would leave its type.
THEOREM TypeCorrect == Spec => []TypeOK
  <1>1. IInv => TypeOK
    BY DEF IInv
  <1> QED BY <1>1, Invariant, PTL

\* Undoing everything ends at the text as it was loaded (xpad_text_buffer_freeze_undo).
THEOREM UndoAlwaysEndsAtLoad == Spec => []UndoEndsAtLoad
  BY Invariant, UndoEnds, PTL

\* A note that does not count as unsaved reads back from its file as it is on screen
\* (xpad_pad_save_content, xpad_pad_load_content).
THEOREM CleanAlwaysReadsBack == Spec => []CleanReadsBack
  <1>1. Init => IInv /\ CleanReadsBack
    BY InitIInv
  <1> QED BY <1>1, StepIInv, StepClean, PTL DEF Spec

=============================================================================
