----------------------------- MODULE Text_proofs -----------------------------
(***************************************************************************)
(* Proofs about Text, for texts of any length: words of a command line     *)
(* arrive, however they are quoted, and rows of a table come back.         *)
(*                                                                         *)
(* The loops of the parsers are folds.  A fold has a trace, and what holds *)
(* along the trace is shown by taking the least place where it would not.  *)
(* A text that was split, quoted or joined is followed through the scan    *)
(* piece by piece: what a piece adds, and in which state it leaves the     *)
(* scan.                                                                   *)
(***************************************************************************)
EXTENDS Text, SequenceTheorems, WellFoundedInduction, TLAPS

----------------------------------------------------------------------------
(* Induction, and what a fold comes to.                                    *)
(*                                                                         *)
(* MapThenFoldSet is a CHOOSE of a function on the sets of indices: a      *)
(* function that is defined from each set's greatest index down exists,    *)
(* the chosen one has its values, and those on 1 .. k, for k from 0 up,    *)
(* are the states of the loop (its trace).  Induction over the naturals    *)
(* is WFMin of a set of them.                                              *)

\* A set that has 0 and the successors of its members has all naturals.
LEMMA Induction ==
    ASSUME NEW S, 0 \in S, \A n \in Nat : n \in S => n + 1 \in S
    PROVE  \A n \in Nat : n \in S
<1> DEFINE T == {n \in Nat : n \notin S}
           R == {p \in Nat \X Nat : p[1] < p[2]}
<1> SUFFICES ASSUME T # {} PROVE FALSE
    OBVIOUS
<1>1. IsWellFoundedOn(R, Nat)
    BY NatLessThanWellFounded DEF OpToRel
<1>2. T \subseteq Nat /\ T # {}
    OBVIOUS
<1> HIDE DEF R
<1>3. PICK x \in T : \A y \in T : <<y, x>> \notin R
    BY <1>1, <1>2, WFMin
<1>4. \A y \in T : ~ (y < x)
    BY <1>3 DEF R
<1>5. x # 0 /\ x - 1 \in Nat
    OBVIOUS
<1>6. x - 1 \notin T
    BY <1>4, <1>5
<1> QED
    BY <1>5, <1>6

\* The greatest of some numbers up to n.
LEMMA MaxUpTo ==
    ASSUME NEW n \in Nat, NEW S \in SUBSET (1 .. n), S # {}
    PROVE  Max(S) \in S /\ \A x \in S : x <= Max(S)
<1> DEFINE HasMax(T) == \E m \in T : \A x \in T : x <= m
           Reached == {k \in Nat : \A T \in SUBSET (1 .. k) : T # {} => HasMax(T)}
<1>1. 0 \in Reached
    <2>1. 1 .. 0 = {}
        OBVIOUS
    <2> HIDE DEF HasMax
    <2> QED
        BY <2>1
<1>2. ASSUME NEW k \in Nat, k \in Reached PROVE k + 1 \in Reached
    <2>1. SUFFICES ASSUME NEW T \in SUBSET (1 .. k + 1), T # {} PROVE HasMax(T)
        OBVIOUS
    <2>2. CASE k + 1 \in T
        BY <2>2
    <2>3. CASE k + 1 \notin T
        <3>1. T \in SUBSET (1 .. k)
            BY <2>3
        <3> QED
            BY <3>1, <2>1, <1>2
    <2> QED
        BY <2>2, <2>3
<1> HIDE DEF Reached
<1>3. n \in Reached
    BY <1>1, <1>2, Induction
<1>4. HasMax(S)
    BY <1>3 DEF Reached
<1>5. \E m \in S : \A x \in S : m >= x
    BY <1>4
<1>6. Max(S) \in S /\ \A x \in S : Max(S) >= x
    BY <1>5 DEF Max
<1> QED
    BY <1>6

\* What a fold over n steps is defined with: it goes from a set of steps to the set
\* without the greatest.  step[k] is what the k-th step does to a value.
Folding(g, base, n, step) ==
    \A S \in SUBSET (1 .. n) : g[S] = IF S = {} THEN base ELSE step[Max(S)][g[S \ {Max(S)}]]

\* The values after each of its steps.
Trace(h, base, n, step) ==
    /\ h[0] = base
    /\ \A k \in 1 .. n : h[k] = step[k][h[k - 1]]

\* There is such a function, of the type of the steps.
LEMMA FoldExists ==
    ASSUME NEW V, NEW base \in V, NEW n \in Nat, NEW step \in [1 .. n -> [V -> V]]
    PROVE  \E g \in [SUBSET (1 .. n) -> V] : Folding(g, base, n, step)
<1> DEFINE Value(g, S) == IF S = {} THEN base ELSE step[Max(S)][g[S \ {Max(S)}]]
           Good(k) == \E g \in [SUBSET (1 .. k) -> V] : \A S \in SUBSET (1 .. k) : g[S] = Value(g, S)
           Reached == {k \in Nat : k <= n => Good(k)}
<1>1. 0 \in Reached
    <2> DEFINE g == [S \in SUBSET (1 .. 0) |-> base]
    <2>1. g \in [SUBSET (1 .. 0) -> V]
        OBVIOUS
    <2>2. ASSUME NEW S \in SUBSET (1 .. 0) PROVE g[S] = Value(g, S)
        <3>1. S = {}
            OBVIOUS
        <3> QED
            BY <3>1
    <2>3. Good(0)
        <3> HIDE DEF g, Value
        <3> QED
            BY <2>1, <2>2
    <2> QED
        BY <2>3
<1>2. ASSUME NEW k \in Nat, k \in Reached, k + 1 <= n PROVE Good(k + 1)
    <2>1. PICK f \in [SUBSET (1 .. k) -> V] : \A S \in SUBSET (1 .. k) : f[S] = Value(f, S)
        <3>1. Good(k)
            <4> HIDE DEF Good
            <4> QED
                BY <1>2
        <3> HIDE DEF Value, Reached
        <3> QED
            BY <3>1
    <2> DEFINE g == [S \in SUBSET (1 .. k + 1) |->
                       IF k + 1 \in S THEN step[k + 1][f[S \ {k + 1}]] ELSE f[S]]
    <2>2. ASSUME NEW S \in SUBSET (1 .. k + 1)
          PROVE  g[S] \in V /\ g[S] = Value(g, S)
        <3>1. CASE k + 1 \in S
            <4>1. S \ {k + 1} \in SUBSET (1 .. k) /\ k + 1 \in 1 .. n
                BY <1>2
            <4> DEFINE m == k + 1
            <4>2. Max(S) = k + 1
                <5>1. m \in Nat /\ S \in SUBSET (1 .. m) /\ S # {} /\ m \in S
                    BY <3>1
                <5> HIDE DEF m, g, Reached, Good
                <5>2. Max(S) \in S /\ \A x \in S : x <= Max(S)
                    BY <5>1, MaxUpTo
                <5>3. Max(S) \in 1 .. m /\ m <= Max(S)
                    BY <5>1, <5>2
                <5>4. Max(S) = m
                    BY <5>1, <5>3
                <5> QED
                    BY <5>4 DEF m
            <4>3. S \ {k + 1} \in SUBSET (1 .. k + 1) /\ k + 1 \notin S \ {k + 1}
                OBVIOUS
            <4>4. g[S \ {k + 1}] = f[S \ {k + 1}]
                BY <4>3
            <4>5. f[S \ {k + 1}] \in V
                BY <4>1
            <4> QED
                BY <3>1, <4>1, <4>2, <4>4, <4>5
        <3>2. CASE k + 1 \notin S
            <4>1. S \in SUBSET (1 .. k)
                BY <3>2
            <4>2. g[S] = f[S]
                BY <3>2
            <4>3. f[S] \in V /\ f[S] = Value(f, S)
                BY <4>1, <2>1
            <4>4. CASE S # {}
                <5>1. Max(S) \in S
                    <6>1. k \in Nat
                        OBVIOUS
                    <6> HIDE DEF g, Reached, Good
                    <6> QED
                        BY <4>1, <4>4, <6>1, MaxUpTo
                <5>2. S \ {Max(S)} \in SUBSET (1 .. k + 1) /\ k + 1 \notin S \ {Max(S)}
                    BY <3>2
                <5>3. g[S \ {Max(S)}] = f[S \ {Max(S)}]
                    BY <5>2
                <5> QED
                    BY <4>2, <4>3, <4>4, <5>3
            <4> QED
                BY <4>2, <4>3, <4>4
        <3> QED
            BY <3>1, <3>2
    <2>3. g \in [SUBSET (1 .. k + 1) -> V]
        BY <2>2
    <2> QED
        BY <2>2, <2>3
<1>3. n \in Reached
    <2> HIDE DEF Good
    <2>1. \A k \in Nat : k \in Reached => k + 1 \in Reached
        BY <1>2
    <2> HIDE DEF Reached
    <2> QED
        BY <1>1, <2>1, Induction
<1>4. Good(n)
    <2> HIDE DEF Good
    <2> QED
        BY <1>3
<1>5. PICK g \in [SUBSET (1 .. n) -> V] : \A S \in SUBSET (1 .. n) : g[S] = Value(g, S)
    BY <1>4
<1> QED
    BY <1>5 DEF Folding

\* What a fold comes to after each of its steps.
LEMMA FoldSteps ==
    ASSUME NEW n \in Nat, NEW k \in 1 .. n
    PROVE  /\ 1 .. k \in SUBSET (1 .. n)
           /\ 1 .. k # {}
           /\ Max(1 .. k) = k
           /\ (1 .. k) \ {k} = 1 .. k - 1
<1>1. 1 .. k \in SUBSET (1 .. k) /\ 1 .. k # {} /\ k \in 1 .. k
    OBVIOUS
<1> DEFINE S == 1 .. k
<1>2. Max(S) \in S /\ \A x \in S : x <= Max(S)
    <2>1. S \in SUBSET (1 .. k) /\ S # {} /\ k \in Nat
        BY <1>1
    <2> HIDE DEF S
    <2> QED
        BY <2>1, MaxUpTo
<1>3. Max(1 .. k) = k
    BY <1>1, <1>2
<1> QED
    BY <1>3

\* A fold's function may be one of which no type is known: it is enough that it takes
\* its steps from values of the type.
Stepping(it, V, base, n, step) ==
    /\ it[{}] = base
    /\ \A S \in SUBSET (1 .. n) :
           S # {} /\ it[S \ {Max(S)}] \in V => it[S] = step[Max(S)][it[S \ {Max(S)}]]

LEMMA FoldTrace ==
    ASSUME NEW V, NEW base \in V, NEW n \in Nat, NEW step \in [1 .. n -> [V -> V]],
           NEW it, Stepping(it, V, base, n, step)
    PROVE  \E h \in [0 .. n -> V] : Trace(h, base, n, step) /\ it[1 .. n] = h[n]
<1> DEFINE h == [k \in 0 .. n |-> it[1 .. k]]
           Reached == {k \in Nat : k <= n => h[k] \in V /\ (k > 0 => h[k] = step[k][h[k - 1]])}
<1>1. h[0] = base
    <2>1. 1 .. 0 = {} /\ h[0] = it[1 .. 0]
        OBVIOUS
    <2> QED
        BY <2>1 DEF Stepping
<1>2. 0 \in Reached
    <2> HIDE DEF h
    <2> QED
        BY <1>1
<1>3. ASSUME NEW k \in Nat, k \in Reached PROVE k + 1 \in Reached
    <2>1. SUFFICES ASSUME k + 1 <= n PROVE h[k + 1] \in V /\ h[k + 1] = step[k + 1][h[k]]
        OBVIOUS
    <2>2. h[k] = it[1 .. k] /\ h[k + 1] = it[1 .. k + 1] /\ h[k] \in V
        BY <1>3, <2>1
    <2>3. /\ 1 .. k + 1 \in SUBSET (1 .. n) /\ 1 .. k + 1 # {}
          /\ Max(1 .. k + 1) = k + 1 /\ (1 .. k + 1) \ {k + 1} = 1 .. k
        <3> DEFINE m == k + 1
        <3>1. m \in 1 .. n /\ m - 1 = k
            BY <2>1
        <3> HIDE DEF m
        <3>2. /\ 1 .. m \in SUBSET (1 .. n) /\ 1 .. m # {}
              /\ Max(1 .. m) = m /\ (1 .. m) \ {m} = 1 .. m - 1
            BY <3>1, FoldSteps
        <3> QED
            BY <3>1, <3>2 DEF m
    <2> DEFINE S == 1 .. k + 1
    <2>4. S \in SUBSET (1 .. n) /\ S # {} /\ Max(S) = k + 1 /\ S \ {Max(S)} = 1 .. k
        BY <2>3
    <2>5. it[S] = step[Max(S)][it[S \ {Max(S)}]]
        <3> HIDE DEF S, h, Reached
        <3> QED
            BY <2>2, <2>4 DEF Stepping
    <2>6. h[k + 1] = step[k + 1][h[k]]
        <3>1. h[k + 1] = it[S]
            BY <2>2
        <3> HIDE DEF h, Reached, S
        <3> QED
            BY <2>2, <2>4, <2>5, <3>1
    <2>7. step[k + 1] \in [V -> V]
        BY <2>1
    <2>8. step[k + 1][h[k]] \in V
        <3> HIDE DEF h, Reached
        <3> QED
            BY <2>2, <2>7
    <2> QED
        BY <2>6, <2>8
<1> HIDE DEF Reached
<1>4. \A k \in Nat : k \in Reached
    BY <1>2, <1>3, Induction
<1> HIDE DEF h
<1>5. \A k \in 0 .. n : h[k] \in V /\ (k > 0 => h[k] = step[k][h[k - 1]])
    BY <1>4 DEF Reached
<1>6. h \in [0 .. n -> V] /\ it[1 .. n] = h[n]
    <2>1. \A k \in 0 .. n : it[1 .. k] \in V
        BY <1>5 DEF h
    <2> QED
        BY <2>1 DEF h
<1> QED
    BY <1>1, <1>5, <1>6 DEF Trace

LEMMA StepsDown ==
    ASSUME NEW n \in Nat
    PROVE  \A S \in SUBSET (1 .. n) : S # {} => Max(S) \in 1 .. n /\ S \ {Max(S)} \in SUBSET (1 .. n)
<1> TAKE S \in SUBSET (1 .. n)
<1> HAVE S # {}
<1>1. Max(S) \in S
    BY MaxUpTo
<1> QED
    BY <1>1

\* How a fold is shown to have a trace: what its function does has a type (step),
\* and a function that does it would satisfy the fold's own equation, by which the
\* fold's function (it) is chosen.
ChosenToFold(it, V, base, n, step) ==
    \A g \in [SUBSET (1 .. n) -> V] : Folding(g, base, n, step) => Stepping(it, V, base, n, step)

HasTrace(it, V, base, n, step) ==
    \E h \in [0 .. n -> V] : Trace(h, base, n, step) /\ it[1 .. n] = h[n]

LEMMA FoldHasTrace ==
    ASSUME NEW V, NEW base \in V, NEW n \in Nat, NEW step \in [1 .. n -> [V -> V]], NEW it,
           ChosenToFold(it, V, base, n, step)
    PROVE  HasTrace(it, V, base, n, step)
<1>1. PICK g \in [SUBSET (1 .. n) -> V] : Folding(g, base, n, step)
    BY FoldExists
<1>2. Stepping(it, V, base, n, step)
    BY <1>1 DEF ChosenToFold
<1> QED
    BY <1>2, FoldTrace DEF HasTrace

----------------------------------------------------------------------------
(* The scans of a command line: their types and their traces.              *)

Typable == Character \cup {Backslash}
ScanState ==
    [tokens : Seq(Seq(Typable)), current : Seq(Typable),
     single : BOOLEAN, double : BOOLEAN, escaped : BOOLEAN]
ScanStart == [tokens |-> <<>>, current |-> <<>>, single |-> FALSE, double |-> FALSE, escaped |-> FALSE]

LEMMA Scan1Type ==
    ASSUME NEW s \in ScanState, NEW ch \in Typable
    PROVE  Scan1(s, ch) \in ScanState
<1>1. s.current \in Seq(Typable) /\ s.tokens \in Seq(Seq(Typable))
    BY DEF ScanState
<1>2. Append(s.current, ch) \in Seq(Typable) /\ Append(s.tokens, s.current) \in Seq(Seq(Typable))
    BY <1>1
<1>3. EndToken(s) \in ScanState
    <2>1. <<>> \in Seq(Typable)
        OBVIOUS
    <2>2. [s EXCEPT !.tokens = Append(@, s.current), !.current = <<>>] \in ScanState
        BY <1>2, <2>1 DEF ScanState
    <2> QED
        BY <2>2 DEF EndToken
<1>4. Toggled(s, ch) \in ScanState
    BY DEF ScanState, Toggled
<1>5. [s EXCEPT !.current = Append(@, ch), !.escaped = FALSE] \in ScanState
    BY <1>2 DEF ScanState
<1>6. [s EXCEPT !.current = Append(@, ch)] \in ScanState
    BY <1>2 DEF ScanState
<1>7. [s EXCEPT !.escaped = TRUE] \in ScanState
    BY DEF ScanState
<1> QED
    BY <1>3, <1>4, <1>5, <1>6, <1>7 DEF Scan1

CutState ==
    {s \in [parts : Seq(Seq(Typable)), single : BOOLEAN, double : BOOLEAN] : s.parts # <<>>}
CutStart == [parts |-> <<<<>>>>, single |-> FALSE, double |-> FALSE]

LEMMA Cut1Type ==
    ASSUME NEW s \in CutState, NEW ch \in Typable
    PROVE  Cut1(s, ch) \in CutState
<1>1. s.parts \in Seq(Seq(Typable)) /\ s.parts # <<>> /\ Len(s.parts) \in DOMAIN s.parts
    BY DEF CutState
<1>2. CASE ch = Bar /\ ~Quoted(s)
    <2>1. Append(s.parts, <<>>) \in Seq(Seq(Typable)) /\ Append(s.parts, <<>>) # <<>>
        BY <1>1
    <2> QED
        BY <1>2, <2>1 DEF Cut1, CutState
<1>3. CASE ~(ch = Bar /\ ~Quoted(s))
    <2> DEFINE t == IF IsQuote(s, ch) THEN Toggled(s, ch) ELSE s
    <2>1. t \in CutState /\ t.parts = s.parts
        BY DEF Toggled, CutState
    <2> DEFINE parts == [s.parts EXCEPT ![Len(s.parts)] = Append(@, ch)]
    <2>2. Append(s.parts[Len(s.parts)], ch) \in Seq(Typable)
        BY <1>1
    <2>3. parts \in Seq(Seq(Typable)) /\ Len(parts) = Len(s.parts) /\ parts # <<>>
        BY <1>1, <2>2
    <2>4. Cut1(s, ch) = [t EXCEPT !.parts = parts]
        BY <1>3, <2>1 DEF Cut1, CutState
    <2> HIDE DEF t, parts
    <2> QED
        BY <2>1, <2>3, <2>4 DEF CutState
<1> QED
    BY <1>2, <1>3

\* tokenize(), character by character.
Scans(input) ==
    \E h \in [0 .. Len(input) -> ScanState] :
        /\ h[0] = ScanStart
        /\ \A k \in 1 .. Len(input) : h[k] = Scan1(h[k - 1], input[k])
        /\ Tokenize(input) = EndToken(h[Len(input)]).tokens

LEMMA TokenizeSteps ==
    ASSUME NEW input \in Seq(Typable)
    PROVE  Scans(input)
<1> DEFINE n == Len(input)
           V == ScanState
           base == ScanStart
           step == [k \in 1 .. n |-> [v \in V |-> Scan1(v, input[k])]]
           Is(g) == g = [S \in SUBSET DOMAIN input |->
                           IF S = {} THEN ScanStart ELSE Scan1(g[S \ {Max(S)}], input[Max(S)])]
           it == CHOOSE g : Is(g)
<1>1. n \in Nat /\ DOMAIN input = 1 .. n /\ base \in V
    BY DEF ScanStart, ScanState
<1>2. step \in [1 .. n -> [V -> V]]
    BY Scan1Type
<1>3. \A k \in 1 .. n, v \in V : step[k][v] = Scan1(v, input[k])
    OBVIOUS
<1>4. ASSUME NEW g \in [SUBSET (1 .. n) -> V], Folding(g, base, n, step)
      PROVE  Stepping(it, V, base, n, step)
    <2> HIDE DEF n, step, V
    <2>1. \A S \in SUBSET (1 .. n) :
              S # {} => Max(S) \in 1 .. n /\ S \ {Max(S)} \in SUBSET (1 .. n)
        BY <1>1, StepsDown
    <2>2. g[{}] = base
        BY <1>4 DEF Folding
    <2>3. ASSUME NEW S \in SUBSET (1 .. n), S # {}
          PROVE  g[S] = Scan1(g[S \ {Max(S)}], input[Max(S)])
        <3> HIDE DEF base, it, Is
        <3>1. Max(S) \in 1 .. n /\ g[S \ {Max(S)}] \in V
            BY <2>1, <2>3
        <3>2. g[S] = step[Max(S)][g[S \ {Max(S)}]]
            BY <1>4, <2>3 DEF Folding
        <3> QED
            BY <1>3, <3>1, <3>2
    <2>4. Is(g)
        BY <1>1, <2>2, <2>3
    <2>5. Is(it)
        BY <2>4
    <2> HIDE DEF it
    <2> QED
        BY <1>1, <1>3, <2>1, <2>5 DEF Stepping
<1>5. ChosenToFold(it, V, base, n, step)
    <2> HIDE DEF n, step, it, V, base, Is
    <2> QED
        BY <1>4 DEF ChosenToFold
<1>6. HasTrace(it, V, base, n, step)
    <2> HIDE DEF n, step, it, V, base, Is
    <2> QED
        BY <1>1, <1>2, <1>5, FoldHasTrace
<1>7. PICK h \in [0 .. n -> V] : Trace(h, base, n, step) /\ it[1 .. n] = h[n]
    <2> HIDE DEF n, step, it, V, base, Is
    <2> QED
        BY <1>6 DEF HasTrace
<1>8. \A k \in 1 .. n : h[k] = Scan1(h[k - 1], input[k])
    <2>1. \A k \in 1 .. n : h[k - 1] \in V
        BY <1>1
    <2>2. \A k \in 1 .. n : h[k] = step[k][h[k - 1]]
        BY <1>7 DEF Trace
    <2> HIDE DEF n, it, step, V, base
    <2> QED
        BY <1>3, <2>1, <2>2
<1>9. Tokenize(input) = EndToken(it[DOMAIN input]).tokens
    BY DEF Tokenize, ScanStart, FoldLeft, MapThenFoldSet
<1> HIDE DEF it
<1> QED
    BY <1>1, <1>7, <1>8, <1>9 DEF Trace, Scans

\* The cuts of parsePipeline(), character by character.
Cuts(input) ==
    \E h \in [0 .. Len(input) -> CutState] :
        /\ h[0] = CutStart
        /\ \A k \in 1 .. Len(input) : h[k] = Cut1(h[k - 1], input[k])
        /\ Segments(input) = h[Len(input)].parts

LEMMA SegmentsSteps ==
    ASSUME NEW input \in Seq(Typable)
    PROVE  Cuts(input)
<1> DEFINE n == Len(input)
           V == CutState
           base == CutStart
           step == [k \in 1 .. n |-> [v \in V |-> Cut1(v, input[k])]]
           Is(g) == g = [S \in SUBSET DOMAIN input |->
                           IF S = {} THEN CutStart ELSE Cut1(g[S \ {Max(S)}], input[Max(S)])]
           it == CHOOSE g : Is(g)
<1>1. n \in Nat /\ DOMAIN input = 1 .. n /\ base \in V
    BY SMTT(40) DEF CutStart, CutState
<1>2. step \in [1 .. n -> [V -> V]]
    BY Cut1Type
<1>3. \A k \in 1 .. n, v \in V : step[k][v] = Cut1(v, input[k])
    OBVIOUS
<1>4. ASSUME NEW g \in [SUBSET (1 .. n) -> V], Folding(g, base, n, step)
      PROVE  Stepping(it, V, base, n, step)
    <2> HIDE DEF n, step, V
    <2>1. \A S \in SUBSET (1 .. n) :
              S # {} => Max(S) \in 1 .. n /\ S \ {Max(S)} \in SUBSET (1 .. n)
        BY <1>1, StepsDown
    <2>2. g[{}] = base
        BY <1>4 DEF Folding
    <2>3. ASSUME NEW S \in SUBSET (1 .. n), S # {}
          PROVE  g[S] = Cut1(g[S \ {Max(S)}], input[Max(S)])
        <3> HIDE DEF base, it, Is
        <3>1. Max(S) \in 1 .. n /\ g[S \ {Max(S)}] \in V
            BY <2>1, <2>3
        <3>2. g[S] = step[Max(S)][g[S \ {Max(S)}]]
            BY <1>4, <2>3 DEF Folding
        <3> QED
            BY <1>3, <3>1, <3>2
    <2>4. Is(g)
        BY <1>1, <2>2, <2>3
    <2>5. Is(it)
        BY <2>4
    <2> HIDE DEF it
    <2> QED
        BY <1>1, <1>3, <2>1, <2>5 DEF Stepping
<1>5. ChosenToFold(it, V, base, n, step)
    <2> HIDE DEF n, step, it, V, base, Is
    <2> QED
        BY <1>4 DEF ChosenToFold
<1>6. HasTrace(it, V, base, n, step)
    <2> HIDE DEF n, step, it, V, base, Is
    <2> QED
        BY <1>1, <1>2, <1>5, FoldHasTrace
<1>7. PICK h \in [0 .. n -> V] : Trace(h, base, n, step) /\ it[1 .. n] = h[n]
    <2> HIDE DEF n, step, it, V, base, Is
    <2> QED
        BY <1>6 DEF HasTrace
<1>8. \A k \in 1 .. n : h[k] = Cut1(h[k - 1], input[k])
    <2>1. \A k \in 1 .. n : h[k - 1] \in V
        BY <1>1
    <2>2. \A k \in 1 .. n : h[k] = step[k][h[k - 1]]
        BY <1>7 DEF Trace
    <2> HIDE DEF n, it, step, V, base
    <2> QED
        BY <1>3, <2>1, <2>2
<1>9. Segments(input) = it[DOMAIN input].parts
    BY DEF Segments, CutStart, FoldLeft, MapThenFoldSet
<1> HIDE DEF it
<1> QED
    BY <1>1, <1>7, <1>8, <1>9 DEF Trace, Cuts

\* Items are kept one by one.
Keeps(A, s, kept) ==
    \E h \in [0 .. Len(s) -> Seq(A)] :
        /\ h[0] = <<>>
        /\ \A k \in 1 .. Len(s) : h[k] = IF s[k] \in kept THEN Append(h[k - 1], s[k]) ELSE h[k - 1]
        /\ Those(s, kept) = h[Len(s)]

LEMMA ThoseSteps ==
    ASSUME NEW A,
           NEW s \in Seq(A),
           NEW kept
    PROVE  Keeps(A, s, kept)
<1> DEFINE n == Len(s)
           V == Seq(A)
           base == <<>>
           step == [k \in 1 .. n |-> [v \in V |-> IF s[k] \in kept THEN Append(v, s[k]) ELSE v]]
           Is(g) == g = [S \in SUBSET DOMAIN s |->
                           IF S = {} THEN <<>> ELSE IF s[Max(S)] \in kept THEN Append(g[S \ {Max(S)}], s[Max(S)]) ELSE g[S \ {Max(S)}]]
           it == CHOOSE g : Is(g)
<1>1. n \in Nat /\ DOMAIN s = 1 .. n /\ base \in V
    OBVIOUS
<1>2. step \in [1 .. n -> [V -> V]]
    OBVIOUS
<1>3. \A k \in 1 .. n, v \in V : step[k][v] = IF s[k] \in kept THEN Append(v, s[k]) ELSE v
    OBVIOUS
<1>4. ASSUME NEW g \in [SUBSET (1 .. n) -> V], Folding(g, base, n, step)
      PROVE  Stepping(it, V, base, n, step)
    <2> HIDE DEF n, step, V
    <2>1. \A S \in SUBSET (1 .. n) :
              S # {} => Max(S) \in 1 .. n /\ S \ {Max(S)} \in SUBSET (1 .. n)
        BY <1>1, StepsDown
    <2>2. g[{}] = base
        BY <1>4 DEF Folding
    <2>3. ASSUME NEW S \in SUBSET (1 .. n), S # {}
          PROVE  g[S] = IF s[Max(S)] \in kept THEN Append(g[S \ {Max(S)}], s[Max(S)]) ELSE g[S \ {Max(S)}]
        <3> HIDE DEF base, it, Is
        <3>1. Max(S) \in 1 .. n /\ g[S \ {Max(S)}] \in V
            BY <2>1, <2>3
        <3>2. g[S] = step[Max(S)][g[S \ {Max(S)}]]
            BY <1>4, <2>3 DEF Folding
        <3> QED
            BY <1>3, <3>1, <3>2
    <2>4. Is(g)
        BY <1>1, <2>2, <2>3
    <2>5. Is(it)
        BY <2>4
    <2> HIDE DEF it
    <2> QED
        BY <1>1, <1>3, <2>1, <2>5 DEF Stepping
<1>5. ChosenToFold(it, V, base, n, step)
    <2> HIDE DEF n, step, it, V, base, Is
    <2> QED
        BY <1>4 DEF ChosenToFold
<1>6. HasTrace(it, V, base, n, step)
    <2> HIDE DEF n, step, it, V, base, Is
    <2> QED
        BY <1>1, <1>2, <1>5, FoldHasTrace
<1>7. PICK h \in [0 .. n -> V] : Trace(h, base, n, step) /\ it[1 .. n] = h[n]
    <2> HIDE DEF n, step, it, V, base, Is
    <2> QED
        BY <1>6 DEF HasTrace
<1>8. \A k \in 1 .. n : h[k] = IF s[k] \in kept THEN Append(h[k - 1], s[k]) ELSE h[k - 1]
    <2>1. \A k \in 1 .. n : h[k - 1] \in V
        BY <1>1
    <2>2. \A k \in 1 .. n : h[k] = step[k][h[k - 1]]
        BY <1>7 DEF Trace
    <2> HIDE DEF n, it, step, V, base
    <2> QED
        BY <1>3, <2>1, <2>2
<1>9. Those(s, kept) = it[DOMAIN s]
    BY DEF Those, FoldLeft, MapThenFoldSet
<1> HIDE DEF it
<1> QED
    BY <1>1, <1>7, <1>8, <1>9 DEF Trace, Keeps

\* A word is escaped character by character.
Escapes(w) ==
    \E h \in [0 .. Len(w) -> Seq(Typable)] :
        /\ h[0] = <<>>
        /\ \A k \in 1 .. Len(w) : h[k] = h[k - 1] \o <<Backslash, w[k]>>
        /\ Escaped(w) = h[Len(w)]

LEMMA EscapedSteps ==
    ASSUME NEW w \in Seq(Character)
    PROVE  Escapes(w)
<1> DEFINE n == Len(w)
           V == Seq(Typable)
           base == <<>>
           step == [k \in 1 .. n |-> [v \in V |-> v \o <<Backslash, w[k]>>]]
           Is(g) == g = [S \in SUBSET DOMAIN w |->
                           IF S = {} THEN <<>> ELSE g[S \ {Max(S)}] \o <<Backslash, w[Max(S)]>>]
           it == CHOOSE g : Is(g)
<1>1. n \in Nat /\ DOMAIN w = 1 .. n /\ base \in V
    OBVIOUS
<1>2. step \in [1 .. n -> [V -> V]]
    BY DEF Typable
<1>3. \A k \in 1 .. n, v \in V : step[k][v] = v \o <<Backslash, w[k]>>
    OBVIOUS
<1>4. ASSUME NEW g \in [SUBSET (1 .. n) -> V], Folding(g, base, n, step)
      PROVE  Stepping(it, V, base, n, step)
    <2> HIDE DEF n, step, V
    <2>1. \A S \in SUBSET (1 .. n) :
              S # {} => Max(S) \in 1 .. n /\ S \ {Max(S)} \in SUBSET (1 .. n)
        BY <1>1, StepsDown
    <2>2. g[{}] = base
        BY <1>4 DEF Folding
    <2>3. ASSUME NEW S \in SUBSET (1 .. n), S # {}
          PROVE  g[S] = g[S \ {Max(S)}] \o <<Backslash, w[Max(S)]>>
        <3> HIDE DEF base, it, Is
        <3>1. Max(S) \in 1 .. n /\ g[S \ {Max(S)}] \in V
            BY <2>1, <2>3
        <3>2. g[S] = step[Max(S)][g[S \ {Max(S)}]]
            BY <1>4, <2>3 DEF Folding
        <3> QED
            BY <1>3, <3>1, <3>2
    <2>4. Is(g)
        BY <1>1, <2>2, <2>3
    <2>5. Is(it)
        BY <2>4
    <2> HIDE DEF it
    <2> QED
        BY <1>1, <1>3, <2>1, <2>5 DEF Stepping
<1>5. ChosenToFold(it, V, base, n, step)
    <2> HIDE DEF n, step, it, V, base, Is
    <2> QED
        BY <1>4 DEF ChosenToFold
<1>6. HasTrace(it, V, base, n, step)
    <2> HIDE DEF n, step, it, V, base, Is
    <2> QED
        BY <1>1, <1>2, <1>5, FoldHasTrace
<1>7. PICK h \in [0 .. n -> V] : Trace(h, base, n, step) /\ it[1 .. n] = h[n]
    <2> HIDE DEF n, step, it, V, base, Is
    <2> QED
        BY <1>6 DEF HasTrace
<1>8. \A k \in 1 .. n : h[k] = h[k - 1] \o <<Backslash, w[k]>>
    <2>1. \A k \in 1 .. n : h[k - 1] \in V
        BY <1>1
    <2>2. \A k \in 1 .. n : h[k] = step[k][h[k - 1]]
        BY <1>7 DEF Trace
    <2> HIDE DEF n, it, step, V, base
    <2> QED
        BY <1>3, <2>1, <2>2
<1>9. Escaped(w) = it[DOMAIN w]
    BY DEF Escaped, FoldLeft, MapThenFoldSet
<1> HIDE DEF it
<1> QED
    BY <1>1, <1>7, <1>8, <1>9 DEF Trace, Escapes

----------------------------------------------------------------------------
(* A command line of one command.                                          *)

Arrived(w) ==
    <<[command |-> <<Letter>>,
       args |-> IF IsFlag(w) THEN <<>> ELSE <<w>>,
       flags |-> IF IsFlag(w) THEN <<w>> ELSE <<>>]>>

\* Sequences of one.
LEMMA One ==
    ASSUME NEW x
    PROVE  /\ <<x>> \in Seq({x}) /\ Len(<<x>>) = 1 /\ <<x>>[1] = x
           /\ DOMAIN <<x>> = {1} /\ Range(<<x>>) = {x}
           /\ [n \in {1} |-> x] = <<x>>
<1> DEFINE s == <<x>>
           f == [n \in {1} |-> x]
<1>1. s \in Seq({x}) /\ Len(s) = 1 /\ s[1] = x
    OBVIOUS
<1>2. 1 .. 1 = {1}
    OBVIOUS
<1>3. f \in Seq({x}) /\ Len(f) = 1 /\ f[1] = x
    <2>1. f \in [1 .. 1 -> {x}]
        BY <1>2
    <2>2. f \in Seq({x})
        <3> HIDE DEF f
        <3> QED
            BY <2>1
    <2>3. Len(f) = 1
        BY <1>2, <2>2, LenProperties
    <2> QED
        BY <2>2, <2>3
<1> HIDE DEF s, f
<1>4. s = f
    BY <1>1, <1>3, SeqEqual
<1>5. DOMAIN s = {1}
    BY <1>1, <1>2, LenProperties
<1>6. Range(s) = {x}
    BY <1>1, <1>5 DEF Range
<1> QED
    BY <1>1, <1>4, <1>5, <1>6 DEF s, f

\* The numbers of a sequence's places, and its first and last one.
LEMMA FirstAndLast ==
    ASSUME NEW n \in Nat, NEW S \in SUBSET (1 .. n), 1 \in S, n \in S
    PROVE  Min(S) = 1 /\ Max(S) = n
<1>1. \A x \in S : 1 <= x /\ n >= x
    OBVIOUS
<1>2. /\ \E x \in S : \A y \in S : x <= y
      /\ \E x \in S : \A y \in S : x >= y
    BY <1>1
<1>3. /\ Min(S) \in S /\ \A y \in S : Min(S) <= y
      /\ Max(S) \in S /\ \A y \in S : Max(S) >= y
    BY <1>2 DEF Min, Max
<1>4. Min(S) \in 1 .. n /\ Max(S) \in 1 .. n /\ Min(S) <= 1 /\ Max(S) >= n
    BY <1>3
<1> QED
    BY <1>4

LEMMA ThoseOne ==
    ASSUME NEW x, NEW kept
    PROVE  Those(<<x>>, kept) = IF x \in kept THEN <<x>> ELSE <<>>
<1> DEFINE s == <<x>>
<1>1. s \in Seq({x}) /\ Len(s) = 1 /\ s[1] = x
    OBVIOUS
<1> HIDE DEF s
<1>2. Keeps({x}, s, kept)
    BY <1>1, ThoseSteps
<1>2a. PICK h \in [0 .. Len(s) -> Seq({x})] :
          /\ h[0] = <<>>
          /\ \A k \in 1 .. Len(s) : h[k] = IF s[k] \in kept THEN Append(h[k - 1], s[k]) ELSE h[k - 1]
          /\ Those(s, kept) = h[Len(s)]
    BY <1>2 DEF Keeps
<1>3. h[1] = IF x \in kept THEN Append(<<>>, x) ELSE <<>>
    <2>1. 1 \in 1 .. Len(s) /\ 1 - 1 = 0
        BY <1>1
    <2> QED
        BY <1>1, <1>2a, <2>1
<1>4. Append(<<>>, x) = <<x>>
    OBVIOUS
<1>5. Those(s, kept) = IF x \in kept THEN <<x>> ELSE <<>>
    BY <1>1, <1>2a, <1>3, <1>4
<1> QED
    BY <1>5 DEF s

LEMMA OneCommand ==
    ASSUME NEW w \in Seq(Character)
    PROVE  ParseCommand(<<<<Letter>>, w>>) = Arrived(w)[1]
<1> DEFINE t == <<<<Letter>>, w>>
           kept == {token \in Range(t) : IsFlag(token)}
<1>1. t # <<>> /\ Head(t) = <<Letter>> /\ Tail(t) = <<w>> /\ w \in Range(t)
    <2>1. t \in Seq({<<Letter>>, w}) /\ Len(t) = 2 /\ t[1] = <<Letter>> /\ t[2] = w /\ DOMAIN t = 1 .. 2
        OBVIOUS
    <2>2. Range(t) = {<<Letter>>, w}
        <3>1. 1 .. 2 = {1, 2}
            OBVIOUS
        <3> HIDE DEF t
        <3> QED
            BY <2>1, <3>1 DEF Range
    <2> QED
        BY <2>2
<1>2. w \in kept <=> IsFlag(w)
    <2> HIDE DEF t
    <2> QED
        BY <1>1
<1>3. ParseCommand(t) = [command |-> Head(t),
                         args |-> Those(Tail(t), Range(t) \ kept), flags |-> Those(Tail(t), kept)]
    <2> HIDE DEF t
    <2> QED
        BY <1>1 DEF ParseCommand
<1>4. Those(Tail(t), kept) = IF IsFlag(w) THEN <<w>> ELSE <<>>
    <2> HIDE DEF t, kept
    <2> QED
        BY <1>1, <1>2, ThoseOne
<1>5. Those(Tail(t), Range(t) \ kept) = IF IsFlag(w) THEN <<>> ELSE <<w>>
    <2> HIDE DEF t, kept
    <2>1. w \in Range(t) \ kept <=> ~IsFlag(w)
        BY <1>1, <1>2
    <2> QED
        BY <1>1, <2>1, ThoseOne
<1> HIDE DEF kept
<1> QED
    BY <1>1, <1>3, <1>4, <1>5 DEF Arrived

LEMMA NothingToTrim ==
    ASSUME NEW s \in Seq(Typable), s # <<>>, s[1] # Space, s[Len(s)] # Space
    PROVE  TrimBlanks(s) = s
<1> DEFINE ink == {n \in DOMAIN s : s[n] # Space}
           n == Len(s)
<1>1. n \in Nat /\ n > 0 /\ DOMAIN s = 1 .. n
    <2>1. n \in Nat /\ DOMAIN s = 1 .. n
        BY LenProperties
    <2>2. n # 0
        BY EmptySeq
    <2> QED
        BY <2>1, <2>2
<1>1a. 1 \in ink /\ n \in ink /\ ink \subseteq 1 .. n
    <2>1. 1 \in DOMAIN s /\ n \in DOMAIN s /\ s[n] # Space
        BY <1>1
    <2> HIDE DEF n
    <2> QED
        BY <1>1, <2>1
<1> HIDE DEF ink
<1>2. Min(ink) = 1 /\ Max(ink) = n
    <2> HIDE DEF n
    <2> QED
        BY <1>1, <1>1a, FirstAndLast
<1>4. SubSeq(s, 1, n) = s
    BY SubSeqFull
<1> QED
    <2> HIDE DEF n
    <2> QED
        BY <1>1, <1>1a, <1>2, <1>4 DEF TrimBlanks, ink

LEMMA OneSegment ==
    ASSUME NEW input \in Seq(Typable), input # <<>>, NEW w \in Seq(Character),
           Segments(input) = <<input>>, input[1] # Space, input[Len(input)] # Space,
           Tokenize(input) = <<<<Letter>>, w>>
    PROVE  ParsePipeline(input) = Arrived(w)
<1> DEFINE trimmed == [n \in DOMAIN Segments(input) |-> TrimBlanks(Segments(input)[n])]
           filled == Those(trimmed, Range(trimmed) \ {<<>>})
           one == <<input>>
<1>1. DOMAIN one = {1} /\ one[1] = input /\ Range(one) = {input}
    BY One
<1>2. trimmed = [n \in {1} |-> input]
    BY <1>1, NothingToTrim
<1>3. one = [n \in {1} |-> input]
    BY One
<1>4. trimmed = one
    BY <1>2, <1>3
<1>5. filled = one
    <2> HIDE DEF trimmed
    <2>1. input \in Range(one) \ {<<>>}
        BY <1>1
    <2> HIDE DEF one
    <2>2. Those(<<input>>, Range(one) \ {<<>>}) = <<input>>
        BY <2>1, ThoseOne
    <2> QED
        BY <1>4, <2>2 DEF one
<1>6. ParsePipeline(input) = [n \in DOMAIN filled |-> ParseCommand(Tokenize(filled[n]))]
    BY DEF ParsePipeline
<1> HIDE DEF filled
<1>7. ParsePipeline(input) = [n \in {1} |-> ParseCommand(<<<<Letter>>, w>>)]
    BY <1>1, <1>5, <1>6
<1>8. \A y : [n \in {1} |-> y] = <<y>>
    BY One
<1> QED
    BY <1>7, <1>8, OneCommand DEF Arrived

----------------------------------------------------------------------------
(* A word in quotes, through both scans.                                   *)

LEMMA StartsOf ==
    ASSUME NEW A, NEW s \in Seq(A)
    PROVE  /\ SubSeq(s, 1, 0) = <<>>
           /\ SubSeq(s, 1, Len(s)) = s
           /\ \A k \in 1 .. Len(s) : Append(SubSeq(s, 1, k - 1), s[k]) = SubSeq(s, 1, k)
           /\ \A k \in 0 .. Len(s) : SubSeq(s, 1, k) \in Seq(A) /\ Len(SubSeq(s, 1, k)) = k
<1>1. SubSeq(s, 1, 0) = <<>>
    BY SubSeqEmpty
<1>2. ASSUME NEW k \in 0 .. Len(s)
      PROVE  SubSeq(s, 1, k) \in Seq(A) /\ Len(SubSeq(s, 1, k)) = k
    <2>1. \A i \in 1 .. k : s[i] \in A
        BY ElementOfSeq
    <2>2. k \in Int /\ 1 \in Int /\ k \in Nat /\ (1 <= k => k - 1 + 1 = k) /\ (~(1 <= k) => k = 0)
        OBVIOUS
    <2> QED
        BY <2>1, <2>2, SubSeqProperties
<1>3. ASSUME NEW k \in 1 .. Len(s)
      PROVE  Append(SubSeq(s, 1, k - 1), s[k]) = SubSeq(s, 1, k)
    <2>1. k - 1 \in 0 .. Len(s) /\ 1 \in 1 .. Len(s) /\ k \in 1 .. Len(s) /\ s[k] \in A
        BY ElementOfSeq
    <2>2. SubSeq(s, 1, k) = SubSeq(s, 1, k - 1) \o <<s[k]>>
        BY <2>1, SubSeqRecursiveSecond
    <2>3. SubSeq(s, 1, k - 1) \in Seq(A)
        BY <1>2, <2>1
    <2> QED
        BY <2>1, <2>2, <2>3, AppendIsConcat
<1> QED
    BY <1>1, <1>2, <1>3, SubSeqFull

\* A line that is the command's cmd, a blank and something else.
NamedLine(input) ==
    /\ input \in Seq(Typable) /\ Len(input) > 2
    /\ input[1] = Letter /\ input[2] = Space

Scanning(h, input) ==
    /\ h \in [0 .. Len(input) -> ScanState]
    /\ h[0] = ScanStart
    /\ \A k \in 1 .. Len(input) : h[k] = Scan1(h[k - 1], input[k])

Cutting(h, input) ==
    /\ h \in [0 .. Len(input) -> CutState]
    /\ h[0] = CutStart
    /\ \A k \in 1 .. Len(input) : h[k] = Cut1(h[k - 1], input[k])

\* A state of the scan after the command's cmd, outside of backslashes: what has been
\* read of the word, and the quote that is q, if one is.
Inside(current, q) ==
    [tokens |-> <<<<Letter>>>>, current |-> current,
     single |-> q = Apostrophe, double |-> q = Quote, escaped |-> FALSE]

LEMMA NameScanned ==
    ASSUME NEW input, NamedLine(input), NEW h, Scanning(h, input)
    PROVE  h[2] = Inside(<<>>, Letter)
<1>1. Len(input) \in Nat /\ 1 \in 1 .. Len(input) /\ 2 \in 1 .. Len(input) /\ 1 - 1 = 0 /\ 2 - 1 = 1
    BY DEF NamedLine
<1>2. h[1] = Scan1(ScanStart, Letter)
    BY <1>1 DEF Scanning, NamedLine
<1>3. h[2] = Scan1(h[1], Space)
    BY <1>1 DEF Scanning, NamedLine
<1>4. Scan1(ScanStart, Letter) = [ScanStart EXCEPT !.current = <<Letter>>]
    BY DEF Scan1, ScanStart, IsQuote, Letter, Backslash, Apostrophe, Quote, Space
<1> DEFINE s == [ScanStart EXCEPT !.current = <<Letter>>]
<1>5. Scan1(s, Space) = EndToken(s)
    BY DEF Scan1, ScanStart, IsQuote, Quoted, Letter, Backslash, Apostrophe, Quote, Space
<1>6. EndToken(s) = Inside(<<>>, Letter)
    <2>1. <<Letter>> # <<>> /\ Append(<<>>, <<Letter>>) = <<<<Letter>>>>
        OBVIOUS
    <2>2. s.current = <<Letter>> /\ s.tokens = <<>>
        BY DEF ScanStart
    <2>3. EndToken(s) = [s EXCEPT !.tokens = <<<<Letter>>>>, !.current = <<>>]
        BY <2>1, <2>2 DEF EndToken
    <2> QED
        BY <2>3 DEF ScanStart, Inside, Letter, Apostrophe, Quote
<1> QED
    BY <1>2, <1>3, <1>4, <1>5, <1>6

\* What a character does in such a state.
LEMMA QuoteOpens ==
    ASSUME NEW c, NEW q, NEW ch,
           q \notin {Apostrophe, Quote}, ch \in {Apostrophe, Quote}
    PROVE  Scan1(Inside(c, q), ch) = Inside(c, ch)
    BY DEF Scan1, Inside, IsQuote, Quoted, Toggled, Letter, Backslash, Apostrophe, Quote, Space

LEMMA QuoteCloses ==
    ASSUME NEW c, NEW q \in {Apostrophe, Quote}
    PROVE  Scan1(Inside(c, q), q) = Inside(c, Letter)
    BY DEF Scan1, Inside, IsQuote, Quoted, Toggled, Letter, Backslash, Apostrophe, Quote, Space

LEMMA QuotedIsRead ==
    ASSUME NEW c, NEW q \in {Apostrophe, Quote}, NEW ch, ch \notin {q, Backslash}
    PROVE  Scan1(Inside(c, q), ch) = Inside(Append(c, ch), q)
    BY DEF Scan1, Inside, IsQuote, Quoted, Toggled, Letter, Backslash, Apostrophe, Quote, Space

LEMMA EscapedIsRead ==
    ASSUME NEW c, NEW q, NEW ch
    PROVE  Scan1(Scan1(Inside(c, q), Backslash), ch) = Inside(Append(c, ch), q)
    BY DEF Scan1, Inside, IsQuote, Quoted, Toggled, Letter, Backslash, Apostrophe, Quote, Space

LEMMA Two ==
    ASSUME NEW x, NEW y
    PROVE  Append(<<x>>, y) = <<x, y>>
<1> DEFINE s == Append(<<x>>, y)
           t == <<x, y>>
<1>1. s \in Seq({x, y}) /\ Len(s) = 2 /\ s[1] = x /\ s[2] = y
    OBVIOUS
<1>2. t \in Seq({x, y}) /\ Len(t) = 2 /\ t[1] = x /\ t[2] = y
    OBVIOUS
<1> HIDE DEF s, t
<1>3. \A i \in 1 .. 2 : i = 1 \/ i = 2
    OBVIOUS
<1>4. s = t
    BY <1>1, <1>2, <1>3, SeqEqual
<1> QED
    BY <1>4 DEF s, t

LEMMA WordEnds ==
    ASSUME NEW w \in Seq(Character), w # <<>>
    PROVE  EndToken(Inside(w, Letter)).tokens = <<<<Letter>>, w>>
<1>1. Append(<<<<Letter>>>>, w) = <<<<Letter>>, w>>
    BY Two
<1> QED
    BY <1>1 DEF EndToken, Inside

\* A word between quotes that it does not have.
InQuotes(q, w) == <<Letter, Space>> \o (<<q>> \o w \o <<q>>)

LEMMA QuotedPlaces ==
    ASSUME NEW q \in {Apostrophe, Quote}, NEW w \in Seq(Character)
    PROVE  /\ NamedLine(InQuotes(q, w))
           /\ Len(InQuotes(q, w)) = Len(w) + 4
           /\ InQuotes(q, w)[3] = q /\ InQuotes(q, w)[Len(w) + 4] = q
           /\ \A i \in 1 .. Len(w) : InQuotes(q, w)[i + 3] = w[i]
<1> DEFINE n == Len(w)
           a == <<q>> \o w
           b == a \o <<q>>
           cmd == <<Letter, Space>>
           all == cmd \o b
<1>1. w \in Seq(Typable) /\ <<q>> \in Seq(Typable) /\ Len(<<q>>) = 1 /\ <<q>>[1] = q /\ n \in Nat
    BY DEF Typable, Character
<1>2. a \in Seq(Typable) /\ Len(a) = n + 1 /\ a[1] = q /\ \A i \in 1 .. n : a[i + 1] = w[i]
    <2>1. /\ a \in Seq(Typable) /\ Len(a) = 1 + n
          /\ \A i \in 1 .. 1 + n : a[i] = IF i <= 1 THEN <<q>>[i] ELSE w[i - 1]
        BY <1>1, ConcatProperties
    <2> HIDE DEF a
    <2> QED
        BY <1>1, <2>1
<1>3. /\ b \in Seq(Typable) /\ Len(b) = n + 2 /\ b[1] = q /\ b[n + 2] = q
      /\ \A i \in 1 .. n : b[i + 1] = w[i]
    <2>1. /\ b \in Seq(Typable) /\ Len(b) = Len(a) + 1
          /\ \A i \in 1 .. Len(a) + 1 : b[i] = IF i <= Len(a) THEN a[i] ELSE <<q>>[i - Len(a)]
        <3> HIDE DEF a
        <3> QED
            BY <1>1, <1>2, ConcatProperties
    <2> HIDE DEF a, b
    <2> QED
        BY <1>1, <1>2, <2>1
<1>4. cmd \in Seq(Typable) /\ Len(cmd) = 2 /\ cmd[1] = Letter /\ cmd[2] = Space
    BY DEF Typable, Character
<1>5. /\ all \in Seq(Typable) /\ Len(all) = n + 4 /\ all[1] = Letter /\ all[2] = Space
      /\ \A j \in 1 .. n + 2 : all[j + 2] = b[j]
    <2> HIDE DEF b, cmd
    <2>1. /\ all \in Seq(Typable) /\ Len(all) = Len(cmd) + Len(b)
          /\ \A i \in 1 .. Len(cmd) + Len(b) : all[i] = IF i <= Len(cmd) THEN cmd[i] ELSE b[i - Len(cmd)]
        BY <1>3, <1>4, ConcatProperties
    <2> HIDE DEF all
    <2> QED
        BY <1>1, <1>3, <1>4, <2>1
<1>6. all = InQuotes(q, w)
    BY DEF InQuotes
<1> HIDE DEF all, b, a, cmd
<1>7. /\ all[3] = q /\ all[n + 4] = q
      /\ \A i \in 1 .. n : all[i + 3] = w[i]
    <2>1. 1 \in 1 .. n + 2 /\ n + 2 \in 1 .. n + 2
        BY <1>1
    <2>2. \A i \in 1 .. n : i + 1 \in 1 .. n + 2 /\ (i + 1) + 2 = i + 3
        BY <1>1
    <2>3. all[1 + 2] = q /\ all[(n + 2) + 2] = q
        BY <1>3, <1>5, <2>1
    <2>4. \A i \in 1 .. n : all[(i + 1) + 2] = b[i + 1]
        BY <1>5, <2>2
    <2> QED
        BY <1>1, <1>3, <2>2, <2>3, <2>4
<1> QED
    BY <1>1, <1>5, <1>6, <1>7 DEF NamedLine

LEMMA QuotedScan ==
    ASSUME NEW q \in {Apostrophe, Quote}, NEW w \in Seq(Character), q \notin Range(w), w # <<>>
    PROVE  Tokenize(InQuotes(q, w)) = <<<<Letter>>, w>>
<1> DEFINE n == Len(w)
           input == InQuotes(q, w)
<1>1. /\ input \in Seq(Typable) /\ NamedLine(input) /\ Len(input) = n + 4 /\ n \in Nat
      /\ input[3] = q /\ input[n + 4] = q /\ \A i \in 1 .. n : input[i + 3] = w[i]
    BY QuotedPlaces DEF NamedLine
<1> HIDE DEF input
<1>2. PICK h : Scanning(h, input) /\ Tokenize(input) = EndToken(h[Len(input)]).tokens
    BY <1>1, TokenizeSteps DEF Scans, Scanning
<1>4. \A k \in 1 .. n + 4 : h[k] = Scan1(h[k - 1], input[k])
    BY <1>1, <1>2 DEF Scanning
<1>5. h[2] = Inside(<<>>, Letter)
    BY <1>1, <1>2, NameScanned
<1>6. h[3] = Inside(<<>>, q)
    <2>1. 3 \in 1 .. n + 4 /\ 3 - 1 = 2
        BY <1>1
    <2>2. h[3] = Scan1(h[2], q)
        BY <1>1, <1>4, <2>1
    <2>3. Letter \notin {Apostrophe, Quote}
        BY DEF Letter, Apostrophe, Quote
    <2> QED
        BY <1>5, <2>2, <2>3, QuoteOpens
<1> DEFINE Reached == {i \in Nat : i <= n => h[i + 3] = Inside(SubSeq(w, 1, i), q)}
<1>7. 0 \in Reached
    <2>1. SubSeq(w, 1, 0) = <<>> /\ 0 + 3 = 3
        BY StartsOf
    <2> QED
        BY <1>6, <2>1
<1>8. ASSUME NEW i \in Nat, i \in Reached PROVE i + 1 \in Reached
    <2>1. SUFFICES ASSUME i + 1 <= n
                   PROVE  h[(i + 1) + 3] = Inside(SubSeq(w, 1, i + 1), q)
        OBVIOUS
    <2>2. i + 1 \in 1 .. n /\ (i + 1) + 3 \in 1 .. n + 4 /\ ((i + 1) + 3) - 1 = i + 3 /\ (i + 1) - 1 = i
        BY <1>1, <2>1
    <2>3. h[(i + 1) + 3] = Scan1(h[i + 3], w[i + 1])
        BY <1>1, <1>4, <2>2
    <2>4. h[i + 3] = Inside(SubSeq(w, 1, i), q)
        BY <1>1, <1>8, <2>2
    <2>5. w[i + 1] \in Character /\ w[i + 1] \in Range(w)
        BY <2>2 DEF Range
    <2>6. w[i + 1] \notin {q, Backslash}
        BY <2>5 DEF Character, Backslash, Letter, Dash, Space, Bar, Apostrophe, Quote
    <2>7. Append(SubSeq(w, 1, i), w[i + 1]) = SubSeq(w, 1, i + 1)
        BY <2>2, StartsOf
    <2> HIDE DEF Reached
    <2>8. Scan1(Inside(SubSeq(w, 1, i), q), w[i + 1]) = Inside(Append(SubSeq(w, 1, i), w[i + 1]), q)
        BY <2>6, QuotedIsRead
    <2> QED
        BY <2>3, <2>4, <2>7, <2>8
<1> HIDE DEF Reached
<1>9. n \in Reached
    <2>1. \A i \in Nat : i \in Reached => i + 1 \in Reached
        BY <1>8
    <2>2. \A i \in Nat : i \in Reached
        BY <1>7, <2>1, Induction
    <2> QED
        BY <1>1, <2>2
<1> HIDE DEF n
<1>10. h[n + 3] = Inside(w, q)
    <2>1. SubSeq(w, 1, n) = w
        BY StartsOf DEF n
    <2>2. n <= n
        BY <1>1
    <2> QED
        BY <1>9, <2>1, <2>2 DEF Reached
<1>11. h[n + 4] = Inside(w, Letter)
    <2>1. n + 4 \in 1 .. n + 4 /\ (n + 4) - 1 = n + 3
        BY <1>1
    <2>2. h[n + 4] = Scan1(h[n + 3], q)
        BY <1>1, <1>4, <2>1
    <2> QED
        BY <1>10, <2>2, QuoteCloses
<1> QED
    BY <1>1, <1>2, <1>11, WordEnds DEF input

\* As long as no bar is met outside of quotes, there is one segment.
OnePart(s, input, k) == s.parts = <<SubSeq(input, 1, k)>>

LEMMA CutGoesOn ==
    ASSUME NEW input \in Seq(Typable), NEW k \in 1 .. Len(input), NEW s \in CutState,
           OnePart(s, input, k - 1), ~(input[k] = Bar /\ ~Quoted(s))
    PROVE  /\ OnePart(Cut1(s, input[k]), input, k)
           /\ Cut1(s, input[k]).single = IF input[k] = Apostrophe /\ ~s.double THEN ~s.single ELSE s.single
           /\ Cut1(s, input[k]).double = IF input[k] = Quote /\ ~s.single THEN ~s.double ELSE s.double
<1> DEFINE t == IF IsQuote(s, input[k]) THEN Toggled(s, input[k]) ELSE s
           ch == input[k]
           p == SubSeq(input, 1, k - 1)
<1>1. /\ t \in CutState /\ t.parts = s.parts
      /\ t.single = IF ch = Apostrophe /\ ~s.double THEN ~s.single ELSE s.single
      /\ t.double = IF ch = Quote /\ ~s.single THEN ~s.double ELSE s.double
    BY DEF Toggled, CutState, IsQuote, Apostrophe, Quote
<1> HIDE DEF t
<1>2. Cut1(s, ch) = [t EXCEPT !.parts = [t.parts EXCEPT ![Len(t.parts)] = Append(t.parts[Len(t.parts)], ch)]]
    BY DEF Cut1, t
<1>3. s.parts = <<p>>
    BY DEF OnePart
<1>4. Append(p, ch) = SubSeq(input, 1, k)
    BY StartsOf
<1> HIDE DEF p, ch
<1>5. [<<p>> EXCEPT ![Len(<<p>>)] = Append(<<p>>[Len(<<p>>)], ch)] = <<Append(p, ch)>>
    OBVIOUS
<1>6. Cut1(s, ch) = [t EXCEPT !.parts = <<Append(p, ch)>>]
    BY <1>1, <1>2, <1>3, <1>5
<1>7. Cut1(s, ch).parts = <<Append(p, ch)>> /\ Cut1(s, ch).single = t.single /\ Cut1(s, ch).double = t.double
    BY <1>1, <1>6 DEF CutState
<1> QED
    BY <1>1, <1>4, <1>7 DEF OnePart, ch

LEMMA QuotedCut ==
    ASSUME NEW q \in {Apostrophe, Quote}, NEW w \in Seq(Character), q \notin Range(w), w # <<>>
    PROVE  Segments(InQuotes(q, w)) = <<InQuotes(q, w)>>
<1> DEFINE n == Len(w)
           input == InQuotes(q, w)
           In(k) == k \in 3 .. n + 3
<1>1. /\ input \in Seq(Typable) /\ Len(input) = n + 4 /\ n \in Nat
      /\ input[1] = Letter /\ input[2] = Space
      /\ input[3] = q /\ input[n + 4] = q /\ \A i \in 1 .. n : input[i + 3] = w[i]
    BY QuotedPlaces DEF NamedLine
<1> HIDE DEF input
<1>2. PICK h : Cutting(h, input) /\ Segments(input) = h[Len(input)].parts
    BY <1>1, SegmentsSteps DEF Cuts, Cutting
<1> DEFINE Now(k) == /\ OnePart(h[k], input, k)
                     /\ h[k].single = (q = Apostrophe /\ In(k)) /\ h[k].double = (q = Quote /\ In(k))
           Reached == {k \in Nat : k <= n + 4 => Now(k)}
<1>3. 0 \in Reached
    <2>1. SubSeq(input, 1, 0) = <<>>
        BY <1>1, StartsOf
    <2>2. ~In(0)
        BY <1>1
    <2> HIDE DEF In
    <2>3. h[0].parts = <<<<>>>> /\ h[0].single = FALSE /\ h[0].double = FALSE
        BY <1>2 DEF Cutting, CutStart
    <2>4. Now(0)
        BY <2>1, <2>2, <2>3 DEF OnePart
    <2> HIDE DEF Now
    <2> QED
        BY <2>4
<1>4. ASSUME NEW k \in Nat, k \in Reached PROVE k + 1 \in Reached
    <2>1. SUFFICES ASSUME k + 1 <= n + 4 PROVE Now(k + 1)
        OBVIOUS
    <2> DEFINE m == k + 1
    <2>2a. m \in 1 .. Len(input) /\ m - 1 = k /\ k \in 0 .. Len(input) /\ k <= n + 4
        BY <1>1, <2>1
    <2>2b. Now(k)
        <3> HIDE DEF Now
        <3> QED
            BY <1>4, <2>2a
    <2>2c. h[m] = Cut1(h[k], input[m]) /\ h[k] \in CutState
        <3> HIDE DEF m, Reached, Now
        <3> QED
            BY <1>2, <2>2a DEF Cutting
    <2>2. Now(k) /\ m \in 1 .. Len(input) /\ m - 1 = k /\ h[m] = Cut1(h[k], input[m]) /\ h[k] \in CutState
        BY <2>2a, <2>2b, <2>2c
    <2>3. \/ m = 1 /\ input[m] = Letter
          \/ m = 2 /\ input[m] = Space
          \/ m \in {3, n + 4} /\ input[m] = q
          \/ m \in 4 .. n + 3 /\ input[m] \in Character /\ input[m] # q
        <3>1. ASSUME m \in 4 .. n + 3 PROVE input[m] \in Character /\ input[m] # q
            <4> DEFINE i == m - 3
            <4>1. i \in 1 .. n /\ input[m] = w[i]
                BY <1>1, <3>1
            <4> HIDE DEF i
            <4> QED
                BY <4>1 DEF Range
        <3> QED
            BY <1>1, <2>2, <3>1
    <2> HIDE DEF m, Reached
    <2>4. ~(input[m] = Bar /\ ~Quoted(h[k]))
        <3>1. CASE m \in 4 .. n + 3
            <4>1. In(k)
                BY <2>2, <3>1
            <4> QED
                BY <2>2, <4>1 DEF Quoted
        <3> QED
            BY <2>3, <3>1 DEF Letter, Space, Apostrophe, Quote, Bar
    <2>5. /\ OnePart(h[m], input, m)
          /\ h[m].single = IF input[m] = Apostrophe /\ ~h[k].double THEN ~h[k].single ELSE h[k].single
          /\ h[m].double = IF input[m] = Quote /\ ~h[k].single THEN ~h[k].double ELSE h[k].double
        BY <1>1, <2>2, <2>4, CutGoesOn
    <2>6. In(m) = IF m \in {3, n + 4} THEN ~In(k) ELSE In(k)
        BY <1>1, <2>2
    <2>7. \/ input[m] = q /\ In(m) = ~In(k)
          \/ /\ input[m] # q /\ In(m) = In(k)
             /\ (input[m] \in {Apostrophe, Quote} => In(k))
        <3>1. m \in 4 .. n + 3 => In(k) /\ m \notin {3, n + 4}
            BY <1>1, <2>2
        <3>2. (m = 1 \/ m = 2) => m \notin {3, n + 4}
            BY <1>1
        <3> HIDE DEF In
        <3> QED
            BY <2>3, <2>6, <3>1, <3>2 DEF Letter, Space, Apostrophe, Quote
    <2> HIDE DEF In
    <2>8. Now(m)
        BY <2>2, <2>5, <2>7 DEF Apostrophe, Quote
    <2> QED
        BY <2>8 DEF m
<1> HIDE DEF Reached
<1>5. n + 4 \in Reached
    <2>1. \A k \in Nat : k \in Reached => k + 1 \in Reached
        BY <1>4
    <2>2. \A k \in Nat : k \in Reached
        BY <1>3, <2>1, Induction
    <2>3. n + 4 \in Nat
        BY <1>1
    <2> QED
        BY <2>2, <2>3
<1>6. SubSeq(input, 1, n + 4) = input
    BY <1>1, StartsOf
<1> QED
    BY <1>1, <1>2, <1>5, <1>6 DEF Reached, OnePart, input

----------------------------------------------------------------------------
(* A word with backslashes, through both scans.                            *)

\* A word with backslashes: two characters for each of its own.
LEMMA EscapedPlaces ==
    ASSUME NEW w \in Seq(Character)
    PROVE  /\ Escaped(w) \in Seq(Typable)
           /\ Len(Escaped(w)) = 2 * Len(w)
           /\ \A i \in 1 .. Len(w) : Escaped(w)[2 * i - 1] = Backslash /\ Escaped(w)[2 * i] = w[i]
<1> DEFINE n == Len(w)
           Placed(e, k) == /\ Len(e) = 2 * k
                           /\ \A i \in 1 .. k : e[2 * i - 1] = Backslash /\ e[2 * i] = w[i]
<1>1. PICK h \in [0 .. n -> Seq(Typable)] :
          /\ h[0] = <<>>
          /\ \A k \in 1 .. n : h[k] = h[k - 1] \o <<Backslash, w[k]>>
          /\ Escaped(w) = h[n]
    BY EscapedSteps DEF Escapes
<1> DEFINE Reached == {k \in Nat : k <= n => Placed(h[k], k)}
<1>2. n \in Nat
    OBVIOUS
<1> HIDE DEF n
<1>3. 0 \in Reached
    BY <1>1
<1>4. ASSUME NEW k \in Nat, k \in Reached PROVE k + 1 \in Reached
    <2>1. SUFFICES ASSUME k + 1 <= n PROVE Placed(h[k + 1], k + 1)
        OBVIOUS
    <2>2. k + 1 \in 1 .. n /\ (k + 1) - 1 = k /\ k \in 0 .. n /\ k <= n
        BY <1>2, <2>1
    <2> DEFINE m == k + 1
               pair == <<Backslash, w[m]>>
    <2>3. h[m] = h[k] \o pair /\ h[k] \in Seq(Typable)
        BY <1>1, <2>2
    <2>4. pair \in Seq(Typable) /\ Len(pair) = 2 /\ pair[1] = Backslash /\ pair[2] = w[m]
        <3>1. w[m] \in Typable /\ Backslash \in Typable
            BY <2>2 DEF n, Typable
        <3> HIDE DEF m
        <3> QED
            BY <3>1
    <2>5. Placed(h[k], k)
        <3> HIDE DEF Placed
        <3> QED
            BY <1>4, <2>2
    <2> HIDE DEF pair
    <2>6. /\ Len(h[m]) = Len(h[k]) + 2
          /\ \A i \in 1 .. Len(h[k]) + 2 : h[m][i] = IF i <= Len(h[k]) THEN h[k][i] ELSE pair[i - Len(h[k])]
        <3> HIDE DEF m, Reached
        <3> DEFINE both == h[k] \o pair
        <3>1. /\ Len(both) = Len(h[k]) + Len(pair)
              /\ \A i \in 1 .. Len(h[k]) + Len(pair) :
                    both[i] = IF i <= Len(h[k]) THEN h[k][i] ELSE pair[i - Len(h[k])]
            BY <2>3, <2>4, ConcatProperties
        <3>2. h[m] = both
            BY <2>3
        <3> HIDE DEF both
        <3> QED
            BY <2>4, <3>1, <3>2
    <2>7. Len(h[m]) = 2 * m
        BY <2>5, <2>6
    <2>8. ASSUME NEW i \in 1 .. m PROVE h[m][2 * i - 1] = Backslash /\ h[m][2 * i] = w[i]
        <3>1. CASE i = m
            <4>1. /\ 2 * i - 1 \in 1 .. Len(h[k]) + 2 /\ ~ (2 * i - 1 <= Len(h[k])) /\ 2 * i - 1 - Len(h[k]) = 1
                  /\ 2 * i \in 1 .. Len(h[k]) + 2 /\ ~ (2 * i <= Len(h[k])) /\ 2 * i - Len(h[k]) = 2
                <5> DEFINE l == Len(h[k])
                <5>1. k \in Nat /\ i = k + 1 /\ l = 2 * k
                    BY <2>5, <3>1
                <5> HIDE DEF l, m, Reached, Placed
                <5>2. /\ 2 * i - 1 \in 1 .. l + 2 /\ ~ (2 * i - 1 <= l) /\ 2 * i - 1 - l = 1
                      /\ 2 * i \in 1 .. l + 2 /\ ~ (2 * i <= l) /\ 2 * i - l = 2
                    BY <5>1
                <5> QED
                    BY <5>2 DEF l
            <4> HIDE DEF m, Reached, Placed
            <4> QED
                BY <2>4, <2>6, <3>1, <4>1
        <3>2. CASE i # m
            <4>1. /\ i \in 1 .. k
                  /\ 2 * i - 1 \in 1 .. Len(h[k]) + 2 /\ 2 * i - 1 <= Len(h[k])
                  /\ 2 * i \in 1 .. Len(h[k]) + 2 /\ 2 * i <= Len(h[k])
                BY <2>5, <3>2
            <4>2. h[k][2 * i - 1] = Backslash /\ h[k][2 * i] = w[i]
                BY <2>5, <4>1
            <4> HIDE DEF m, Reached, Placed
            <4> QED
                BY <2>6, <4>1, <4>2
        <3> QED
            BY <3>1, <3>2
    <2> QED
        BY <2>7, <2>8
<1> HIDE DEF Reached
<1>5. \A k \in Nat : k \in Reached
    <2>1. \A k \in Nat : k \in Reached => k + 1 \in Reached
        BY <1>4
    <2> QED
        BY <1>3, <2>1, Induction
<1>6. Placed(h[n], n) /\ h[n] \in Seq(Typable)
    <2> HIDE DEF Placed
    <2>1. n <= n /\ n \in 0 .. n
        BY <1>2
    <2> QED
        BY <1>1, <1>2, <1>5, <2>1 DEF Reached
<1> QED
    BY <1>1, <1>6 DEF n

\* A word with backslashes, and the line that has it.
WithBackslashes(w) == <<Letter, Space>> \o Escaped(w)

LEMMA BackslashPlaces ==
    ASSUME NEW w \in Seq(Character), w # <<>>
    PROVE  /\ NamedLine(WithBackslashes(w))
           /\ Len(WithBackslashes(w)) = 2 * Len(w) + 2
           /\ \A i \in 1 .. Len(w) :
                 WithBackslashes(w)[2 * i + 1] = Backslash /\ WithBackslashes(w)[2 * i + 2] = w[i]
<1> DEFINE n == Len(w)
           e == Escaped(w)
           cmd == <<Letter, Space>>
           all == cmd \o e
<1>1. /\ e \in Seq(Typable) /\ Len(e) = 2 * n
      /\ \A i \in 1 .. n : e[2 * i - 1] = Backslash /\ e[2 * i] = w[i]
    BY EscapedPlaces
<1>2. cmd \in Seq(Typable) /\ Len(cmd) = 2 /\ cmd[1] = Letter /\ cmd[2] = Space
    BY DEF Typable, Character
<1>3. n \in Nat /\ n > 0
    OBVIOUS
<1> HIDE DEF n, e, cmd
<1>4. /\ all \in Seq(Typable) /\ Len(all) = 2 + 2 * n
      /\ \A i \in 1 .. 2 + 2 * n : all[i] = IF i <= 2 THEN cmd[i] ELSE e[i - 2]
    <2>1. /\ all \in Seq(Typable) /\ Len(all) = Len(cmd) + Len(e)
          /\ \A i \in 1 .. Len(cmd) + Len(e) : all[i] = IF i <= Len(cmd) THEN cmd[i] ELSE e[i - Len(cmd)]
        BY <1>1, <1>2, ConcatProperties
    <2> HIDE DEF all
    <2> QED
        BY <1>1, <1>2, <2>1
<1> HIDE DEF all
<1>5. ASSUME NEW i \in 1 .. n
      PROVE  all[2 * i + 1] = Backslash /\ all[2 * i + 2] = w[i]
    <2>1. /\ 2 * i + 1 \in 1 .. 2 + 2 * n /\ ~ (2 * i + 1 <= 2) /\ 2 * i + 1 - 2 = 2 * i - 1
          /\ 2 * i + 2 \in 1 .. 2 + 2 * n /\ ~ (2 * i + 2 <= 2) /\ 2 * i + 2 - 2 = 2 * i
        BY <1>3
    <2>2. all[2 * i + 1] = e[2 * i - 1] /\ all[2 * i + 2] = e[2 * i]
        BY <1>4, <2>1
    <2>3. e[2 * i - 1] = Backslash /\ e[2 * i] = w[i]
        BY <1>1
    <2> QED
        BY <2>2, <2>3
<1>6. all[1] = Letter /\ all[2] = Space /\ Len(all) > 2 /\ Len(all) = 2 * n + 2
    <2>1. 1 \in 1 .. 2 + 2 * n /\ 2 \in 1 .. 2 + 2 * n /\ 1 <= 2 /\ 2 <= 2
        BY <1>3
    <2> QED
        BY <1>2, <1>3, <1>4, <2>1
<1>7. all = WithBackslashes(w)
    BY DEF all, cmd, e, WithBackslashes
<1> QED
    BY <1>4, <1>5, <1>6, <1>7 DEF NamedLine, n

LEMMA EscapedScan ==
    ASSUME NEW w \in Seq(Character), w # <<>>
    PROVE  Tokenize(WithBackslashes(w)) = <<<<Letter>>, w>>
<1> DEFINE n == Len(w)
           input == WithBackslashes(w)
<1>1. /\ input \in Seq(Typable) /\ NamedLine(input) /\ Len(input) = 2 * n + 2 /\ n \in Nat
      /\ \A i \in 1 .. n : input[2 * i + 1] = Backslash /\ input[2 * i + 2] = w[i]
    BY BackslashPlaces DEF NamedLine
<1> HIDE DEF input
<1>2. PICK h : Scanning(h, input) /\ Tokenize(input) = EndToken(h[Len(input)]).tokens
    BY <1>1, TokenizeSteps DEF Scans, Scanning
<1>3. \A k \in 1 .. 2 * n + 2 : h[k] = Scan1(h[k - 1], input[k])
    BY <1>1, <1>2 DEF Scanning
<1>4. h[2] = Inside(<<>>, Letter)
    BY <1>1, <1>2, NameScanned
<1> DEFINE Reached == {i \in Nat : i <= n => h[2 * i + 2] = Inside(SubSeq(w, 1, i), Letter)}
<1>5. 0 \in Reached
    <2>1. SubSeq(w, 1, 0) = <<>> /\ 2 * 0 + 2 = 2
        BY StartsOf
    <2> QED
        BY <1>4, <2>1
<1>6. ASSUME NEW i \in Nat, i \in Reached PROVE i + 1 \in Reached
    <2>1. SUFFICES ASSUME i + 1 <= n
                   PROVE  h[2 * (i + 1) + 2] = Inside(SubSeq(w, 1, i + 1), Letter)
        OBVIOUS
    <2>2. /\ i <= n /\ i + 1 \in 1 .. n /\ (i + 1) - 1 = i
          /\ 2 * (i + 1) + 1 \in 1 .. 2 * n + 2 /\ (2 * (i + 1) + 1) - 1 = 2 * i + 2
          /\ 2 * (i + 1) + 2 \in 1 .. 2 * n + 2 /\ (2 * (i + 1) + 2) - 1 = 2 * (i + 1) + 1
        BY <1>1, <2>1
    <2>3. h[2 * (i + 1) + 1] = Scan1(h[2 * i + 2], Backslash)
        BY <1>1, <1>3, <2>2
    <2>4. h[2 * (i + 1) + 2] = Scan1(h[2 * (i + 1) + 1], w[i + 1])
        BY <1>1, <1>3, <2>2
    <2>5. h[2 * i + 2] = Inside(SubSeq(w, 1, i), Letter)
        BY <1>6, <2>2
    <2>6. Append(SubSeq(w, 1, i), w[i + 1]) = SubSeq(w, 1, i + 1)
        BY <2>2, StartsOf
    <2> HIDE DEF Reached
    <2>7. Scan1(Scan1(Inside(SubSeq(w, 1, i), Letter), Backslash), w[i + 1])
              = Inside(Append(SubSeq(w, 1, i), w[i + 1]), Letter)
        BY EscapedIsRead
    <2> QED
        BY <2>3, <2>4, <2>5, <2>6, <2>7
<1> HIDE DEF Reached
<1>7. \A i \in Nat : i \in Reached
    <2>1. \A i \in Nat : i \in Reached => i + 1 \in Reached
        BY <1>6
    <2> QED
        BY <1>5, <2>1, Induction
<1>8. SubSeq(w, 1, n) = w
    BY StartsOf
<1> HIDE DEF n
<1>9. h[2 * n + 2] = Inside(w, Letter)
    <2>1. n <= n /\ n \in Reached
        BY <1>1, <1>7
    <2> QED
        BY <1>8, <2>1 DEF Reached
<1> QED
    BY <1>1, <1>2, <1>9, WordEnds DEF input

LEMMA EscapedCut ==
    ASSUME NEW w \in Seq(Character), w # <<>>, Bar \notin Range(w)
    PROVE  Segments(WithBackslashes(w)) = <<WithBackslashes(w)>>
<1> DEFINE n == Len(w)
           input == WithBackslashes(w)
           len == 2 * n + 2
<1>1. /\ input \in Seq(Typable) /\ Len(input) = len /\ n \in Nat
      /\ input[1] = Letter /\ input[2] = Space
      /\ \A i \in 1 .. n : input[2 * i + 1] = Backslash /\ input[2 * i + 2] = w[i]
    BY BackslashPlaces DEF NamedLine
<1> HIDE DEF input
<1>2. PICK h : Cutting(h, input) /\ Segments(input) = h[Len(input)].parts
    BY <1>1, SegmentsSteps DEF Cuts, Cutting
<1> DEFINE NoBar == {i \in Nat : i <= n => \A m \in 1 .. 2 * i + 2 : input[m] # Bar}
<1>3. \A i \in Nat : i \in NoBar
    <2>1. 0 \in NoBar
        <3>1. \A m \in 1 .. 2 * 0 + 2 : m = 1 \/ m = 2
            OBVIOUS
        <3>2. Letter # Bar /\ Space # Bar
            BY DEF Letter, Space, Bar
        <3> QED
            BY <1>1, <3>1, <3>2
    <2>2. ASSUME NEW i \in Nat, i \in NoBar PROVE i + 1 \in NoBar
        <3>1. SUFFICES ASSUME i + 1 <= n, NEW m \in 1 .. 2 * (i + 1) + 2 PROVE input[m] # Bar
            OBVIOUS
        <3>2. i + 1 \in 1 .. n
            BY <1>1, <3>1
        <3>3. input[2 * (i + 1) + 1] # Bar /\ input[2 * (i + 1) + 2] # Bar
            <4>1. input[2 * (i + 1) + 1] = Backslash /\ input[2 * (i + 1) + 2] = w[i + 1]
                BY <1>1, <3>2
            <4>2. w[i + 1] # Bar
                BY <3>2 DEF Range
            <4> QED
                BY <4>1, <4>2 DEF Backslash, Bar
        <3>4. \/ m \in 1 .. 2 * i + 2
              \/ m = 2 * (i + 1) + 1 \/ m = 2 * (i + 1) + 2
            OBVIOUS
        <3>5. \A x \in 1 .. 2 * i + 2 : input[x] # Bar
            BY <2>2, <3>1, <3>2
        <3> QED
            BY <3>3, <3>4, <3>5
    <2> HIDE DEF NoBar
    <2>3. \A i \in Nat : i \in NoBar => i + 1 \in NoBar
        BY <2>2
    <2> QED
        BY <2>1, <2>3, Induction
<1>4. \A m \in 1 .. len : input[m] # Bar
    <2>1. n \in NoBar
        BY <1>1, <1>3
    <2> QED
        BY <1>1, <2>1
<1> HIDE DEF NoBar
<1>5. len \in Nat
    BY <1>1
<1> HIDE DEF len
<1> DEFINE Reached == {k \in Nat : k <= len => OnePart(h[k], input, k)}
<1>6. 0 \in Reached
    <2>1. SubSeq(input, 1, 0) = <<>>
        BY <1>1, StartsOf
    <2>2. h[0].parts = <<<<>>>>
        BY <1>2 DEF Cutting, CutStart
    <2> QED
        BY <2>1, <2>2 DEF OnePart
<1>7. ASSUME NEW k \in Nat, k \in Reached PROVE k + 1 \in Reached
    <2>1. SUFFICES ASSUME k + 1 <= len PROVE OnePart(h[k + 1], input, k + 1)
        OBVIOUS
    <2> DEFINE m == k + 1
    <2>2. m \in 1 .. Len(input) /\ m \in 1 .. len /\ m - 1 = k /\ k \in 0 .. Len(input) /\ k <= len
        BY <1>1, <1>5, <2>1
    <2>3. OnePart(h[k], input, k)
        BY <1>7, <2>2
    <2>4. h[m] = Cut1(h[k], input[m]) /\ h[k] \in CutState
        <3> HIDE DEF m, Reached
        <3> QED
            BY <1>2, <2>2 DEF Cutting
    <2> HIDE DEF m, Reached
    <2>5. input[m] # Bar
        BY <1>4, <2>2
    <2>6. OnePart(h[m], input, m)
        BY <1>1, <2>2, <2>3, <2>4, <2>5, CutGoesOn
    <2> QED
        BY <2>6 DEF m
<1> HIDE DEF Reached
<1>8. \A k \in Nat : k \in Reached
    <2>1. \A k \in Nat : k \in Reached => k + 1 \in Reached
        BY <1>7
    <2> QED
        BY <1>6, <2>1, Induction
<1>9. SubSeq(input, 1, len) = input
    BY <1>1, StartsOf
<1>10. OnePart(h[len], input, len)
    <2>1. len <= len
        BY <1>5
    <2> QED
        BY <1>5, <1>8, <2>1 DEF Reached
<1> QED
    BY <1>1, <1>2, <1>9, <1>10 DEF OnePart, input

----------------------------------------------------------------------------
(* Words of a command line arrive.                                         *)

LEMMA WordIsRead ==
    ASSUME NEW input, NEW w \in Seq(Character), w # <<>>,
           NamedLine(input), Tokenize(input) = <<<<Letter>>, w>>,
           Segments(input) = <<input>>, input[Len(input)] # Space
    PROVE  ParsePipeline(input) = Arrived(w)
<1>1. input \in Seq(Typable) /\ input[1] = Letter /\ input # <<>>
    <2>1. input \in Seq(Typable) /\ input[1] = Letter /\ Len(input) >= 2
        BY DEF NamedLine
    <2> QED
        BY <2>1
<1>2. input[1] # Space
    BY <1>1 DEF Letter, Space
<1> QED
    BY <1>1, <1>2, OneSegment

\* The word of a command line is one of those, and what was understood is what the
\* parser makes of the line.
TypingInv ==
    /\ typed \in [word : Seq(Character) \ {<<>>}, style : {"single", "double", "escape"}]
    /\ understood # None => understood = ParsePipeline(<<Letter, Space>> \o Written)

LEMMA QuotedArrives ==
    ASSUME NEW q \in {Apostrophe, Quote}, NEW w \in Seq(Character), q \notin Range(w), w # <<>>
    PROVE  ParsePipeline(InQuotes(q, w)) = Arrived(w)
<1> DEFINE input == InQuotes(q, w)
<1>1. NamedLine(input) /\ Len(input) = Len(w) + 4 /\ input[Len(w) + 4] = q
    BY QuotedPlaces
<1>2. Tokenize(input) = <<<<Letter>>, w>>
    BY QuotedScan
<1>3. Segments(input) = <<input>>
    BY QuotedCut
<1>4. q # Space
    BY DEF Apostrophe, Quote, Space
<1> HIDE DEF input
<1>5. ParsePipeline(input) = Arrived(w)
    BY <1>1, <1>2, <1>3, <1>4, WordIsRead
<1> QED
    BY <1>5 DEF input

LEMMA EscapedArrives ==
    ASSUME NEW w \in Seq(Character), w # <<>>, Bar \notin Range(w), Last(w) # Space
    PROVE  ParsePipeline(WithBackslashes(w)) = Arrived(w)
<1> DEFINE input == WithBackslashes(w)
           n == Len(w)
<1>1. n \in 1 .. n
    BY EmptySeq, LenProperties
<1>2. /\ NamedLine(input) /\ Len(input) = 2 * n + 2
      /\ input[2 * n + 2] = w[n]
    BY <1>1, BackslashPlaces
<1>3. Tokenize(input) = <<<<Letter>>, w>>
    BY EscapedScan
<1>4. Segments(input) = <<input>>
    BY EscapedCut
<1>5. w[n] # Space
    BY DEF Last
<1> HIDE DEF input, n
<1>6. ParsePipeline(input) = Arrived(w)
    BY <1>2, <1>3, <1>4, <1>5, WordIsRead
<1> QED
    BY <1>6 DEF input

LEMMA QuotedAgain ==
    ASSUME NEW q \in {Apostrophe, Quote}, NEW w \in Seq(Character)
    PROVE  <<Letter, Space>> \o (<<q>> \o w \o <<q>>) = InQuotes(q, w)
    BY DEF InQuotes

LEMMA TypingInvariant == TypingSpec => []TypingInv
<1>1. TypingInit => TypingInv
    <2> SUFFICES ASSUME TypingInit PROVE TypingInv
        OBVIOUS
    <2>1. ASSUME NEW w \in Word PROVE w \in Seq(Character) \ {<<>>}
        <3>1. PICK n \in 1 .. MaxWord : w \in [1 .. n -> Character]
            BY DEF Word
        <3>2. n \in Nat /\ n > 0 /\ 1 \in 1 .. n
            BY <3>1, TextAssumption
        <3>3. w \in Seq(Character)
            BY <3>1, <3>2
        <3>4. w # <<>>
            <4>1. DOMAIN w = 1 .. n
                BY <3>1
            <4> QED
                BY <3>2, <4>1
        <3> QED
            BY <3>3, <3>4
    <2> QED
        BY <2>1 DEF TypingInit, TypingInv
<1>2. TypingInv /\ [ParsesLine]_typingVars => TypingInv'
    BY DEF TypingInv, ParsesLine, typingVars, Written
<1> QED
    BY <1>1, <1>2, PTL DEF TypingSpec

LEMMA TypingArrives == TypingInv => WordsArrive
<1> SUFFICES ASSUME TypingInv, understood # None, Protected
             PROVE  understood = Arrived(typed.word)
    BY DEF WordsArrive, Arrived
<1> DEFINE w == typed.word
<1>1. w \in Seq(Character) /\ w # <<>> /\ typed.style \in {"single", "double", "escape"}
    BY DEF TypingInv
<1>2. understood = ParsePipeline(<<Letter, Space>> \o Written)
    BY DEF TypingInv
<1>3. CASE typed.style = "single"
    <2>1. Apostrophe \notin Range(w)
        BY <1>3 DEF Protected
    <2>2. Written = <<Apostrophe>> \o w \o <<Apostrophe>>
        BY <1>3 DEF Written
    <2> HIDE DEF w
    <2> DEFINE q == Apostrophe
    <2>3. q \in {Apostrophe, Quote} /\ Written = <<q>> \o w \o <<q>> /\ q \notin Range(w)
        BY <2>1, <2>2
    <2> HIDE DEF q
    <2>4. ParsePipeline(InQuotes(q, w)) = Arrived(w)
        BY <1>1, <2>3, QuotedArrives
    <2>5. <<Letter, Space>> \o Written = InQuotes(q, w)
        BY <1>1, <2>3, QuotedAgain
    <2> QED
        BY <1>2, <2>4, <2>5 DEF w
<1>4. CASE typed.style = "double"
    <2>1. Quote \notin Range(w)
        BY <1>4 DEF Protected
    <2>2. Written = <<Quote>> \o w \o <<Quote>>
        BY <1>4 DEF Written
    <2> HIDE DEF w
    <2> DEFINE q == Quote
    <2>3. q \in {Apostrophe, Quote} /\ Written = <<q>> \o w \o <<q>> /\ q \notin Range(w)
        BY <2>1, <2>2
    <2> HIDE DEF q
    <2>4. ParsePipeline(InQuotes(q, w)) = Arrived(w)
        BY <1>1, <2>3, QuotedArrives
    <2>5. <<Letter, Space>> \o Written = InQuotes(q, w)
        BY <1>1, <2>3, QuotedAgain
    <2> QED
        BY <1>2, <2>4, <2>5 DEF w
<1>5. CASE typed.style = "escape"
    <2>1. Bar \notin Range(w) /\ Last(w) # Space
        BY <1>5 DEF Protected
    <2>2. Written = Escaped(w)
        BY <1>5 DEF Written
    <2> HIDE DEF w
    <2>3. ParsePipeline(WithBackslashes(w)) = Arrived(w)
        BY <1>1, <2>1, EscapedArrives
    <2> QED
        BY <1>2, <2>2, <2>3 DEF w, WithBackslashes
<1> QED
    BY <1>1, <1>3, <1>4, <1>5

\* Every word that its quotes or backslashes protect arrives letter for letter, in one
\* command, whatever its length and letters: the two scans of the parser agree.
THEOREM WordsAlwaysArrive == TypingSpec => []WordsArrive
    BY TypingInvariant, TypingArrives, PTL

----------------------------------------------------------------------------
(* Texts and their lines: splitting a longer text.                         *)

\* What is true of the empty sequence, and of a sequence with one more item, is true
\* of all.
LEMMA SequenceInduction ==
    ASSUME NEW A, NEW S, <<>> \in S,
           \A s \in Seq(A), x \in A : s \in S => Append(s, x) \in S
    PROVE  \A s \in Seq(A) : s \in S
<1> DEFINE Reached == {n \in Nat : \A s \in Seq(A) : Len(s) = n => s \in S}
<1>1. 0 \in Reached
    BY EmptySeq
<1>2. ASSUME NEW n \in Nat, n \in Reached PROVE n + 1 \in Reached
    <2>1. SUFFICES ASSUME NEW s \in Seq(A), Len(s) = n + 1 PROVE s \in S
        OBVIOUS
    <2>2. s # <<>>
        BY <2>1, EmptySeq
    <2>3. PICK t \in Seq(A), x \in A : s = Append(t, x)
        BY <2>2, SequenceEmptyOrAppend
    <2>4. Len(t) = n
        <3>1. Len(s) = Len(t) + 1 /\ Len(t) \in Nat
            BY <2>3, AppendProperties, LenProperties
        <3> QED
            BY <2>1, <3>1
    <2>5. t \in S
        BY <1>2, <2>4
    <2> QED
        BY <2>3, <2>5
<1>3. \A n \in Nat : n \in Reached
    <2> HIDE DEF Reached
    <2>1. \A n \in Nat : n \in Reached => n + 1 \in Reached
        BY <1>2
    <2> QED
        BY <1>1, <2>1, Induction
<1> QED
    BY <1>3

\* The pieces of a text: at least one.
Parts(A) == {parts \in Seq(Seq(A)) : parts # <<>>}

Split1(parts, c, separator) ==
    IF c = separator THEN Append(parts, <<>>)
    ELSE [parts EXCEPT ![Len(parts)] = Append(@, c)]

LEMMA NoParts ==
    ASSUME NEW A
    PROVE  <<<<>>>> \in Parts(A)
    BY DEF Parts

LEMMA PartsLast ==
    ASSUME NEW A, NEW parts \in Parts(A)
    PROVE  /\ parts \in Seq(Seq(A)) /\ parts # <<>> /\ Len(parts) \in Nat /\ Len(parts) > 0
           /\ Len(parts) \in 1 .. Len(parts) /\ parts[Len(parts)] \in Seq(A)
<1>1. parts \in Seq(Seq(A)) /\ parts # <<>>
    BY DEF Parts
<1> QED
    BY <1>1

LEMMA Split1Type ==
    ASSUME NEW A, NEW separator, NEW parts \in Parts(A \ {separator}), NEW c \in A
    PROVE  Split1(parts, c, separator) \in Parts(A \ {separator})
<1> DEFINE B == A \ {separator}
<1>1. parts \in Seq(Seq(B)) /\ Len(parts) \in 1 .. Len(parts) /\ parts[Len(parts)] \in Seq(B)
    BY PartsLast
<1> HIDE DEF B
<1>2. Append(parts, <<>>) \in Parts(B)
    <2>1. <<>> \in Seq(B)
        BY EmptySeq
    <2> QED
        BY <1>1, <2>1, AppendProperties DEF Parts
<1>3. c # separator => [parts EXCEPT ![Len(parts)] = Append(@, c)] \in Parts(B)
    <2> DEFINE e == Append(parts[Len(parts)], c)
               new == [parts EXCEPT ![Len(parts)] = e]
    <2> HAVE c # separator
    <2>1. e \in Seq(B)
        <3>1. c \in B
            BY DEF B
        <3> HIDE DEF B
        <3> QED
            BY <1>1, <3>1
    <2> HIDE DEF e
    <2>2. new \in Seq(Seq(B)) /\ Len(new) = Len(parts)
        BY <1>1, <2>1, ExceptSeq
    <2>3. new # <<>>
        BY <1>1, <2>2, EmptySeq
    <2> QED
        BY <2>2, <2>3 DEF Parts, e
<1> QED
    BY <1>2, <1>3 DEF Split1, B

\* A text is split character by character.
Splits(A, s, separator) ==
    \E h \in [0 .. Len(s) -> Parts(A \ {separator})] :
        /\ h[0] = <<<<>>>>
        /\ \A k \in 1 .. Len(s) : h[k] = Split1(h[k - 1], s[k], separator)
        /\ SplitAt(s, separator) = h[Len(s)]

LEMMA SplitSteps ==
    ASSUME NEW A,
           NEW s \in Seq(A),
           NEW separator
    PROVE  Splits(A, s, separator)
<1> DEFINE n == Len(s)
           V == Parts(A \ {separator})
           base == <<<<>>>>
           step == [k \in 1 .. n |-> [v \in V |-> Split1(v, s[k], separator)]]
           Is(g) == g = [S \in SUBSET DOMAIN s |->
                           IF S = {} THEN <<<<>>>> ELSE Split1(g[S \ {Max(S)}], s[Max(S)], separator)]
           it == CHOOSE g : Is(g)
<1>1. n \in Nat /\ DOMAIN s = 1 .. n /\ base \in V
    BY NoParts
<1>2. step \in [1 .. n -> [V -> V]]
    BY Split1Type
<1>3. \A k \in 1 .. n, v \in V : step[k][v] = Split1(v, s[k], separator)
    OBVIOUS
<1>4. ASSUME NEW g \in [SUBSET (1 .. n) -> V], Folding(g, base, n, step)
      PROVE  Stepping(it, V, base, n, step)
    <2> HIDE DEF n, step, V
    <2>1. \A S \in SUBSET (1 .. n) :
              S # {} => Max(S) \in 1 .. n /\ S \ {Max(S)} \in SUBSET (1 .. n)
        BY <1>1, StepsDown
    <2>2. g[{}] = base
        BY <1>4 DEF Folding
    <2>3. ASSUME NEW S \in SUBSET (1 .. n), S # {}
          PROVE  g[S] = Split1(g[S \ {Max(S)}], s[Max(S)], separator)
        <3> HIDE DEF base, it, Is
        <3>1. Max(S) \in 1 .. n /\ g[S \ {Max(S)}] \in V
            BY <2>1, <2>3
        <3>2. g[S] = step[Max(S)][g[S \ {Max(S)}]]
            BY <1>4, <2>3 DEF Folding
        <3> QED
            BY <1>3, <3>1, <3>2
    <2>4. Is(g)
        BY <1>1, <2>2, <2>3
    <2>5. Is(it)
        BY <2>4
    <2> HIDE DEF it
    <2> QED
        BY <1>1, <1>3, <2>1, <2>5 DEF Stepping
<1>5. ChosenToFold(it, V, base, n, step)
    <2> HIDE DEF n, step, it, V, base, Is
    <2> QED
        BY <1>4 DEF ChosenToFold
<1>6. HasTrace(it, V, base, n, step)
    <2> HIDE DEF n, step, it, V, base, Is
    <2> QED
        BY <1>1, <1>2, <1>5, FoldHasTrace
<1>7. PICK h \in [0 .. n -> V] : Trace(h, base, n, step) /\ it[1 .. n] = h[n]
    <2> HIDE DEF n, step, it, V, base, Is
    <2> QED
        BY <1>6 DEF HasTrace
<1>8. \A k \in 1 .. n : h[k] = Split1(h[k - 1], s[k], separator)
    <2>1. \A k \in 1 .. n : h[k - 1] \in V
        BY <1>1
    <2>2. \A k \in 1 .. n : h[k] = step[k][h[k - 1]]
        BY <1>7 DEF Trace
    <2> HIDE DEF n, it, step, V, base
    <2> QED
        BY <1>3, <2>1, <2>2
<1>9. SplitAt(s, separator) = it[DOMAIN s]
    BY DEF SplitAt, Split1, FoldLeft, MapThenFoldSet
<1> HIDE DEF it
<1> QED
    BY <1>1, <1>7, <1>8, <1>9 DEF Trace, Splits

\* One more character.
LEMMA SplitAppend ==
    ASSUME NEW A,
           NEW separator,
           NEW s \in Seq(A),
           NEW x \in A
    PROVE  \E v \in Parts(A \ {separator}) : SplitAt(s, separator) = v /\ SplitAt(Append(s, x), separator) = Split1(v, x, separator)
<1> DEFINE n == Len(s)
           t == Append(s, x)
<1>1. n \in Nat /\ t \in Seq(A) /\ Len(t) = n + 1 /\ t[n + 1] = x /\ \A k \in 1 .. n : t[k] = s[k]
    BY AppendProperties
<1> HIDE DEF t
<1>2. PICK h \in [0 .. n -> Parts(A \ {separator})] :
          /\ h[0] = <<<<>>>>
          /\ \A k \in 1 .. n : h[k] = Split1(h[k - 1], s[k], separator)
          /\ SplitAt(s, separator) = h[n]
    BY SplitSteps DEF Splits
<1>3. Splits(A, t, separator)
    BY <1>1, SplitSteps
<1>4. PICK g \in [0 .. n + 1 -> Parts(A \ {separator})] :
          /\ g[0] = <<<<>>>>
          /\ \A k \in 1 .. n + 1 : g[k] = Split1(g[k - 1], t[k], separator)
          /\ SplitAt(t, separator) = g[n + 1]
    BY <1>1, <1>3 DEF Splits
<1> HIDE DEF n
<1> DEFINE Reached == {k \in Nat : k <= n => g[k] = h[k]}
<1>5. 0 \in Reached
    BY <1>2, <1>4
<1>6. \A k \in Nat : k \in Reached => k + 1 \in Reached
    <2>1. SUFFICES ASSUME NEW k \in Nat, k \in Reached, k + 1 <= n PROVE g[k + 1] = h[k + 1]
        OBVIOUS
    <2>2. k + 1 \in 1 .. n /\ k + 1 \in 1 .. n + 1 /\ (k + 1) - 1 = k /\ k <= n
        BY <1>1, <2>1
    <2>3. g[k] = h[k]
        BY <2>1, <2>2
    <2> HIDE DEF Reached
    <2>4. t[k + 1] = s[k + 1]
        BY <1>1, <2>2
    <2>5. g[k + 1] = Split1(g[k], t[k + 1], separator)
        BY <1>4, <2>2
    <2>6. h[k + 1] = Split1(h[k], s[k + 1], separator)
        BY <1>2, <2>2
    <2> QED
        BY <2>3, <2>4, <2>5, <2>6
<1> HIDE DEF Reached
<1>7. \A k \in Nat : k \in Reached
    BY <1>5, <1>6, Induction
<1>8. g[n] = h[n] /\ h[n] \in Parts(A \ {separator})
    <2>1. n <= n /\ n \in 0 .. n
        BY <1>1
    <2> QED
        BY <1>1, <1>2, <1>7, <2>1 DEF Reached
<1>9. g[n + 1] = Split1(h[n], x, separator)
    <2>1. n + 1 \in 1 .. n + 1 /\ (n + 1) - 1 = n
        BY <1>1
    <2>2. g[n + 1] = Split1(g[n], t[n + 1], separator)
        BY <1>4, <2>1
    <2> QED
        BY <1>1, <1>8, <2>2
<1> QED
    BY <1>2, <1>4, <1>8, <1>9 DEF t

LEMMA SplitType ==
    ASSUME NEW A, NEW s \in Seq(A), NEW separator
    PROVE  SplitAt(s, separator) \in Parts(A \ {separator})
<1>1. PICK h \in [0 .. Len(s) -> Parts(A \ {separator})] : SplitAt(s, separator) = h[Len(s)]
    BY SplitSteps DEF Splits
<1>2. Len(s) \in 0 .. Len(s)
    BY LenProperties
<1> QED
    BY <1>1, <1>2

LEMMA SplitNothing ==
    ASSUME NEW separator
    PROVE  SplitAt(<<>>, separator) = <<<<>>>>
<1> DEFINE s == <<>>
<1>1. s \in Seq({}) /\ Len(s) = 0
    OBVIOUS
<1> HIDE DEF s
<1>2. Splits({}, s, separator)
    BY <1>1, SplitSteps
<1>3. SplitAt(s, separator) = <<<<>>>>
    BY <1>1, <1>2 DEF Splits
<1> QED
    BY <1>3 DEF s

LEMMA SplitMore ==
    ASSUME NEW A, NEW s \in Seq(A), NEW x \in A, NEW separator
    PROVE  SplitAt(Append(s, x), separator) = Split1(SplitAt(s, separator), x, separator)
<1>1. PICK v \in Parts(A \ {separator}) : SplitAt(s, separator) = v /\ SplitAt(Append(s, x), separator) = Split1(v, x, separator)
    BY SplitAppend
<1> QED
    BY <1>1

\* A text without separators is one piece.
LEMMA SplitPlain ==
    ASSUME NEW A, NEW separator, separator \notin A
    PROVE  \A s \in Seq(A) : SplitAt(s, separator) = <<s>>
<1> DEFINE S == {s \in Seq(A) : SplitAt(s, separator) = <<s>>}
<1>1. <<>> \in S
    BY SplitNothing, EmptySeq
<1>2. ASSUME NEW s \in Seq(A), NEW x \in A, s \in S PROVE Append(s, x) \in S
    <2>1. SplitAt(Append(s, x), separator) = Split1(<<s>>, x, separator)
        BY <1>2, SplitMore
    <2>2. Split1(<<s>>, x, separator) = [<<s>> EXCEPT ![Len(<<s>>)] = Append(<<s>>[Len(<<s>>)], x)]
        BY DEF Split1
    <2>3. [<<s>> EXCEPT ![Len(<<s>>)] = Append(<<s>>[Len(<<s>>)], x)] = <<Append(s, x)>>
        OBVIOUS
    <2>4. Append(s, x) \in Seq(A)
        BY AppendProperties
    <2> QED
        BY <2>1, <2>2, <2>3, <2>4
<1> HIDE DEF S
<1>3. \A s \in Seq(A) : s \in S
    <2>1. \A s \in Seq(A), x \in A : s \in S => Append(s, x) \in S
        BY <1>2
    <2> QED
        BY <1>1, <2>1, SequenceInduction
<1> QED
    BY <1>3 DEF S

\* The last piece, and those before it.
LEMMA FrontLast ==
    ASSUME NEW A, NEW s \in Seq(A), s # <<>>
    PROVE  /\ Front(s) \in Seq(A) /\ Last(s) \in A /\ Len(Front(s)) = Len(s) - 1
           /\ Front(s) \o <<Last(s)>> = s
           /\ \A i \in 1 .. Len(s) - 1 : Front(s)[i] = s[i]
<1> DEFINE n == Len(s)
<1>1. n \in Nat /\ n > 0 /\ n \in 1 .. Len(s) /\ n - 1 \in 0 .. Len(s) /\ 1 \in 1 .. Len(s)
    OBVIOUS
<1>2. Front(s) = SubSeq(s, 1, n - 1) /\ Last(s) = s[n]
    BY DEF Front, Last
<1>3. Front(s) \in Seq(A) /\ Len(Front(s)) = n - 1 /\ Last(s) \in A
    <2>1. s[n] \in A
        BY <1>1, ElementOfSeq
    <2> DEFINE m == n - 1
    <2>2. m \in 0 .. Len(s)
        BY <1>1
    <2> HIDE DEF m
    <2>3. SubSeq(s, 1, m) \in Seq(A) /\ Len(SubSeq(s, 1, m)) = m
        BY <2>2, StartsOf
    <2> QED
        BY <1>2, <2>1, <2>3 DEF m
<1>4. SubSeq(s, 1, n) = SubSeq(s, 1, n - 1) \o <<s[n]>>
    BY <1>1, SubSeqRecursiveSecond
<1>5. SubSeq(s, 1, n) = s
    BY StartsOf
<1>6. \A i \in 1 .. n - 1 : SubSeq(s, 1, n - 1)[i] = s[i]
    <2>1. \A i \in 1 .. n - 1 : s[i] \in A
        BY <1>1, ElementOfSeq
    <2>2. 1 \in Int /\ n - 1 \in Int /\ (n - 1) - 1 + 1 = n - 1 /\ \A i \in 1 .. n - 1 : 1 + i - 1 = i
        BY <1>1
    <2>3. \A i \in 1 .. (n - 1) - 1 + 1 : SubSeq(s, 1, n - 1)[i] = s[1 + i - 1]
        BY <2>1, <2>2, SubSeqProperties
    <2> QED
        BY <2>2, <2>3
<1> QED
    BY <1>2, <1>3, <1>4, <1>5, <1>6

LEMMA FrontLastOfConcat ==
    ASSUME NEW A, NEW s \in Seq(A), NEW t \in Seq(A), t # <<>>
    PROVE  Front(s \o t) = s \o Front(t) /\ Last(s \o t) = Last(t)
<1> DEFINE m == Len(s)
           n == Len(t)
           u == s \o t
<1>1. m \in Nat /\ n \in Nat /\ n > 0
    OBVIOUS
<1>2. u \in Seq(A) /\ Len(u) = m + n /\ \A i \in 1 .. m + n : u[i] = IF i <= m THEN s[i] ELSE t[i - m]
    BY ConcatProperties
<1>3. u # <<>>
    BY <1>1, <1>2, EmptySeq
<1> HIDE DEF u
<1>4. /\ Front(u) \in Seq(A) /\ Len(Front(u)) = m + n - 1
      /\ \A i \in 1 .. m + n - 1 : Front(u)[i] = u[i]
    <2>1. /\ Front(u) \in Seq(A) /\ Len(Front(u)) = Len(u) - 1
          /\ \A i \in 1 .. Len(u) - 1 : Front(u)[i] = u[i]
        BY <1>2, <1>3, FrontLast
    <2> HIDE DEF m, n
    <2>2. Len(u) - 1 = m + n - 1
        <3>1. Len(u) = m + n
            BY <1>2
        <3> QED
            BY <1>1, <3>1
    <2> DEFINE fu == Front(u)
               e == Len(u) - 1
    <2>3. /\ fu \in Seq(A) /\ Len(fu) = e
          /\ \A i \in 1 .. e : fu[i] = u[i]
        BY <2>1
    <2>4. e = m + n - 1
        BY <2>2
    <2> HIDE DEF fu, e
    <2>5. /\ fu \in Seq(A) /\ Len(fu) = m + n - 1
          /\ \A i \in 1 .. m + n - 1 : fu[i] = u[i]
        BY <2>3, <2>4
    <2> QED
        BY <2>5 DEF fu
<1>5. Front(t) \in Seq(A) /\ Len(Front(t)) = n - 1 /\ \A i \in 1 .. n - 1 : Front(t)[i] = t[i]
    BY FrontLast
<1> DEFINE v == s \o Front(t)
<1>6. /\ v \in Seq(A) /\ Len(v) = m + (n - 1)
      /\ \A i \in 1 .. m + (n - 1) : v[i] = IF i <= m THEN s[i] ELSE Front(t)[i - m]
    <2> DEFINE ft == Front(t)
    <2>1. ft \in Seq(A) /\ Len(ft) = n - 1
        BY <1>5
    <2> HIDE DEF ft
    <2> DEFINE vv == s \o ft
    <2>2. /\ vv \in Seq(A) /\ Len(vv) = Len(s) + Len(ft)
          /\ \A i \in 1 .. Len(s) + Len(ft) : vv[i] = IF i <= Len(s) THEN s[i] ELSE ft[i - Len(s)]
        BY <2>1, ConcatProperties
    <2> HIDE DEF vv, n
    <2>3. /\ vv \in Seq(A) /\ Len(vv) = m + (n - 1)
          /\ \A i \in 1 .. m + (n - 1) : vv[i] = IF i <= m THEN s[i] ELSE ft[i - m]
        BY <2>1, <2>2
    <2> QED
        BY <2>3 DEF vv, ft
<1> HIDE DEF v, m, n
<1>7. \A i \in 1 .. m + n - 1 : Front(u)[i] = v[i]
    <2> TAKE i \in 1 .. m + n - 1
    <2>1. CASE i <= m
        <3>1. i \in 1 .. m + n /\ i \in 1 .. m + (n - 1)
            BY <1>1
        <3> QED
            BY <1>2, <1>4, <1>6, <2>1, <3>1
    <2>2. CASE ~(i <= m)
        <3>1. i \in 1 .. m + n /\ i \in 1 .. m + (n - 1) /\ i - m \in 1 .. n - 1
            BY <1>1, <2>2
        <3>2. Front(u)[i] = t[i - m] /\ v[i] = Front(t)[i - m]
            BY <1>2, <1>4, <1>6, <2>2, <3>1
        <3> QED
            BY <1>5, <3>1, <3>2
    <2> QED
        BY <2>1, <2>2
<1>8. Front(u) = v
    <2>1. Len(Front(u)) = Len(v) /\ Len(Front(u)) = m + n - 1
        BY <1>1, <1>4, <1>6
    <2> QED
        BY <1>4, <1>6, <1>7, <2>1, SeqEqual
<1>9. Last(u) = Last(t)
    <2>1. m + n \in 1 .. m + n /\ ~(m + n <= m) /\ (m + n) - m = n
        BY <1>1
    <2>2. u[m + n] = t[n]
        BY <1>2, <2>1
    <2> QED
        BY <1>2, <2>2 DEF Last, n
<1> QED
    BY <1>8, <1>9 DEF u, v

LEMMA Split1After ==
    ASSUME NEW A, NEW f \in Seq(Seq(A)), NEW parts \in Parts(A), NEW c \in A, NEW separator
    PROVE  Split1(f \o parts, c, separator) = f \o Split1(parts, c, separator)
<1> DEFINE m == Len(f)
           n == Len(parts)
           u == f \o parts
           T == Seq(A)
<1>1. /\ parts \in Seq(T) /\ f \in Seq(T) /\ m \in Nat /\ n \in Nat /\ n > 0 /\ n \in 1 .. n
      /\ parts[n] \in T
    BY PartsLast
<1>2. <<>> \in T
    BY EmptySeq
<1>2a. Append(parts[n], c) \in T
    BY <1>1
<1> HIDE DEF T
<1>3. u \in Seq(T) /\ Len(u) = m + n /\ \A i \in 1 .. m + n : u[i] = IF i <= m THEN f[i] ELSE parts[i - m]
    BY <1>1, ConcatProperties
<1>4. CASE c = separator
    <2>1. Append(u, <<>>) = u \o <<<<>>>> /\ Append(parts, <<>>) = parts \o <<<<>>>>
        BY <1>1, <1>2, <1>3, AppendIsConcat
    <2>2. <<<<>>>> \in Seq(T)
        BY <1>2
    <2>3. (f \o parts) \o <<<<>>>> = f \o (parts \o <<<<>>>>)
        BY <1>1, <2>2, ConcatAssociative
    <2> QED
        BY <1>4, <2>1, <2>3 DEF Split1
<1>5. CASE c # separator
    <2> DEFINE e == Append(parts[n], c)
               p == [parts EXCEPT ![n] = e]
               v == [u EXCEPT ![m + n] = e]
    <2>1. u[m + n] = parts[n]
        <3>1. m + n \in 1 .. m + n /\ ~(m + n <= m) /\ (m + n) - m = n
            BY <1>1
        <3> QED
            BY <1>3, <3>1
    <2>2. Split1(parts, c, separator) = p /\ Split1(u, c, separator) = v
        BY <1>3, <1>5, <2>1 DEF Split1
    <2>3. e \in T
        BY <1>2a
    <2> HIDE DEF e, u
    <2>4. p \in Seq(T) /\ Len(p) = n /\ \A j \in 1 .. n : p[j] = IF j = n THEN e ELSE parts[j]
        BY <1>1, <2>3, ExceptSeq
    <2>5. m + n \in 1 .. Len(u)
        BY <1>1, <1>3
    <2>6. v \in Seq(T) /\ Len(v) = m + n /\ \A j \in 1 .. m + n : v[j] = IF j = m + n THEN e ELSE u[j]
        BY <1>3, <2>3, <2>5, ExceptSeq
    <2> HIDE DEF p, v
    <2> DEFINE w == f \o p
    <2>7. w \in Seq(T) /\ Len(w) = m + n /\ \A i \in 1 .. m + n : w[i] = IF i <= m THEN f[i] ELSE p[i - m]
        <3> HIDE DEF p
        <3>1. p \in Seq(T) /\ Len(p) = n /\ f \in Seq(T)
            BY <1>1, <2>4
        <3>2. /\ w \in Seq(T) /\ Len(w) = Len(f) + Len(p)
              /\ \A i \in 1 .. Len(f) + Len(p) : w[i] = IF i <= Len(f) THEN f[i] ELSE p[i - Len(f)]
            BY <3>1, ConcatProperties
        <3> HIDE DEF w, n
        <3> QED
            BY <3>1, <3>2
    <2> HIDE DEF w, m, n
    <2>8. \A i \in 1 .. m + n : v[i] = w[i]
        <3> TAKE i \in 1 .. m + n
        <3>1. CASE i <= m
            <4>1. i # m + n
                BY <1>1, <3>1
            <4> QED
                BY <1>3, <2>6, <2>7, <3>1, <4>1
        <3>2. CASE ~(i <= m)
            <4>1. i - m \in 1 .. n /\ (i - m = n <=> i = m + n)
                BY <1>1, <3>2
            <4> QED
                BY <1>3, <2>4, <2>6, <2>7, <3>2, <4>1
        <3> QED
            BY <3>1, <3>2
    <2>9. v = w
        BY <2>6, <2>7, <2>8, SeqEqual
    <2> QED
        BY <2>2, <2>9 DEF w, u
<1> QED
    BY <1>4, <1>5

\* A text that is split in two goes: what is complete in the first, then what is made of
\* its last piece and the second.
LEMMA SplitGoesOn ==
    ASSUME NEW A, NEW separator, NEW a \in Seq(A)
    PROVE  \A b \in Seq(A) :
               SplitAt(a \o b, separator)
                   = Front(SplitAt(a, separator)) \o SplitAt(Last(SplitAt(a, separator)) \o b, separator)
<1> DEFINE B == A \ {separator}
           ls == SplitAt(a, separator)
           f == Front(ls)
           p == Last(ls)
           S == {b \in Seq(A) : SplitAt(a \o b, separator) = f \o SplitAt(p \o b, separator)}
<1>1. ls \in Seq(Seq(B)) /\ ls # <<>>
    BY SplitType DEF Parts
<1> HIDE DEF ls
<1>2. f \in Seq(Seq(B)) /\ p \in Seq(B) /\ f \o <<p>> = ls
    BY <1>1, FrontLast
<1>3. separator \notin B /\ B \subseteq A
    OBVIOUS
<1>4. Seq(B) \subseteq Seq(A)
    BY <1>3, SeqMonotonic
<1>4a. f \in Seq(Seq(A)) /\ p \in Seq(A)
    BY <1>2, <1>4, SeqMonotonic
<1>5. <<>> \in S
    <2>1. a \o <<>> = a /\ p \o <<>> = p
        BY <1>4a, ConcatEmptySeq
    <2>2. SplitAt(p, separator) = <<p>>
        <3> HIDE DEF B, p
        <3> QED
            BY <1>2, <1>3, SplitPlain
    <2>3. <<>> \in Seq(A)
        BY EmptySeq
    <2> QED
        BY <1>2, <2>1, <2>2, <2>3 DEF ls
<1> HIDE DEF B, f, p
<1>6. ASSUME NEW b \in Seq(A), NEW x \in A, b \in S PROVE Append(b, x) \in S
    <2>1. a \o Append(b, x) = Append(a \o b, x) /\ p \o Append(b, x) = Append(p \o b, x)
        <3>1. ASSUME NEW s \in Seq(A) PROVE s \o Append(b, x) = Append(s \o b, x)
            <4>1. Append(b, x) = b \o <<x>> /\ Append(s \o b, x) = (s \o b) \o <<x>>
                BY AppendIsConcat, ConcatProperties
            <4>2. <<x>> \in Seq(A)
                OBVIOUS
            <4> QED
                BY <4>1, <4>2, ConcatAssociative
        <3> QED
            BY <1>4a, <3>1
    <2>2. a \o b \in Seq(A) /\ p \o b \in Seq(A) /\ Append(b, x) \in Seq(A)
        BY <1>4a, ConcatProperties, AppendProperties
    <2>3. SplitAt(a \o Append(b, x), separator) = Split1(SplitAt(a \o b, separator), x, separator)
        BY <2>1, <2>2, SplitMore
    <2>4. SplitAt(p \o Append(b, x), separator) = Split1(SplitAt(p \o b, separator), x, separator)
        BY <2>1, <2>2, SplitMore
    <2> DEFINE parts == SplitAt(p \o b, separator)
    <2>5. parts \in Parts(A)
        <3>1. parts \in Parts(B)
            BY <2>2, SplitType DEF B
        <3>2. Seq(Seq(B)) \subseteq Seq(Seq(A))
            BY <1>4, SeqMonotonic
        <3> QED
            BY <3>1, <3>2 DEF Parts
    <2>6. SplitAt(a \o b, separator) = f \o parts
        BY <1>6
    <2> HIDE DEF parts
    <2>7. Split1(f \o parts, x, separator) = f \o Split1(parts, x, separator)
        BY <1>4a, <2>5, Split1After
    <2> QED
        BY <2>2, <2>3, <2>4, <2>6, <2>7 DEF parts
<1> HIDE DEF S
<1>7. \A b \in Seq(A) : b \in S
    <2>1. \A b \in Seq(A), x \in A : b \in S => Append(b, x) \in S
        BY <1>6
    <2> QED
        BY <1>5, <2>1, SequenceInduction
<1> QED
    BY <1>7 DEF S, f, p, ls

----------------------------------------------------------------------------
(* CSV: what is joined, doubled, scanned and trimmed.                      *)

LEMMA JoinType ==
    ASSUME NEW A, NEW parts \in Seq(Seq(A)), parts # <<>>, NEW separator \in A
    PROVE  [k \in 1 .. Len(Tail(parts)) |-> [v \in Seq(A) |-> (v \o <<separator>> \o Tail(parts)[k])]]
               \in [1 .. Len(Tail(parts)) -> [Seq(A) -> Seq(A)]]
<1> DEFINE t == Tail(parts)
<1>1. t \in Seq(Seq(A))
    BY HeadTailProperties
<1> HIDE DEF t
<1>2. ASSUME NEW k \in 1 .. Len(t), NEW v \in Seq(A)
      PROVE  v \o <<separator>> \o t[k] \in Seq(A)
    <2>1. <<separator>> \in Seq(A) /\ t[k] \in Seq(A)
        BY <1>1
    <2> DEFINE one == <<separator>>
    <2> HIDE DEF one
    <2>2. v \o one \in Seq(A)
        BY <2>1, ConcatProperties DEF one
    <2>3. v \o one \o t[k] \in Seq(A)
        BY <2>1, <2>2, ConcatProperties
    <2> QED
        BY <2>3 DEF one
<1>3. [k \in 1 .. Len(t) |-> [v \in Seq(A) |-> (v \o <<separator>> \o t[k])]] \in [1 .. Len(t) -> [Seq(A) -> Seq(A)]]
    BY <1>2
<1> QED
    BY <1>3 DEF t

LEMMA DoubleType ==
    ASSUME NEW A, Quote \in A, NEW w \in Seq(A)
    PROVE  [k \in 1 .. Len(w) |-> [v \in Seq(A) |-> (v \o (IF w[k] = Quote THEN <<Quote, Quote>> ELSE <<w[k]>>))]]
               \in [1 .. Len(w) -> [Seq(A) -> Seq(A)]]
<1>1. ASSUME NEW k \in 1 .. Len(w), NEW v \in Seq(A)
      PROVE  v \o (IF w[k] = Quote THEN <<Quote, Quote>> ELSE <<w[k]>>) \in Seq(A)
    <2> DEFINE more == IF w[k] = Quote THEN <<Quote, Quote>> ELSE <<w[k]>>
    <2>1. w[k] \in A
        OBVIOUS
    <2>2. <<Quote, Quote>> \in Seq(A) /\ <<w[k]>> \in Seq(A)
        BY <2>1
    <2>3. more \in Seq(A)
        BY <2>2
    <2> HIDE DEF more
    <2>4. v \o more \in Seq(A)
        BY <2>3, ConcatProperties
    <2> QED
        BY <2>4 DEF more
<1> QED
    BY <1>1

\* A line that is being read.
CsvState(A) == [fields : Seq(Seq(A)), current : Seq(A), inQuotes : BOOLEAN, skip : BOOLEAN]
CsvStart == [fields |-> <<>>, current |-> <<>>, inQuotes |-> FALSE, skip |-> FALSE]

LEMMA CsvStartType ==
    ASSUME NEW A
    PROVE  CsvStart \in CsvState(A)
    BY DEF CsvStart, CsvState

LEMMA PlacesType ==
    ASSUME NEW A, NEW line \in Seq(A)
    PROVE  /\ Places(line) \in Seq(1 .. Len(line)) /\ Len(Places(line)) = Len(line)
           /\ Len(Places(line)) \in Nat /\ DOMAIN Places(line) = 1 .. Len(Places(line))
           /\ \A k \in 1 .. Len(line) : Places(line)[k] = k
<1> DEFINE p == Places(line)
           n == Len(line)
<1>1. n \in Nat /\ DOMAIN line = 1 .. n
    BY LenProperties
<1>2. p = [k \in 1 .. n |-> k]
    BY <1>1 DEF Places
<1> HIDE DEF n
<1>3. p \in [1 .. n -> 1 .. n]
    BY <1>2
<1>4. p \in Seq(1 .. n) /\ \A k \in 1 .. n : p[k] = k
    <2> HIDE DEF p
    <2> QED
        BY <1>1, <1>2, <1>3
<1>5. Len(p) = n
    <2>1. DOMAIN p = 1 .. n
        BY <1>2
    <2> HIDE DEF p
    <2>2. Len(p) \in Nat /\ DOMAIN p = 1 .. Len(p)
        BY <1>4, LenProperties
    <2> QED
        BY <1>1, <2>1, <2>2
<1> HIDE DEF p
<1> QED
    BY <1>1, <1>4, <1>5 DEF p, n

\* The first and the last of some numbers up to n.
LEMMA LeastAndGreatest ==
    ASSUME NEW n \in Nat, NEW S \in SUBSET (1 .. n), S # {}
    PROVE  (\E a \in S : \A x \in S : a <= x) /\ (\E b \in S : \A x \in S : x <= b)
<1> DEFINE T == {x \in 1 .. n : n + 1 - x \in S}
<1>1. Max(S) \in S /\ \A x \in S : x <= Max(S)
    BY MaxUpTo
<1>2. PICK y \in S : TRUE
    OBVIOUS
<1>3. n + 1 - y \in 1 .. n /\ n + 1 - (n + 1 - y) = y
    OBVIOUS
<1>4. T \in SUBSET (1 .. n) /\ T # {}
    BY <1>3
<1> DEFINE m == Max(T)
<1> HIDE DEF T
<1>5. m \in T /\ \A x \in T : x <= m
    BY <1>4, MaxUpTo
<1>6. n + 1 - m \in S /\ m \in 1 .. n
    BY <1>5 DEF T
<1> HIDE DEF m
<1>7. ASSUME NEW x \in S PROVE n + 1 - m <= x
    <2>1. n + 1 - x \in 1 .. n /\ n + 1 - (n + 1 - x) = x
        OBVIOUS
    <2>2. n + 1 - x \in T
        BY <2>1 DEF T
    <2>3. n + 1 - x <= m
        BY <1>5, <2>2
    <2> QED
        BY <1>6, <2>1, <2>3
<1> QED
    BY <1>1, <1>6, <1>7

LEMMA TrimmedType ==
    ASSUME NEW A, NEW s \in Seq(A)
    PROVE  Trimmed(s) \in Seq(A)
<1> DEFINE inner == {n \in DOMAIN s : s[n] \notin Blank}
           a == CHOOSE n \in inner : \A m \in inner : n <= m
           b == CHOOSE n \in inner : \A m \in inner : m <= n
<1>1. inner = {} => Trimmed(s) = <<>>
    BY DEF Trimmed
<1>2. inner # {} => Trimmed(s) = SubSeq(s, a, b)
    BY DEF Trimmed
<1>3. ASSUME inner # {} PROVE SubSeq(s, a, b) \in Seq(A)
    <2>0. Len(s) \in Nat /\ DOMAIN s = 1 .. Len(s)
        BY LenProperties
    <2>1. inner \in SUBSET (1 .. Len(s)) /\ inner # {}
        BY <1>3, <2>0
    <2> HIDE DEF inner
    <2>2. (\E n \in inner : \A m \in inner : n <= m) /\ (\E n \in inner : \A m \in inner : m <= n)
        BY <2>0, <2>1, LeastAndGreatest
    <2>4. a \in 1 .. Len(s) /\ b \in 1 .. Len(s)
        BY <2>1, <2>2
    <2> HIDE DEF a, b
    <2>5. \A i \in a .. b : s[i] \in A
        <3>1. \A i \in a .. b : i \in 1 .. Len(s)
            BY <2>0, <2>4
        <3> QED
            BY <3>1, ElementOfSeq
    <2>6. a \in Int /\ b \in Int
        BY <2>4
    <2> HIDE DEF a, b
    <2> QED
        BY <2>5, <2>6, SubSeqProperties
<1> QED
    BY <1>1, <1>2, <1>3, EmptySeq

LEMMA CsvReadType ==
    ASSUME NEW A, Quote \in A, NEW line \in Seq(A), NEW d, NEW n \in 1 .. Len(line), NEW s \in CsvState(A)
    PROVE  CsvRead(line, d, s, n) \in CsvState(A)
<1>1. /\ s.fields \in Seq(Seq(A)) /\ s.current \in Seq(A) /\ s.inQuotes \in BOOLEAN /\ s.skip \in BOOLEAN
      /\ line[n] \in A
    BY DEF CsvState
<1>2. /\ Append(s.current, Quote) \in Seq(A) /\ Append(s.current, line[n]) \in Seq(A) /\ <<>> \in Seq(A)
    BY <1>1, EmptySeq
<1>3. Append(s.fields, Trimmed(s.current)) \in Seq(Seq(A))
    BY <1>1, TrimmedType, AppendProperties
<1>4. [s EXCEPT !.skip = FALSE] \in CsvState(A) /\ [s EXCEPT !.inQuotes = ~@] \in CsvState(A)
    BY DEF CsvState
<1>5. [s EXCEPT !.current = Append(@, Quote), !.skip = TRUE] \in CsvState(A)
    BY <1>2 DEF CsvState
<1>6. [s EXCEPT !.fields = Append(@, Trimmed(s.current)), !.current = <<>>] \in CsvState(A)
    BY <1>2, <1>3 DEF CsvState
<1>7. [s EXCEPT !.current = Append(@, line[n])] \in CsvState(A)
    BY <1>2 DEF CsvState
<1> QED
    BY <1>4, <1>5, <1>6, <1>7 DEF CsvRead

\* The parts of a text, put together one by one.
Joins(A, parts, separator) ==
    \E h \in [0 .. Len(Tail(parts)) -> Seq(A)] :
        /\ h[0] = Head(parts)
        /\ \A k \in 1 .. Len(Tail(parts)) : h[k] = (h[k - 1] \o <<separator>> \o Tail(parts)[k])
        /\ Joined(parts, separator) = h[Len(Tail(parts))]

LEMMA JoinedSteps ==
    ASSUME NEW A,
           NEW parts \in Seq(Seq(A)),
           parts # <<>>,
           NEW separator \in A
    PROVE  Joins(A, parts, separator)
<1> DEFINE n == Len(Tail(parts))
           V == Seq(A)
           base == Head(parts)
           step == [k \in 1 .. n |-> [v \in V |-> (v \o <<separator>> \o Tail(parts)[k])]]
           Is(g) == g = [S \in SUBSET DOMAIN Tail(parts) |->
                           IF S = {} THEN Head(parts) ELSE (g[S \ {Max(S)}] \o <<separator>> \o Tail(parts)[Max(S)])]
           it == CHOOSE g : Is(g)
<1>1. n \in Nat /\ DOMAIN Tail(parts) = 1 .. n /\ base \in V
    BY HeadTailProperties, LenProperties
<1>2. step \in [1 .. n -> [V -> V]]
    BY JoinType
<1>3. \A k \in 1 .. n, v \in V : step[k][v] = (v \o <<separator>> \o Tail(parts)[k])
    OBVIOUS
<1>4. ASSUME NEW g \in [SUBSET (1 .. n) -> V], Folding(g, base, n, step)
      PROVE  Stepping(it, V, base, n, step)
    <2> HIDE DEF n, step, V
    <2>1. \A S \in SUBSET (1 .. n) :
              S # {} => Max(S) \in 1 .. n /\ S \ {Max(S)} \in SUBSET (1 .. n)
        BY <1>1, StepsDown
    <2>2. g[{}] = base
        BY <1>4 DEF Folding
    <2>3. ASSUME NEW S \in SUBSET (1 .. n), S # {}
          PROVE  g[S] = (g[S \ {Max(S)}] \o <<separator>> \o Tail(parts)[Max(S)])
        <3> HIDE DEF base, it, Is
        <3>1. Max(S) \in 1 .. n /\ g[S \ {Max(S)}] \in V
            BY <2>1, <2>3
        <3>2. g[S] = step[Max(S)][g[S \ {Max(S)}]]
            BY <1>4, <2>3 DEF Folding
        <3> QED
            BY <1>3, <3>1, <3>2
    <2>4. Is(g)
        BY <1>1, <2>2, <2>3
    <2>5. Is(it)
        BY <2>4
    <2> HIDE DEF it
    <2> QED
        BY <1>1, <1>3, <2>1, <2>5 DEF Stepping
<1>5. ChosenToFold(it, V, base, n, step)
    <2> HIDE DEF n, step, it, V, base, Is
    <2> QED
        BY <1>4 DEF ChosenToFold
<1>6. HasTrace(it, V, base, n, step)
    <2> HIDE DEF n, step, it, V, base, Is
    <2> QED
        BY <1>1, <1>2, <1>5, FoldHasTrace
<1>7. PICK h \in [0 .. n -> V] : Trace(h, base, n, step) /\ it[1 .. n] = h[n]
    <2> HIDE DEF n, step, it, V, base, Is
    <2> QED
        BY <1>6 DEF HasTrace
<1>8. \A k \in 1 .. n : h[k] = (h[k - 1] \o <<separator>> \o Tail(parts)[k])
    <2>1. \A k \in 1 .. n : h[k - 1] \in V
        <3> HIDE DEF n, V, step, base, it, Is
        <3> QED
            BY <1>1
    <2>2. \A k \in 1 .. n : h[k] = step[k][h[k - 1]]
        BY <1>7 DEF Trace
    <2> HIDE DEF n, it, step, V, base
    <2> QED
        BY <1>3, <2>1, <2>2
<1>9. Joined(parts, separator) = it[DOMAIN Tail(parts)]
    BY DEF Joined, FoldLeft, MapThenFoldSet
<1> HIDE DEF it
<1> QED
    BY <1>1, <1>7, <1>8, <1>9 DEF Trace, Joins

\* A text whose quotes are doubled, character by character.
Doubles(A, w) ==
    \E h \in [0 .. Len(w) -> Seq(A)] :
        /\ h[0] = <<>>
        /\ \A k \in 1 .. Len(w) : h[k] = (h[k - 1] \o (IF w[k] = Quote THEN <<Quote, Quote>> ELSE <<w[k]>>))
        /\ Doubled(w) = h[Len(w)]

LEMMA DoubledSteps ==
    ASSUME NEW A,
           Quote \in A,
           NEW w \in Seq(A)
    PROVE  Doubles(A, w)
<1> DEFINE n == Len(w)
           V == Seq(A)
           base == <<>>
           step == [k \in 1 .. n |-> [v \in V |-> (v \o (IF w[k] = Quote THEN <<Quote, Quote>> ELSE <<w[k]>>))]]
           Is(g) == g = [S \in SUBSET DOMAIN w |->
                           IF S = {} THEN <<>> ELSE (g[S \ {Max(S)}] \o (IF w[Max(S)] = Quote THEN <<Quote, Quote>> ELSE <<w[Max(S)]>>))]
           it == CHOOSE g : Is(g)
<1>1. n \in Nat /\ DOMAIN w = 1 .. n /\ base \in V
    BY EmptySeq, LenProperties
<1>2. step \in [1 .. n -> [V -> V]]
    BY DoubleType
<1>3. \A k \in 1 .. n, v \in V : step[k][v] = (v \o (IF w[k] = Quote THEN <<Quote, Quote>> ELSE <<w[k]>>))
    OBVIOUS
<1>4. ASSUME NEW g \in [SUBSET (1 .. n) -> V], Folding(g, base, n, step)
      PROVE  Stepping(it, V, base, n, step)
    <2> HIDE DEF n, step, V
    <2>1. \A S \in SUBSET (1 .. n) :
              S # {} => Max(S) \in 1 .. n /\ S \ {Max(S)} \in SUBSET (1 .. n)
        BY <1>1, StepsDown
    <2>2. g[{}] = base
        BY <1>4 DEF Folding
    <2>3. ASSUME NEW S \in SUBSET (1 .. n), S # {}
          PROVE  g[S] = (g[S \ {Max(S)}] \o (IF w[Max(S)] = Quote THEN <<Quote, Quote>> ELSE <<w[Max(S)]>>))
        <3> HIDE DEF base, it, Is
        <3>1. Max(S) \in 1 .. n /\ g[S \ {Max(S)}] \in V
            BY <2>1, <2>3
        <3>2. g[S] = step[Max(S)][g[S \ {Max(S)}]]
            BY <1>4, <2>3 DEF Folding
        <3> QED
            BY <1>3, <3>1, <3>2
    <2>4. Is(g)
        BY <1>1, <2>2, <2>3
    <2>5. Is(it)
        BY <2>4
    <2> HIDE DEF it
    <2> QED
        BY <1>1, <1>3, <2>1, <2>5 DEF Stepping
<1>5. ChosenToFold(it, V, base, n, step)
    <2> HIDE DEF n, step, it, V, base, Is
    <2> QED
        BY <1>4 DEF ChosenToFold
<1>6. HasTrace(it, V, base, n, step)
    <2> HIDE DEF n, step, it, V, base, Is
    <2> QED
        BY <1>1, <1>2, <1>5, FoldHasTrace
<1>7. PICK h \in [0 .. n -> V] : Trace(h, base, n, step) /\ it[1 .. n] = h[n]
    <2> HIDE DEF n, step, it, V, base, Is
    <2> QED
        BY <1>6 DEF HasTrace
<1>8. \A k \in 1 .. n : h[k] = (h[k - 1] \o (IF w[k] = Quote THEN <<Quote, Quote>> ELSE <<w[k]>>))
    <2>1. \A k \in 1 .. n : h[k - 1] \in V
        <3> HIDE DEF n, V, step, base, it, Is
        <3> QED
            BY <1>1
    <2>2. \A k \in 1 .. n : h[k] = step[k][h[k - 1]]
        BY <1>7 DEF Trace
    <2> HIDE DEF n, it, step, V, base
    <2> QED
        BY <1>3, <2>1, <2>2
<1>9. Doubled(w) = it[DOMAIN w]
    BY DEF Doubled, FoldLeft, MapThenFoldSet
<1> HIDE DEF it
<1> QED
    BY <1>1, <1>7, <1>8, <1>9 DEF Trace, Doubles

\* A line of CSV, character by character.
CsvReads(A, line, d) ==
    \E h \in [0 .. Len(Places(line)) -> CsvState(A)] :
        /\ h[0] = CsvStart
        /\ \A k \in 1 .. Len(Places(line)) : h[k] = CsvRead(line, d, h[k - 1], Places(line)[k])
        /\ ParseCsvLine(line, d) = Append(h[Len(Places(line))].fields, Trimmed(h[Len(Places(line))].current))

LEMMA CsvSteps ==
    ASSUME NEW A,
           Quote \in A,
           NEW line \in Seq(A),
           NEW d
    PROVE  CsvReads(A, line, d)
<1> DEFINE n == Len(Places(line))
           V == CsvState(A)
           base == CsvStart
           step == [k \in 1 .. n |-> [v \in V |-> CsvRead(line, d, v, Places(line)[k])]]
           Is(g) == g = [S \in SUBSET DOMAIN Places(line) |->
                           IF S = {} THEN CsvStart ELSE CsvRead(line, d, g[S \ {Max(S)}], Places(line)[Max(S)])]
           it == CHOOSE g : Is(g)
<1>1. n \in Nat /\ DOMAIN Places(line) = 1 .. n /\ base \in V
    BY CsvStartType, PlacesType
<1>2. step \in [1 .. n -> [V -> V]]
    BY CsvReadType, PlacesType
<1>3. \A k \in 1 .. n, v \in V : step[k][v] = CsvRead(line, d, v, Places(line)[k])
    OBVIOUS
<1>4. ASSUME NEW g \in [SUBSET (1 .. n) -> V], Folding(g, base, n, step)
      PROVE  Stepping(it, V, base, n, step)
    <2> HIDE DEF n, step, V
    <2>1. \A S \in SUBSET (1 .. n) :
              S # {} => Max(S) \in 1 .. n /\ S \ {Max(S)} \in SUBSET (1 .. n)
        BY <1>1, StepsDown
    <2>2. g[{}] = base
        BY <1>4 DEF Folding
    <2>3. ASSUME NEW S \in SUBSET (1 .. n), S # {}
          PROVE  g[S] = CsvRead(line, d, g[S \ {Max(S)}], Places(line)[Max(S)])
        <3> HIDE DEF base, it, Is
        <3>1. Max(S) \in 1 .. n /\ g[S \ {Max(S)}] \in V
            BY <2>1, <2>3
        <3>2. g[S] = step[Max(S)][g[S \ {Max(S)}]]
            BY <1>4, <2>3 DEF Folding
        <3> QED
            BY <1>3, <3>1, <3>2
    <2>4. Is(g)
        BY <1>1, <2>2, <2>3
    <2>5. Is(it)
        BY <2>4
    <2> HIDE DEF it
    <2> QED
        BY <1>1, <1>3, <2>1, <2>5 DEF Stepping
<1>5. ChosenToFold(it, V, base, n, step)
    <2> HIDE DEF n, step, it, V, base, Is
    <2> QED
        BY <1>4 DEF ChosenToFold
<1>6. HasTrace(it, V, base, n, step)
    <2> HIDE DEF n, step, it, V, base, Is
    <2> QED
        BY <1>1, <1>2, <1>5, FoldHasTrace
<1>7. PICK h \in [0 .. n -> V] : Trace(h, base, n, step) /\ it[1 .. n] = h[n]
    <2> HIDE DEF n, step, it, V, base, Is
    <2> QED
        BY <1>6 DEF HasTrace
<1>8. \A k \in 1 .. n : h[k] = CsvRead(line, d, h[k - 1], Places(line)[k])
    <2>1. \A k \in 1 .. n : h[k - 1] \in V
        <3> HIDE DEF n, V, step, base, it, Is
        <3> QED
            BY <1>1
    <2>2. \A k \in 1 .. n : h[k] = step[k][h[k - 1]]
        BY <1>7 DEF Trace
    <2> HIDE DEF n, it, step, V, base
    <2> QED
        BY <1>3, <2>1, <2>2
<1>9. ParseCsvLine(line, d) = Append(it[DOMAIN Places(line)].fields, Trimmed(it[DOMAIN Places(line)].current))
    BY DEF ParseCsvLine, CsvStart, FoldLeft, MapThenFoldSet
<1> HIDE DEF it
<1> QED
    BY <1>1, <1>7, <1>8, <1>9 DEF Trace, CsvReads

-----------------------------------------------------------------------------
\* What is put together piece by piece begins with what it was before.
Begins(s, t) == Len(s) <= Len(t) /\ \A j \in 1 .. Len(s) : t[j] = s[j]

LEMMA ConcatBegins ==
    ASSUME NEW A, NEW s \in Seq(A), NEW t \in Seq(A)
    PROVE  /\ Begins(s, s \o t) /\ Len(s \o t) = Len(s) + Len(t)
           /\ \A j \in 1 .. Len(t) : (s \o t)[Len(s) + j] = t[j]
<1> DEFINE u == s \o t
<1>1. Len(s) \in Nat /\ Len(t) \in Nat
    BY LenProperties
<1>2. /\ Len(u) = Len(s) + Len(t)
      /\ \A i \in 1 .. Len(s) + Len(t) : u[i] = IF i <= Len(s) THEN s[i] ELSE t[i - Len(s)]
    BY ConcatProperties
<1> HIDE DEF u
<1>3. \A j \in 1 .. Len(s) : u[j] = s[j]
    BY <1>1, <1>2
<1>4. \A j \in 1 .. Len(t) : u[Len(s) + j] = t[j]
    <2> TAKE j \in 1 .. Len(t)
    <2>1. Len(s) + j \in 1 .. Len(s) + Len(t) /\ ~(Len(s) + j <= Len(s)) /\ (Len(s) + j) - Len(s) = j
        BY <1>1
    <2> QED
        BY <1>2, <2>1
<1>5. Begins(s, u)
    BY <1>1, <1>2, <1>3 DEF Begins
<1> QED
    BY <1>2, <1>4, <1>5 DEF u

JoinEnds(s, t, u) ==
    Begins(s, u) /\ Len(u) = Len(s) + Len(t) /\ \A j \in 1 .. Len(t) : u[Len(s) + j] = t[j]

LEMMA Joining ==
    ASSUME NEW A, NEW s, s \in Seq(A), NEW t, t \in Seq(A), NEW u, u = s \o t
    PROVE  JoinEnds(s, t, u)
    BY ConcatBegins DEF JoinEnds

LEMMA GrowingTrace ==
    ASSUME NEW A, NEW n \in Nat, NEW g \in [0 .. n -> Seq(A)], NEW more \in [1 .. n -> Seq(A)],
           \A k \in 1 .. n : g[k] = g[k - 1] \o more[k]
    PROVE  \A k \in 0 .. n : Begins(g[k], g[n])
<1> TAKE k \in 0 .. n
<1> DEFINE Reached == {m \in Nat : k + m <= n => Begins(g[k], g[k + m])}
<1>1. k \in Nat /\ k + 0 = k /\ g[k] \in Seq(A) /\ Len(g[k]) \in Nat
    OBVIOUS
<1>2. 0 \in Reached
    <2>1. Begins(g[k], g[k])
        BY <1>1 DEF Begins
    <2> QED
        BY <1>1, <2>1
<1>3. ASSUME NEW m \in Nat, m \in Reached PROVE m + 1 \in Reached
    <2>1. SUFFICES ASSUME k + (m + 1) <= n PROVE Begins(g[k], g[k + (m + 1)])
        OBVIOUS
    <2> DEFINE i == k + (m + 1)
    <2>2. i \in 1 .. n /\ i - 1 = k + m /\ k + m <= n /\ k + m \in 0 .. n
        BY <1>1, <2>1
    <2>3. Begins(g[k], g[k + m])
        BY <1>3, <2>2
    <2> HIDE DEF i, Reached
    <2>4. g[i] = g[k + m] \o more[i] /\ g[k + m] \in Seq(A) /\ more[i] \in Seq(A)
        BY <2>2
    <2>5. Begins(g[k + m], g[i])
        BY <2>4, ConcatBegins
    <2>6. Len(g[k + m]) \in Nat /\ Len(g[i]) \in Nat
        <3>1. g[i] \in Seq(A)
            BY <2>4, ConcatProperties
        <3> QED
            BY <2>4, <3>1, LenProperties
    <2>7. Begins(g[k], g[i])
        BY <1>1, <2>3, <2>5, <2>6 DEF Begins
    <2> QED
        BY <2>7 DEF i
<1>4. \A m \in Nat : m \in Reached
    <2> HIDE DEF Reached
    <2>1. \A m \in Nat : m \in Reached => m + 1 \in Reached
        BY <1>3
    <2> QED
        BY <1>2, <2>1, Induction
<1>5. n - k \in Nat /\ k + (n - k) = n
    BY <1>1
<1>6. n - k \in Reached
    BY <1>4, <1>5
<1> QED
    BY <1>5, <1>6

-----------------------------------------------------------------------------
\* A state of the scan of a line, outside of a pair of quotes; q is the quote if one is
\* open.  What a character does in it.
CsvAt(fields, current, q) ==
    [fields |-> fields, current |-> current, inQuotes |-> q = Quote, skip |-> FALSE]

LEMMA KeptOutside ==
    ASSUME NEW line, NEW d, NEW n, NEW f, NEW c, line[n] # Quote, line[n] # d
    PROVE  CsvRead(line, d, CsvAt(f, c, Letter), n) = CsvAt(f, Append(c, line[n]), Letter)
    BY DEF CsvRead, CsvAt, Letter, Quote

LEMMA KeptInside ==
    ASSUME NEW line, NEW d, NEW n, NEW f, NEW c, line[n] # Quote
    PROVE  CsvRead(line, d, CsvAt(f, c, Quote), n) = CsvAt(f, Append(c, line[n]), Quote)
    BY DEF CsvRead, CsvAt, Letter, Quote

LEMMA QuotesBegin ==
    ASSUME NEW line, NEW d, NEW n, NEW f, NEW c, line[n] = Quote
    PROVE  CsvRead(line, d, CsvAt(f, c, Letter), n) = CsvAt(f, c, Quote)
<1> DEFINE o == Letter
           t == CsvRead(line, d, CsvAt(f, c, o), n)
<1>1. o # Quote
    BY DEF Letter, Quote
<1> HIDE DEF o
<1>2. t = [CsvAt(f, c, o) EXCEPT !.inQuotes = ~@]
    BY <1>1 DEF CsvRead, CsvAt
<1>3. t = [fields |-> f, current |-> c, inQuotes |-> o # Quote, skip |-> FALSE]
    BY <1>1, <1>2 DEF CsvAt
<1> DEFINE x == o # Quote
<1>4. x = (Quote = Quote)
    BY <1>1
<1> QED
    BY <1>1, <1>3 DEF CsvAt, o

LEMMA QuotesEnd ==
    ASSUME NEW line, NEW d, NEW n, NEW f, NEW c, line[n] = Quote, ~(n < Len(line) /\ line[n + 1] = Quote)
    PROVE  CsvRead(line, d, CsvAt(f, c, Quote), n) = CsvAt(f, c, Letter)
    BY DEF CsvRead, CsvAt, Letter, Quote

LEMMA QuotePair ==
    ASSUME NEW line, NEW d, NEW n, NEW f, NEW c, line[n] = Quote, n < Len(line), line[n + 1] = Quote
    PROVE  CsvRead(line, d, CsvRead(line, d, CsvAt(f, c, Quote), n), n + 1) = CsvAt(f, Append(c, Quote), Quote)
<1>1. CsvRead(line, d, CsvAt(f, c, Quote), n)
          = [fields |-> f, current |-> Append(c, Quote), inQuotes |-> TRUE, skip |-> TRUE]
    BY DEF CsvRead, CsvAt, Letter, Quote
<1> QED
    BY <1>1 DEF CsvRead, CsvAt, Letter, Quote

Delimits(line, n, d) == line[n] = d

LEMMA FieldEnds ==
    ASSUME NEW line, NEW d, NEW n, NEW f, NEW c, Delimits(line, n, d), d # Quote
    PROVE  CsvRead(line, d, CsvAt(f, c, Letter), n) = CsvAt(Append(f, Trimmed(c)), <<>>, Letter)
    BY DEF CsvRead, CsvAt, Letter, Quote, Delimits

\* The states of the scan, and a piece of the line.
CsvTrace(h, line, d) == \A k \in 1 .. Len(line) : h[k] = CsvRead(line, d, h[k - 1], k)
Placed(line, p, e) == p + Len(e) <= Len(line) /\ \A i \in 1 .. Len(e) : line[p + i] = e[i]

LEMMA PlainField ==
    ASSUME NEW line, Len(line) \in Nat, NEW d, NEW h, CsvTrace(h, line, d), NEW p \in Nat,
           NEW A, NEW w \in Seq(A), Placed(line, p, w), \A i \in 1 .. Len(w) : w[i] \notin {d, Quote},
           NEW f, h[p] = CsvAt(f, <<>>, Letter)
    PROVE  h[p + Len(w)] = CsvAt(f, w, Letter)
<1> DEFINE n == Len(w)
           Right(k) == h[p + k] = CsvAt(f, SubSeq(w, 1, k), Letter)
           Reached == {k \in Nat : k <= n => Right(k)}
<1>1. n \in Nat /\ p + 0 = p /\ n <= n
    OBVIOUS
<1>2. /\ SubSeq(w, 1, 0) = <<>> /\ SubSeq(w, 1, n) = w
      /\ \A k \in 1 .. n : Append(SubSeq(w, 1, k - 1), w[k]) = SubSeq(w, 1, k)
    BY StartsOf
<1>3. 0 \in Reached
    BY <1>1, <1>2
<1>4. ASSUME NEW k \in Nat, k \in Reached PROVE k + 1 \in Reached
    <2>1. SUFFICES ASSUME k + 1 <= n PROVE Right(k + 1)
        <3> HIDE DEF Right
        <3> QED
            OBVIOUS
    <2> DEFINE i == p + (k + 1)
    <2>2. k + 1 \in 1 .. n /\ (k + 1) - 1 = k /\ k <= n /\ i - 1 = p + k /\ i \in 1 .. Len(line)
        <3>1. p + n <= Len(line)
            BY DEF Placed
        <3> QED
            BY <1>1, <2>1, <3>1
    <2>3. h[p + k] = CsvAt(f, SubSeq(w, 1, k), Letter)
        BY <1>4, <2>2
    <2>4. line[i] = w[k + 1] /\ line[i] # d /\ line[i] # Quote
        BY <2>2 DEF Placed
    <2> HIDE DEF i, n, Reached
    <2>5. h[i] = CsvRead(line, d, h[p + k], i)
        BY <2>2 DEF CsvTrace
    <2> DEFINE c == SubSeq(w, 1, k)
    <2>6. Append(c, w[k + 1]) = SubSeq(w, 1, k + 1)
        BY <1>2, <2>2
    <2> HIDE DEF c
    <2>7. CsvRead(line, d, CsvAt(f, c, Letter), i) = CsvAt(f, Append(c, line[i]), Letter)
        BY <2>4, KeptOutside
    <2> QED
        BY <2>3, <2>4, <2>5, <2>6, <2>7 DEF c, i
<1>5. \A k \in Nat : k \in Reached
    <2> HIDE DEF Reached
    <2>1. \A k \in Nat : k \in Reached => k + 1 \in Reached
        BY <1>4
    <2> QED
        BY <1>3, <2>1, Induction
<1>6. n \in Reached
    BY <1>1, <1>5
<1> QED
    BY <1>1, <1>2, <1>6

\* A text between quotes, its own quotes doubled.
LEMMA QuotedFieldPlaces ==
    ASSUME NEW A, Quote \in A, NEW w \in Seq(A)
    PROVE  /\ <<Quote>> \o Doubled(w) \o <<Quote>> \in Seq(A) /\ Doubled(w) \in Seq(A)
           /\ Len(<<Quote>> \o Doubled(w) \o <<Quote>>) = Len(Doubled(w)) + 2
           /\ (<<Quote>> \o Doubled(w) \o <<Quote>>)[1] = Quote
           /\ (<<Quote>> \o Doubled(w) \o <<Quote>>)[Len(Doubled(w)) + 2] = Quote
           /\ \A i \in 1 .. Len(Doubled(w)) : (<<Quote>> \o Doubled(w) \o <<Quote>>)[1 + i] = Doubled(w)[i]
<1> DEFINE dd == Doubled(w)
           one == <<Quote>>
<1>1. dd \in Seq(A)
    <2>1. PICK g \in [0 .. Len(w) -> Seq(A)] : dd = g[Len(w)]
        BY DoubledSteps DEF Doubles
    <2>2. Len(w) \in 0 .. Len(w)
        BY LenProperties
    <2> QED
        BY <2>1, <2>2
<1>2. one \in Seq(A) /\ Len(one) = 1 /\ one[1] = Quote /\ 1 \in 1 .. Len(one)
    OBVIOUS
<1> HIDE DEF dd, one
<1> DEFINE a == one \o dd
           b == a \o one
<1>3. /\ a \in Seq(A) /\ Len(a) = 1 + Len(dd) /\ a[1] = Quote
      /\ \A j \in 1 .. Len(dd) : a[1 + j] = dd[j]
    <2>1. a \in Seq(A)
        BY <1>1, <1>2, ConcatProperties
    <2>2. Begins(one, a) /\ Len(a) = Len(one) + Len(dd) /\ \A j \in 1 .. Len(dd) : a[Len(one) + j] = dd[j]
        BY <1>1, <1>2, ConcatBegins
    <2> HIDE DEF a
    <2> QED
        BY <1>2, <2>1, <2>2 DEF Begins
<1>4. Len(dd) \in Nat
    BY <1>1, LenProperties
<1> HIDE DEF a
<1>5. /\ b \in Seq(A) /\ Len(b) = Len(a) + 1 /\ Begins(a, b) /\ b[Len(a) + 1] = Quote
    <2>1. b \in Seq(A)
        BY <1>2, <1>3, ConcatProperties
    <2>2. b = a \o one
        OBVIOUS
    <2> HIDE DEF b
    <2>3. JoinEnds(a, one, b)
        BY <1>2, <1>3, <2>2, Joining
    <2> QED
        BY <1>2, <2>1, <2>3 DEF JoinEnds
<1> HIDE DEF b
<1>6. /\ Len(b) = Len(dd) + 2 /\ b[1] = Quote /\ b[Len(dd) + 2] = Quote
      /\ \A i \in 1 .. Len(dd) : b[1 + i] = dd[i]
    <2>1. Len(a) + 1 = Len(dd) + 2 /\ 1 \in 1 .. Len(a) /\ \A i \in 1 .. Len(dd) : 1 + i \in 1 .. Len(a)
        BY <1>3, <1>4
    <2> QED
        BY <1>3, <1>5, <2>1 DEF Begins
<1> QED
    BY <1>1, <1>5, <1>6 DEF dd, one, a, b

BetweenQuotes(w) == <<Quote>> \o Doubled(w) \o <<Quote>>

LEMMA QuotedField ==
    ASSUME NEW line, Len(line) \in Nat, NEW d, NEW h, CsvTrace(h, line, d), NEW p \in Nat,
           NEW A, Quote \in A, NEW w \in Seq(A), NEW e, e = BetweenQuotes(w),
           Placed(line, p, e), p + Len(e) < Len(line) => line[p + Len(e) + 1] # Quote,
           NEW f, h[p] = CsvAt(f, <<>>, Letter)
    PROVE  h[p + Len(e)] = CsvAt(f, w, Letter)
<1> DEFINE n == Len(w)
           dd == Doubled(w)
           m == Len(dd)
<1>1. /\ dd \in Seq(A) /\ m \in Nat /\ Len(e) = m + 2 /\ e[1] = Quote /\ e[m + 2] = Quote
      /\ \A i \in 1 .. m : e[1 + i] = dd[i]
    BY QuotedFieldPlaces, LenProperties DEF BetweenQuotes
<1>2. n \in Nat /\ n <= n /\ n \in 0 .. n
    BY LenProperties
<1>3. PICK g \in [0 .. n -> Seq(A)] :
          /\ g[0] = <<>>
          /\ \A k \in 1 .. n : g[k] = g[k - 1] \o (IF w[k] = Quote THEN <<Quote, Quote>> ELSE <<w[k]>>)
          /\ dd = g[n]
    BY DoubledSteps DEF Doubles
<1> DEFINE more == [k \in 1 .. n |-> IF w[k] = Quote THEN <<Quote, Quote>> ELSE <<w[k]>>]
<1>4. more \in [1 .. n -> Seq(A)]
    <2>1. ASSUME NEW k \in 1 .. n PROVE <<Quote, Quote>> \in Seq(A) /\ <<w[k]>> \in Seq(A)
        <3>1. w[k] \in A
            OBVIOUS
        <3> QED
            BY <3>1
    <2> QED
        BY <2>1
<1>5. \A k \in 0 .. n : Begins(g[k], dd) /\ Len(g[k]) \in Nat
    <2>1. \A k \in 1 .. n : g[k] = g[k - 1] \o more[k]
        BY <1>3
    <2>2. \A k \in 0 .. n : Begins(g[k], g[n])
        <3> HIDE DEF more, n
        <3> QED
            BY <1>2, <1>4, <2>1, GrowingTrace
    <2>3. \A k \in 0 .. n : Len(g[k]) \in Nat
        BY <1>2
    <2> QED
        BY <1>3, <2>2, <2>3
<1>6. /\ SubSeq(w, 1, 0) = <<>> /\ SubSeq(w, 1, n) = w
      /\ \A k \in 1 .. n : Append(SubSeq(w, 1, k - 1), w[k]) = SubSeq(w, 1, k)
    BY StartsOf
<1>7. /\ p + m + 2 <= Len(line) /\ line[p + 1] = Quote /\ line[p + m + 2] = Quote
      /\ \A i \in 1 .. m : line[p + 1 + i] = dd[i]
    <2> HIDE DEF n, dd, m
    <2>1. 1 \in 1 .. m + 2 /\ m + 2 \in 1 .. m + 2 /\ p + (m + 2) = p + m + 2
          /\ \A i \in 1 .. m : 1 + i \in 1 .. m + 2 /\ p + (1 + i) = p + 1 + i
        BY <1>1
    <2>2. p + (m + 2) <= Len(line) /\ \A i \in 1 .. m + 2 : line[p + i] = e[i]
        BY <1>1 DEF Placed
    <2> QED
        BY <1>1, <2>1, <2>2
<1> DEFINE At(k) == p + 1 + Len(g[k])
           Right(k) == h[At(k)] = CsvAt(f, SubSeq(w, 1, k), Quote)
           Reached == {k \in Nat : k <= n => Right(k)}
<1> HIDE DEF n, dd, m, more
<1>8. 0 \in Reached
    <2>1. p + 1 \in 1 .. Len(line) /\ (p + 1) - 1 = p
        BY <1>1, <1>7
    <2>2. h[p + 1] = CsvRead(line, d, CsvAt(f, <<>>, Letter), p + 1)
        BY <2>1 DEF CsvTrace
    <2>3. h[p + 1] = CsvAt(f, <<>>, Quote)
        <3> DEFINE i == p + 1
        <3> HIDE DEF i
        <3>1. line[i] = Quote
            BY <1>7 DEF i
        <3>2. CsvRead(line, d, CsvAt(f, <<>>, Letter), i) = CsvAt(f, <<>>, Quote)
            BY <3>1, QuotesBegin
        <3> QED
            BY <2>2, <3>2 DEF i
    <2>4. At(0) = p + 1
        <3>1. Len(g[0]) = 0
            BY <1>3
        <3> QED
            BY <3>1
    <2>5. Right(0)
        BY <1>6, <2>3, <2>4
    <2> HIDE DEF Right
    <2> QED
        BY <2>5
<1>9. ASSUME NEW k \in Nat, k \in Reached PROVE k + 1 \in Reached
    <2>1. SUFFICES ASSUME k + 1 <= n PROVE Right(k + 1)
        <3> HIDE DEF Right
        <3> QED
            OBVIOUS
    <2>2. k + 1 \in 1 .. n /\ (k + 1) - 1 = k /\ k <= n /\ k \in 0 .. n /\ k + 1 \in 0 .. n
        BY <1>2, <2>1
    <2> DEFINE i == At(k)
               l == Len(g[k])
               c == SubSeq(w, 1, k)
               x == w[k + 1]
    <2>3. h[i] = CsvAt(f, c, Quote)
        BY <1>9, <2>2
    <2>4. Append(c, x) = SubSeq(w, 1, k + 1)
        BY <1>6, <2>2
    <2>5. i = p + 1 + l /\ l \in Nat
        BY <1>5, <2>2
    <2>6. Begins(g[k + 1], dd)
        BY <1>5, <2>2
    <2>7. g[k] \in Seq(A) /\ x \in A /\ g[k + 1] = g[k] \o (IF x = Quote THEN <<Quote, Quote>> ELSE <<x>>)
        <3>1. x \in A
            BY <2>2 DEF n
        <3> QED
            BY <1>3, <2>2, <3>1
    <2>8. Right(k + 1) <=> h[p + 1 + Len(g[k + 1])] = CsvAt(f, Append(c, x), Quote)
        BY <2>4
    <2> HIDE DEF i, l, c, x, Right, At, Reached
    <2>9. CASE x = Quote
        <3> DEFINE two == <<Quote, Quote>>
                   u == g[k] \o two
        <3>1. two \in Seq(A) /\ Len(two) = 2 /\ two[1] = Quote /\ two[2] = Quote /\ 1 \in 1 .. 2 /\ 2 \in 1 .. 2
            OBVIOUS
        <3> HIDE DEF two
        <3>2. g[k + 1] = u /\ u = g[k] \o two
            BY <2>7, <2>9 DEF two
        <3> HIDE DEF u
        <3>a. JoinEnds(g[k], two, u)
            BY <2>7, <3>1, <3>2, Joining
        <3>3. Len(u) = Len(g[k]) + Len(two) /\ \A j \in 1 .. Len(two) : u[Len(g[k]) + j] = two[j]
            BY <3>a DEF JoinEnds
        <3>4. Len(u) = l + 2 /\ u[l + 1] = Quote /\ u[l + 2] = Quote
            BY <3>1, <3>3 DEF l
        <3>5. l + 2 <= m /\ dd[l + 1] = Quote /\ dd[l + 2] = Quote
            <4>1. l + 1 \in 1 .. l + 2 /\ l + 2 \in 1 .. l + 2
                BY <2>5
            <4> QED
                BY <2>6, <3>2, <3>4, <4>1 DEF Begins, m
        <3>6. /\ line[i + 1] = Quote /\ line[i + 2] = Quote
              /\ i + 1 \in 1 .. Len(line) /\ i + 2 \in 1 .. Len(line) /\ i + 1 < Len(line)
              /\ (i + 1) - 1 = i /\ (i + 2) - 1 = i + 1 /\ (i + 1) + 1 = i + 2
            <4>1. l + 1 \in 1 .. m /\ l + 2 \in 1 .. m /\ p + 1 + (l + 1) = i + 1 /\ p + 1 + (l + 2) = i + 2
                BY <1>1, <2>5, <3>5
            <4>2. line[i + 1] = Quote /\ line[i + 2] = Quote
                BY <1>7, <3>5, <4>1
            <4>3. i \in Nat /\ i + 2 <= p + 1 + m /\ p + 1 + m < Len(line)
                BY <1>1, <1>7, <2>5, <3>5
            <4>4. i + 1 < Len(line)
                BY <1>1, <4>3
            <4>5. i + 1 \in 1 .. Len(line) /\ i + 2 \in 1 .. Len(line)
                BY <1>1, <4>3
            <4>6. (i + 1) - 1 = i /\ (i + 2) - 1 = i + 1 /\ (i + 1) + 1 = i + 2
                BY <4>3
            <4> QED
                BY <4>2, <4>4, <4>5, <4>6
        <3>7. h[i + 1] = CsvRead(line, d, h[i], i + 1) /\ h[i + 2] = CsvRead(line, d, h[i + 1], i + 2)
            BY <3>6 DEF CsvTrace
        <3> DEFINE j == i + 1
        <3>8. h[j] = CsvRead(line, d, CsvAt(f, c, Quote), j) /\ h[j + 1] = CsvRead(line, d, h[j], j + 1)
              /\ line[j] = Quote /\ line[j + 1] = Quote /\ j < Len(line) /\ j + 1 = i + 2
            BY <2>3, <3>6, <3>7
        <3> HIDE DEF j
        <3>9. h[j + 1] = CsvAt(f, Append(c, Quote), Quote)
            BY <3>8, QuotePair
        <3>10. p + 1 + Len(g[k + 1]) = i + 2
            BY <2>5, <3>2, <3>4
        <3> QED
            BY <2>8, <2>9, <3>8, <3>9, <3>10
    <2>10. CASE x # Quote
        <3> DEFINE one == <<x>>
                   u == g[k] \o one
        <3>1. one \in Seq(A) /\ Len(one) = 1 /\ one[1] = x /\ 1 \in 1 .. 1
            BY <2>7
        <3> HIDE DEF one
        <3>2. g[k + 1] = u /\ u = g[k] \o one
            BY <2>7, <2>10 DEF one
        <3> HIDE DEF u
        <3>a. JoinEnds(g[k], one, u)
            BY <2>7, <3>1, <3>2, Joining
        <3>3. Len(u) = Len(g[k]) + Len(one) /\ \A j \in 1 .. Len(one) : u[Len(g[k]) + j] = one[j]
            BY <3>a DEF JoinEnds
        <3>4. Len(u) = l + 1 /\ u[l + 1] = x
            BY <3>1, <3>3 DEF l
        <3>5. l + 1 <= m /\ dd[l + 1] = x
            <4>1. l + 1 \in 1 .. l + 1
                BY <2>5
            <4> QED
                BY <2>6, <3>2, <3>4, <4>1 DEF Begins, m
        <3>6. line[i + 1] = x /\ i + 1 \in 1 .. Len(line) /\ (i + 1) - 1 = i
            <4>1. l + 1 \in 1 .. m /\ p + 1 + (l + 1) = i + 1
                <5>1. l \in Nat /\ m \in Nat /\ l + 1 <= m /\ i = p + 1 + l
                    BY <1>1, <2>5, <3>5
                <5>2. l + 1 \in 1 .. m
                    BY <5>1
                <5>3. p + 1 + (l + 1) = i + 1
                    BY <5>1
                <5> QED
                    BY <5>2, <5>3
            <4>2. line[i + 1] = x
                BY <1>7, <3>5, <4>1
            <4>3. i \in Nat /\ i + 1 <= p + 1 + m /\ p + 1 + m < Len(line)
                BY <1>1, <1>7, <2>5, <3>5
            <4>4. i + 1 \in 1 .. Len(line) /\ (i + 1) - 1 = i
                BY <1>1, <4>3
            <4> QED
                BY <4>2, <4>4
        <3> DEFINE j == i + 1
        <3>7. h[j] = CsvRead(line, d, CsvAt(f, c, Quote), j) /\ line[j] = x
            BY <2>3, <3>6 DEF CsvTrace
        <3> HIDE DEF j
        <3>8. CsvRead(line, d, CsvAt(f, c, Quote), j) = CsvAt(f, Append(c, line[j]), Quote)
            BY <2>10, <3>7, KeptInside
        <3>9. p + 1 + Len(g[k + 1]) = j
            BY <2>5, <3>2, <3>4 DEF j
        <3> QED
            BY <2>8, <3>7, <3>8, <3>9
    <2> QED
        BY <2>9, <2>10
<1>10. \A k \in Nat : k \in Reached
    <2> HIDE DEF Reached
    <2>1. \A k \in Nat : k \in Reached => k + 1 \in Reached
        BY <1>9
    <2> QED
        BY <1>8, <2>1, Induction
<1>11. h[p + 1 + m] = CsvAt(f, w, Quote)
    <2>1. Right(n)
        <3> HIDE DEF Right
        <3> QED
            BY <1>2, <1>10
    <2>2. At(n) = p + 1 + m
        BY <1>3 DEF m
    <2> QED
        BY <1>6, <2>1, <2>2
<1> DEFINE j == p + m + 2
<1>12. /\ j \in 1 .. Len(line) /\ j - 1 = p + 1 + m /\ line[j] = Quote /\ p + Len(e) = j
       /\ ~(j < Len(line) /\ line[j + 1] = Quote)
    <2>1. j \in 1 .. Len(line) /\ j - 1 = p + 1 + m /\ line[j] = Quote
        BY <1>1, <1>7
    <2>2. p + Len(e) = j
        <3> HIDE DEF m
        <3>1. p + (m + 2) = p + m + 2
            BY <1>1
        <3> QED
            BY <1>1, <3>1
    <2> HIDE DEF j
    <2>3. j < Len(line) => line[j + 1] # Quote
        BY <2>2
    <2> QED
        BY <2>1, <2>2, <2>3
<1> HIDE DEF j
<1>13. h[j] = CsvRead(line, d, CsvAt(f, w, Quote), j)
    BY <1>11, <1>12 DEF CsvTrace
<1>14. CsvRead(line, d, CsvAt(f, w, Quote), j) = CsvAt(f, w, Letter)
    BY <1>12, QuotesEnd
<1> QED
    BY <1>12, <1>13, <1>14

----------------------------------------------------------------------------
(* A field of a row is read as it was written.                             *)

\* Characters of a field that is on one line.
OnOneLine == Char \ {LineBreak}

WrittenAs(e, w, d) == e = EscapeCsvField(w, d)

\* A field is read as it was written, whether that took quotes or not.
LEMMA FieldRead ==
    ASSUME NEW line, Len(line) \in Nat, NEW d \in {Comma, Tab}, NEW h, CsvTrace(h, line, d), NEW p \in Nat,
           NEW w \in Seq(OnOneLine), NEW e, WrittenAs(e, w, d),
           Placed(line, p, e), p + Len(e) < Len(line) => line[p + Len(e) + 1] # Quote,
           NEW f, h[p] = CsvAt(f, <<>>, Letter)
    PROVE  h[p + Len(e)] = CsvAt(f, w, Letter)
<1>1. CASE {d, Quote, LineBreak} \cap Range(w) = {}
    <2>1. e = w
        BY <1>1 DEF EscapeCsvField, WrittenAs
    <2>2. \A i \in 1 .. Len(w) : w[i] \in Range(w)
        BY DEF Range
    <2>3. \A i \in 1 .. Len(w) : w[i] \notin {d, Quote}
        BY <1>1, <2>2
    <2> QED
        BY <2>1, <2>3, PlainField
<1>2. CASE {d, Quote, LineBreak} \cap Range(w) # {}
    <2>1. e = BetweenQuotes(w)
        BY <1>2 DEF EscapeCsvField, BetweenQuotes, WrittenAs
    <2>2. Quote \in OnOneLine
        BY DEF OnOneLine, Char, Quote, LineBreak
    <2> QED
        BY <2>1, <2>2, QuotedField
<1> QED
    BY <1>1, <1>2

LEMMA EscapedType ==
    ASSUME NEW w \in Seq(OnOneLine), NEW d
    PROVE  EscapeCsvField(w, d) \in Seq(OnOneLine)
<1>1. Quote \in OnOneLine
    BY DEF OnOneLine, Char, Quote, LineBreak
<1>2. <<Quote>> \o Doubled(w) \o <<Quote>> \in Seq(OnOneLine)
    BY <1>1, QuotedFieldPlaces
<1> QED
    BY <1>2 DEF EscapeCsvField

\* Where the parts are, in a text that was put together of them; ends[k] is the end of
\* part k + 1.
PartsPlaced(t, parts, separator, ends) ==
    LET n == Len(parts) - 1
    IN  /\ ends[0] = Len(parts[1]) /\ ends[n] = Len(t)
        /\ Placed(t, 0, parts[1])
        /\ \A k \in 1 .. n : /\ ends[k - 1] + 1 \in 1 .. Len(t)
                             /\ t[ends[k - 1] + 1] = separator
                             /\ Placed(t, ends[k - 1] + 1, parts[k + 1])
                             /\ ends[k] = ends[k - 1] + 1 + Len(parts[k + 1])

PartsAre(A, t, parts, separator) ==
    t \in Seq(A) /\ \E ends \in [0 .. Len(parts) - 1 -> Nat] : PartsPlaced(t, parts, separator, ends)

\* What is put together of a text, a separator and a text.
LEMMA OneMore ==
    ASSUME NEW A, NEW s \in Seq(A), NEW x \in A, NEW t \in Seq(A), NEW u, u = s \o (<<x>> \o t)
    PROVE  /\ Len(u) = Len(s) + 1 + Len(t) /\ u[Len(s) + 1] = x
           /\ \A j \in 1 .. Len(t) : u[Len(s) + 1 + j] = t[j]
<1> DEFINE one == <<x>>
           v == one \o t
<1>1. one \in Seq(A) /\ Len(one) = 1 /\ one[1] = x /\ 1 \in 1 .. 1
    OBVIOUS
<1>2. v = one \o t /\ u = s \o v
    OBVIOUS
<1> HIDE DEF one, v
<1>3. v \in Seq(A)
    BY <1>1, <1>2, ConcatProperties
<1>4. JoinEnds(one, t, v) /\ JoinEnds(s, v, u)
    BY <1>1, <1>2, <1>3, Joining
<1>5. Len(s) \in Nat /\ Len(t) \in Nat
    BY LenProperties
<1>6. Len(v) = 1 + Len(t) /\ v[1] = x /\ \A j \in 1 .. Len(t) : v[1 + j] = t[j]
    BY <1>1, <1>4 DEF JoinEnds, Begins
<1>7. Len(u) = Len(s) + (1 + Len(t)) /\ \A j \in 1 .. 1 + Len(t) : u[Len(s) + j] = v[j]
    BY <1>4, <1>6 DEF JoinEnds
<1>8. Len(u) = Len(s) + 1 + Len(t)
    BY <1>5, <1>7
<1>9. u[Len(s) + 1] = x
    <2>1. 1 \in 1 .. 1 + Len(t)
        BY <1>5
    <2> QED
        BY <1>6, <1>7, <2>1
<1>10. \A j \in 1 .. Len(t) : u[Len(s) + 1 + j] = t[j]
    <2> TAKE j \in 1 .. Len(t)
    <2>1. 1 + j \in 1 .. 1 + Len(t) /\ Len(s) + 1 + j = Len(s) + (1 + j)
        BY <1>5
    <2> QED
        BY <1>6, <1>7, <2>1
<1> QED
    BY <1>8, <1>9, <1>10

LEMMA HeadIsFirst ==
    ASSUME NEW A, NEW s \in Seq(A), s # <<>>
    PROVE  Head(s) = s[1]
    OBVIOUS

LEMMA JoinPlaces ==
    ASSUME NEW A, NEW parts \in Seq(Seq(A)), parts # <<>>, NEW d \in A, NEW t, t = Joined(parts, d)
    PROVE  PartsAre(A, t, parts, d)
<1> DEFINE n == Len(parts) - 1
           rest == Tail(parts)
<1>1. /\ n \in Nat /\ Len(rest) = n /\ Head(parts) = parts[1]
      /\ \A k \in 1 .. n : rest[k] = parts[k + 1] /\ parts[k + 1] \in Seq(A)
      /\ parts[1] \in Seq(A)
    <2>1. Len(parts) \in Nat /\ Len(parts) # 0
        BY LenProperties, EmptySeq
    <2>2. /\ rest \in Seq(Seq(A)) /\ Len(rest) = n
          /\ \A k \in 1 .. n : rest[k] = parts[k + 1]
        BY HeadTailProperties
    <2>3. Head(parts) = parts[1]
        BY HeadIsFirst
    <2>4. \A k \in 1 .. Len(parts) : parts[k] \in Seq(A)
        BY ElementOfSeq
    <2>5. 1 \in 1 .. Len(parts) /\ \A k \in 1 .. n : k + 1 \in 1 .. Len(parts)
        BY <2>1
    <2> QED
        BY <2>1, <2>2, <2>3, <2>4, <2>5
<1>2. PICK g \in [0 .. n -> Seq(A)] :
          /\ g[0] = parts[1]
          /\ \A k \in 1 .. n : g[k] = (g[k - 1] \o <<d>> \o rest[k])
          /\ t = g[n]
    <2>1. Joins(A, parts, d)
        BY JoinedSteps
    <2>2. Joins(A, parts, d) =>
            \E g \in [0 .. Len(rest) -> Seq(A)] :
              /\ g[0] = Head(parts)
              /\ \A k \in 1 .. Len(rest) : g[k] = (g[k - 1] \o <<d>> \o rest[k])
              /\ Joined(parts, d) = g[Len(rest)]
        BY DEF Joins
    <2> HIDE DEF n, rest
    <2> QED
        BY <1>1, <2>1, <2>2
<1> HIDE DEF n, rest
<1> DEFINE more == [k \in 1 .. n |-> <<d>> \o parts[k + 1]]
<1>3. more \in [1 .. n -> Seq(A)]
    <2>1. ASSUME NEW k \in 1 .. n PROVE <<d>> \o parts[k + 1] \in Seq(A)
        <3> DEFINE one == <<d>>
        <3>1. one \in Seq(A)
            OBVIOUS
        <3> HIDE DEF one
        <3>2. one \o parts[k + 1] \in Seq(A)
            BY <1>1, <3>1, ConcatProperties
        <3> QED
            BY <3>2 DEF one
    <2> QED
        BY <2>1
<1>4. \A k \in 1 .. n : k - 1 \in 0 .. n /\ k \in 0 .. n /\ 0 \in 0 .. n /\ n \in 0 .. n
    BY <1>1
<1>a. 0 \in 0 .. n /\ n \in 0 .. n
    BY <1>1
<1>5. ASSUME NEW k \in 1 .. n PROVE g[k] = g[k - 1] \o more[k]
    <2> DEFINE one == <<d>>
    <2>1. one \in Seq(A)
        OBVIOUS
    <2>2. g[k] = (g[k - 1] \o one) \o parts[k + 1] /\ more[k] = one \o parts[k + 1]
        BY <1>1, <1>2
    <2> HIDE DEF one, more
    <2> DEFINE s == g[k - 1]
               x == parts[k + 1]
    <2>3. s \in Seq(A) /\ x \in Seq(A)
        BY <1>1, <1>4
    <2> HIDE DEF s, x
    <2>4. (s \o one) \o x = s \o (one \o x)
        BY <2>1, <2>3, ConcatAssociative, SMTT(40)
    <2> QED
        BY <2>2, <2>4 DEF s, x
<1>6. \A k \in 0 .. n : Begins(g[k], t)
    <2> HIDE DEF more
    <2>1. \A k \in 0 .. n : Begins(g[k], g[n])
        BY <1>1, <1>3, <1>5, GrowingTrace
    <2> QED
        BY <1>2, <2>1
<1>7. t \in Seq(A) /\ Len(t) \in Nat
    BY <1>2, <1>a, LenProperties
<1> DEFINE ends == [k \in 0 .. n |-> Len(g[k])]
<1>8. ends \in [0 .. n -> Nat]
    BY LenProperties
<1>9. ends[0] = Len(parts[1]) /\ ends[n] = Len(t)
    BY <1>2, <1>a
<1>10. Placed(t, 0, parts[1])
    <2>1. Begins(parts[1], t)
        BY <1>2, <1>6, <1>a
    <2>2. Len(parts[1]) \in Nat
        BY <1>1, LenProperties
    <2> QED
        BY <1>7, <2>1, <2>2 DEF Begins, Placed
<1>11. ASSUME NEW k \in 1 .. n
       PROVE  /\ ends[k - 1] + 1 \in 1 .. Len(t)
              /\ t[ends[k - 1] + 1] = d
              /\ Placed(t, ends[k - 1] + 1, parts[k + 1])
              /\ ends[k] = ends[k - 1] + 1 + Len(parts[k + 1])
    <2> DEFINE s == g[k - 1]
               x == parts[k + 1]
               u == g[k]
    <2>1. s \in Seq(A) /\ x \in Seq(A) /\ u = s \o (<<d>> \o x)
        BY <1>1, <1>4, <1>5
    <2>2. Begins(u, t)
        BY <1>4, <1>6
    <2>3. ends[k - 1] = Len(s) /\ ends[k] = Len(u)
        BY <1>4
    <2> HIDE DEF s, x, u, ends
    <2>4. /\ Len(u) = Len(s) + 1 + Len(x) /\ u[Len(s) + 1] = d
          /\ \A j \in 1 .. Len(x) : u[Len(s) + 1 + j] = x[j]
        BY <2>1, OneMore
    <2>5. Len(s) \in Nat /\ Len(x) \in Nat
        BY <2>1, LenProperties
    <2>6. Len(s) + 1 \in 1 .. Len(u) /\ \A j \in 1 .. Len(x) : Len(s) + 1 + j \in 1 .. Len(u)
        BY <2>4, <2>5
    <2>7. Len(u) <= Len(t) /\ \A j \in 1 .. Len(u) : t[j] = u[j]
        BY <2>2 DEF Begins
    <2>8. ends[k - 1] + 1 \in 1 .. Len(t) /\ t[ends[k - 1] + 1] = d
        BY <1>7, <2>3, <2>4, <2>5, <2>6, <2>7
    <2>9. Placed(t, ends[k - 1] + 1, x)
        BY <2>3, <2>4, <2>6, <2>7 DEF Placed
    <2> QED
        BY <2>3, <2>4, <2>8, <2>9 DEF x
<1>12. PartsPlaced(t, parts, d, ends)
    <2> HIDE DEF ends
    <2> QED
        BY <1>9, <1>10, <1>11 DEF PartsPlaced, n
<1> QED
    BY <1>7, <1>8, <1>12 DEF PartsAre, n

----------------------------------------------------------------------------
(* A row is read field by field.                                           *)

LineTraced(line, d) ==
    \E h : /\ h[0] = CsvAt(<<>>, <<>>, Letter) /\ CsvTrace(h, line, d)
           /\ ParseCsvLine(line, d) = Append(h[Len(line)].fields, Trimmed(h[Len(line)].current))

LEMMA LineTrace ==
    ASSUME NEW A, Quote \in A, NEW line \in Seq(A), NEW d
    PROVE  LineTraced(line, d)
<1>1. CsvReads(A, line, d)
    BY CsvSteps
<1>2. Len(Places(line)) = Len(line) /\ \A k \in 1 .. Len(line) : Places(line)[k] = k
    BY PlacesType
<1>3. PICK h \in [0 .. Len(Places(line)) -> CsvState(A)] :
        /\ h[0] = CsvStart
        /\ \A k \in 1 .. Len(Places(line)) : h[k] = CsvRead(line, d, h[k - 1], Places(line)[k])
        /\ ParseCsvLine(line, d) = Append(h[Len(Places(line))].fields, Trimmed(h[Len(Places(line))].current))
    BY <1>1 DEF CsvReads
<1>4. CsvStart = CsvAt(<<>>, <<>>, Letter)
    <2> DEFINE x == Letter = Quote
    <2>1. x = FALSE
        BY DEF Letter, Quote
    <2> HIDE DEF x
    <2>2. [fields |-> <<>>, current |-> <<>>, inQuotes |-> x, skip |-> FALSE] = CsvStart
        BY <2>1 DEF CsvStart
    <2> QED
        BY <2>2 DEF CsvAt, x
<1>5. \A k \in 1 .. Len(line) : h[k] = CsvRead(line, d, h[k - 1], k)
    BY <1>2, <1>3
<1> QED
    BY <1>2, <1>3, <1>4, <1>5 DEF LineTraced, CsvTrace

\* A line that was formatted is parsed as the row that it was made of.
LEMMA RowRead ==
    ASSUME NEW d \in {Comma, Tab}, NEW rr \in Seq(Seq(OnOneLine)), rr # <<>>,
           \A k \in 1 .. Len(rr) : Trimmed(rr[k]) = rr[k],
           NEW parts, Len(parts) = Len(rr), \A k \in 1 .. Len(rr) : parts[k] = EscapeCsvField(rr[k], d),
           NEW t, PartsAre(OnOneLine, t, parts, d)
    PROVE  ParseCsvLine(t, d) = rr
<1> DEFINE n == Len(rr) - 1
<1>1. n \in Nat /\ Len(rr) = n + 1 /\ 0 <= n /\ 1 \in 1 .. Len(rr) /\ n + 1 \in 1 .. Len(rr)
    <2>1. Len(rr) \in Nat /\ Len(rr) # 0
        BY LenProperties, EmptySeq
    <2> QED
        BY <2>1
<1>2. t \in Seq(OnOneLine) /\ Len(t) \in Nat
    BY LenProperties DEF PartsAre
<1>3. PICK ends \in [0 .. n -> Nat] : PartsPlaced(t, parts, d, ends)
    BY DEF PartsAre
<1>4. PICK h : /\ h[0] = CsvAt(<<>>, <<>>, Letter) /\ CsvTrace(h, t, d)
               /\ ParseCsvLine(t, d) = Append(h[Len(t)].fields, Trimmed(h[Len(t)].current))
    <2>1. Quote \in OnOneLine
        BY DEF OnOneLine, Char, Quote, LineBreak
    <2>2. LineTraced(t, d)
        BY <1>2, <2>1, LineTrace
    <2> QED
        BY <2>2 DEF LineTraced
<1>5. d # Quote
    BY DEF Comma, Tab, Quote
<1>6. /\ SubSeq(rr, 1, 0) = <<>> /\ SubSeq(rr, 1, Len(rr)) = rr
      /\ \A k \in 1 .. Len(rr) : Append(SubSeq(rr, 1, k - 1), rr[k]) = SubSeq(rr, 1, k)
    BY StartsOf
<1>7. \A k \in 1 .. Len(rr) : rr[k] \in Seq(OnOneLine)
    OBVIOUS
<1>8. /\ ends[0] = Len(parts[1]) /\ ends[n] = Len(t)
      /\ Placed(t, 0, parts[1])
      /\ \A k \in 1 .. n : /\ ends[k - 1] + 1 \in 1 .. Len(t)
                           /\ t[ends[k - 1] + 1] = d
                           /\ Placed(t, ends[k - 1] + 1, parts[k + 1])
                           /\ ends[k] = ends[k - 1] + 1 + Len(parts[k + 1])
    BY <1>3 DEF PartsPlaced
<1> HIDE DEF n
\* After a field comes the delimiter or nothing.
<1>9. ASSUME NEW k \in 0 .. n, ends[k] < Len(t) PROVE t[ends[k] + 1] # Quote
    <2>1. k # n
        BY <1>8, <1>9, <1>2
    <2>2. k + 1 \in 1 .. n /\ (k + 1) - 1 = k
        BY <1>1, <2>1
    <2>3. t[ends[(k + 1) - 1] + 1] = d
        BY <1>8, <2>2
    <2> QED
        BY <1>5, <2>2, <2>3
\* The delimiter ends a field, and what follows it is the next one.
<1>a. \A i, f, x : Delimits(t, i, d) =>
        CsvRead(t, d, CsvAt(f, x, Letter), i) = CsvAt(Append(f, Trimmed(x)), <<>>, Letter)
    BY <1>5, FieldEnds
<1>b. ASSUME NEW i \in Nat, NEW w \in Seq(OnOneLine), NEW e, WrittenAs(e, w, d), Placed(t, i, e),
             i + Len(e) < Len(t) => t[i + Len(e) + 1] # Quote, NEW f, h[i] = CsvAt(f, <<>>, Letter)
      PROVE  h[i + Len(e)] = CsvAt(f, w, Letter)
    BY <1>2, <1>4, <1>b, FieldRead
<1> DEFINE Right(k) == h[ends[k]] = CsvAt(SubSeq(rr, 1, k), rr[k + 1], Letter)
           Reached == {k \in Nat : k <= n => Right(k)}
<1>10. 0 \in Reached
    <2> DEFINE e == parts[1]
               w == rr[1]
    <2>1. w \in Seq(OnOneLine) /\ WrittenAs(e, w, d) /\ e \in Seq(OnOneLine)
        BY <1>1, <1>7, EscapedType DEF WrittenAs
    <2>2. Placed(t, 0, e) /\ ends[0] = Len(e)
        BY <1>8
    <2>3. 0 \in 0 .. n
        BY <1>1
    <2> HIDE DEF e, w
    <2>4. Len(e) \in Nat /\ 0 + Len(e) = Len(e)
        BY <2>1, LenProperties
    <2>5. 0 + Len(e) < Len(t) => t[0 + Len(e) + 1] # Quote
        <3>1. ends[0] < Len(t) => t[ends[0] + 1] # Quote
            BY <1>9, <2>3
        <3> QED
            BY <2>2, <2>4, <3>1
    <2>6. h[0 + Len(e)] = CsvAt(<<>>, w, Letter)
        BY <1>4, <1>b, <2>1, <2>2, <2>5
    <2>7. h[ends[0]] = CsvAt(<<>>, w, Letter)
        BY <2>2, <2>4, <2>6
    <2>8. Right(0)
        <3>1. rr[0 + 1] = w
            BY DEF w
        <3> QED
            BY <1>6, <2>7, <3>1
    <2> HIDE DEF Right
    <2> QED
        BY <2>8
<1>11. ASSUME NEW k \in Nat, k \in Reached PROVE k + 1 \in Reached
    <2>1. SUFFICES ASSUME k + 1 <= n PROVE Right(k + 1)
        <3> HIDE DEF Right
        <3> QED
            OBVIOUS
    <2>2. /\ k <= n /\ k \in 0 .. n /\ k + 1 \in 0 .. n /\ k + 1 \in 1 .. n /\ (k + 1) - 1 = k
          /\ k + 1 \in 1 .. Len(rr) /\ (k + 1) + 1 \in 1 .. Len(rr)
        BY <1>1, <2>1
    <2> DEFINE i == ends[k] + 1
               f == SubSeq(rr, 1, k)
               x == rr[k + 1]
               e == parts[(k + 1) + 1]
               w == rr[(k + 1) + 1]
               ff == SubSeq(rr, 1, k + 1)
    <2>3. h[ends[k]] = CsvAt(f, x, Letter)
        BY <1>11, <2>2
    <2>4. i \in 1 .. Len(t) /\ t[i] = d /\ Placed(t, i, e) /\ ends[k + 1] = i + Len(e)
        BY <1>8, <2>2
    <2>5. ends[k] \in Nat /\ i - 1 = ends[k] /\ i \in Nat
        BY <2>2, SMTT(30)
    <2>6. Append(f, x) = ff /\ Trimmed(x) = x
        BY <1>6, <2>2
    <2>7. w \in Seq(OnOneLine) /\ WrittenAs(e, w, d)
        BY <1>7, <2>2 DEF WrittenAs
    <2>8. i + Len(e) < Len(t) => t[i + Len(e) + 1] # Quote
        BY <1>9, <2>2, <2>4
    <2>9. Right(k + 1) <=> h[ends[k + 1]] = CsvAt(ff, w, Letter)
        OBVIOUS
    <2> HIDE DEF i, f, x, e, w, ff, Right, Reached
    <2>10. h[i] = CsvRead(t, d, CsvAt(f, x, Letter), i)
        BY <1>4, <2>3, <2>4, <2>5 DEF CsvTrace
    <2>11. CsvRead(t, d, CsvAt(f, x, Letter), i) = CsvAt(Append(f, Trimmed(x)), <<>>, Letter)
        <3>1. Delimits(t, i, d)
            BY <2>4 DEF Delimits
        <3> QED
            BY <1>a, <3>1
    <2>12. h[i] = CsvAt(ff, <<>>, Letter)
        BY <2>6, <2>10, <2>11
    <2>13. h[i + Len(e)] = CsvAt(ff, w, Letter)
        <3>1. /\ Len(t) \in Nat /\ CsvTrace(h, t, d) /\ i \in Nat /\ w \in Seq(OnOneLine)
              /\ WrittenAs(e, w, d) /\ Placed(t, i, e)
              /\ (i + Len(e) < Len(t) => t[i + Len(e) + 1] # Quote)
              /\ h[i] = CsvAt(ff, <<>>, Letter)
            BY <1>2, <1>4, <2>4, <2>5, <2>7, <2>8, <2>12
        <3> QED
            BY <1>b, <3>1
    <2> QED
        BY <2>4, <2>9, <2>13
<1>12. \A k \in Nat : k \in Reached
    <2> HIDE DEF Reached
    <2>1. \A k \in Nat : k \in Reached => k + 1 \in Reached
        BY <1>11
    <2> QED
        BY <1>10, <2>1, Induction
<1>13. Right(n)
    <2> HIDE DEF Right
    <2> QED
        BY <1>1, <1>12
<1> DEFINE f == SubSeq(rr, 1, n)
           w == rr[n + 1]
<1>14. h[Len(t)] = CsvAt(f, w, Letter)
    BY <1>8, <1>13
<1>15. Trimmed(w) = w /\ Append(f, w) = rr
    <2>1. (n + 1) - 1 = n
        BY <1>1
    <2>2. Append(SubSeq(rr, 1, (n + 1) - 1), rr[n + 1]) = SubSeq(rr, 1, n + 1)
        BY <1>1, <1>6
    <2> QED
        BY <1>1, <1>6, <2>1, <2>2
<1> HIDE DEF f, w
<1> QED
    BY <1>4, <1>14, <1>15 DEF CsvAt

----------------------------------------------------------------------------
(* What trimming leaves alone.                                             *)

\* A text that begins and ends with no blank; of the empty one that is true.
Tidy(s) == s = <<>> \/ (s[1] \notin Blank /\ s[Len(s)] \notin Blank)

NotBlank(s) == {n \in DOMAIN s : s[n] \notin Blank}
FirstOf(S) == CHOOSE n \in S : \A m \in S : n <= m
LastOf(S) == CHOOSE n \in S : \A m \in S : m <= n

LEMMA TrimmedParts ==
    ASSUME NEW A, NEW s \in Seq(A)
    PROVE  /\ NotBlank(s) = {} => Trimmed(s) = <<>>
           /\ NotBlank(s) # {} =>
                 /\ Trimmed(s) = SubSeq(s, FirstOf(NotBlank(s)), LastOf(NotBlank(s)))
                 /\ FirstOf(NotBlank(s)) \in NotBlank(s) /\ LastOf(NotBlank(s)) \in NotBlank(s)
                 /\ \A m \in NotBlank(s) : FirstOf(NotBlank(s)) <= m /\ m <= LastOf(NotBlank(s))
           /\ NotBlank(s) \in SUBSET (1 .. Len(s)) /\ Len(s) \in Nat
<1> DEFINE inner == NotBlank(s)
<1>1. inner \in SUBSET (1 .. Len(s)) /\ Len(s) \in Nat
    <2>1. Len(s) \in Nat /\ DOMAIN s = 1 .. Len(s)
        BY LenProperties
    <2> QED
        BY <2>1 DEF NotBlank
<1>2. inner = {} => Trimmed(s) = <<>>
    BY DEF Trimmed, NotBlank
<1>3. inner # {} => Trimmed(s) = SubSeq(s, FirstOf(inner), LastOf(inner))
    BY DEF Trimmed, NotBlank, FirstOf, LastOf
<1>4. ASSUME inner # {}
      PROVE  /\ FirstOf(inner) \in inner /\ LastOf(inner) \in inner
             /\ \A m \in inner : FirstOf(inner) <= m /\ m <= LastOf(inner)
    <2> HIDE DEF inner
    <2>1. (\E n \in inner : \A m \in inner : n <= m) /\ (\E n \in inner : \A m \in inner : m <= n)
        BY <1>1, <1>4, LeastAndGreatest
    <2>2. FirstOf(inner) \in inner /\ \A m \in inner : FirstOf(inner) <= m
        BY <2>1 DEF FirstOf
    <2>3. LastOf(inner) \in inner /\ \A m \in inner : m <= LastOf(inner)
        BY <2>1 DEF LastOf
    <2> QED
        BY <2>2, <2>3
<1> HIDE DEF inner
<1>5. \A m \in inner : inner # {}
    OBVIOUS
<1> QED
    BY <1>1, <1>2, <1>3, <1>4 DEF inner

\* trim() leaves a tidy text as it is,
LEMMA TrimmedTidy ==
    ASSUME NEW A, NEW s \in Seq(A), Tidy(s)
    PROVE  Trimmed(s) = s
<1> DEFINE inner == NotBlank(s)
           n == Len(s)
<1>1. /\ inner \in SUBSET (1 .. n) /\ n \in Nat
      /\ inner = {} => Trimmed(s) = <<>>
      /\ inner # {} =>
                 /\ Trimmed(s) = SubSeq(s, FirstOf(inner), LastOf(inner))
                 /\ FirstOf(inner) \in inner /\ LastOf(inner) \in inner
                 /\ \A m \in inner : FirstOf(inner) <= m /\ m <= LastOf(inner)
    BY TrimmedParts
<1>2. DOMAIN s = 1 .. n /\ (s = <<>> <=> n = 0)
    BY LenProperties, EmptySeq
<1>3. CASE s = <<>>
    <2>1. inner = {}
        BY <1>1, <1>2, <1>3
    <2> QED
        BY <1>1, <1>3, <2>1
<1>4. CASE s # <<>>
    <2>1. 1 \in 1 .. n /\ n \in 1 .. n
        BY <1>1, <1>2, <1>4
    <2>2. s[1] \notin Blank /\ s[n] \notin Blank
        BY <1>4 DEF Tidy
    <2>3. 1 \in inner /\ n \in inner
        BY <1>2, <2>1, <2>2 DEF NotBlank
    <2> HIDE DEF inner, n
    <2>4. FirstOf(inner) = 1 /\ LastOf(inner) = n
        <3>1. /\ FirstOf(inner) \in 1 .. n /\ LastOf(inner) \in 1 .. n
              /\ FirstOf(inner) <= 1 /\ n <= LastOf(inner)
            BY <1>1, <2>3
        <3> QED
            BY <1>1, <3>1
    <2>5. Trimmed(s) = SubSeq(s, 1, n)
        BY <1>1, <2>3, <2>4
    <2>6. SubSeq(s, 1, Len(s)) = s
        BY StartsOf
    <2> QED
        BY <2>5, <2>6 DEF n
<1> QED
    BY <1>3, <1>4

\* and what it leaves as it is, is tidy.
LEMMA TidyTrimmed ==
    ASSUME NEW A, NEW s \in Seq(A), Trimmed(s) = s
    PROVE  Tidy(s)
<1> DEFINE inner == NotBlank(s)
           n == Len(s)
           a == FirstOf(inner)
           b == LastOf(inner)
<1>1. /\ inner \in SUBSET (1 .. n) /\ n \in Nat
      /\ inner = {} => Trimmed(s) = <<>>
      /\ inner # {} => Trimmed(s) = SubSeq(s, a, b) /\ a \in inner /\ b \in inner /\ \A m \in inner : a <= m
    BY TrimmedParts
<1>2. CASE inner = {}
    BY <1>1, <1>2 DEF Tidy
<1>3. CASE inner # {}
    <2>0. /\ Trimmed(s) = SubSeq(s, a, b) /\ a \in inner /\ b \in inner /\ a \in 1 .. n /\ b \in 1 .. n
          /\ s[a] \notin Blank /\ s[b] \notin Blank /\ a <= b
        BY <1>1, <1>3 DEF NotBlank
    <2> HIDE DEF inner, a, b
    <2>1. \A i \in a .. b : s[i] \in A
        <3>1. \A i \in a .. b : i \in 1 .. Len(s)
            BY <1>1, <2>0
        <3> QED
            BY <3>1, ElementOfSeq
    <2>2. a \in Int /\ b \in Int
        BY <2>0
    <2> HIDE DEF n
    <2>3. Len(SubSeq(s, a, b)) = IF a <= b THEN b - a + 1 ELSE 0
        BY <2>1, <2>2, SubSeqProperties
    <2>4. n = b - a + 1
        BY <2>0, <2>3 DEF n
    <2>5. a = 1 /\ b = n
        BY <1>1, <2>0, <2>4
    <2> QED
        BY <2>0, <2>5 DEF Tidy, n
<1> QED
    BY <1>2, <1>3

\* What is written of a tidy field is tidy, and empty only if the field is.
LEMMA EscapedTidy ==
    ASSUME NEW w \in Seq(OnOneLine), Tidy(w), NEW d
    PROVE  Tidy(EscapeCsvField(w, d)) /\ (EscapeCsvField(w, d) = <<>> => w = <<>>)
<1>1. CASE {d, Quote, LineBreak} \cap Range(w) = {}
    BY <1>1 DEF EscapeCsvField
<1>2. CASE {d, Quote, LineBreak} \cap Range(w) # {}
    <2> DEFINE e == BetweenQuotes(w)
               m == Len(Doubled(w)) + 2
    <2>1. EscapeCsvField(w, d) = e
        BY <1>2 DEF EscapeCsvField, BetweenQuotes
    <2>2. Quote \in OnOneLine
        BY DEF OnOneLine, Char, Quote, LineBreak
    <2>3. e \in Seq(OnOneLine) /\ Doubled(w) \in Seq(OnOneLine) /\ Len(e) = m /\ e[1] = Quote /\ e[m] = Quote
        BY <2>2, QuotedFieldPlaces DEF BetweenQuotes
    <2>4. Len(e) \in Nat /\ m # 0
        BY <2>3, LenProperties
    <2>5. e # <<>>
        <3> HIDE DEF e, m
        <3>1. Len(e) # 0
            BY <2>3, <2>4
        <3> QED
            BY <2>3, <3>1, EmptySeq
    <2>6. Quote \notin Blank
        BY DEF Blank, LineBreak, Tab, Quote
    <2> QED
        BY <2>1, <2>3, <2>5, <2>6 DEF Tidy
<1> QED
    BY <1>1, <1>2

\* A text of tidy parts is tidy; an empty part at an end shows the separator there.
LEMMA PartsTidy ==
    ASSUME NEW A, NEW parts \in Seq(Seq(A)), parts # <<>>, NEW d, NEW t, PartsAre(A, t, parts, d),
           \A k \in 1 .. Len(parts) : Tidy(parts[k]),
           parts[1] = <<>> \/ parts[Len(parts)] = <<>> => d \notin Blank
    PROVE  Tidy(t)
<1> DEFINE n == Len(parts) - 1
<1>1. /\ n \in Nat /\ Len(parts) = n + 1 /\ 1 \in 1 .. Len(parts) /\ n + 1 \in 1 .. Len(parts)
      /\ n \in 0 .. n /\ 0 \in 0 .. n /\ (n # 0 => 1 \in 1 .. n)
    <2>1. Len(parts) \in Nat /\ Len(parts) # 0
        BY LenProperties, EmptySeq
    <2>2. n \in Nat /\ Len(parts) = n + 1
        BY <2>1
    <2> HIDE DEF n
    <2> QED
        BY <2>2
<1>2. t \in Seq(A) /\ Len(t) \in Nat /\ (t = <<>> <=> Len(t) = 0)
    BY LenProperties, EmptySeq DEF PartsAre
<1>3. PICK ends \in [0 .. n -> Nat] : PartsPlaced(t, parts, d, ends)
    BY DEF PartsAre
<1>4. /\ ends[0] = Len(parts[1]) /\ ends[n] = Len(t)
      /\ Placed(t, 0, parts[1])
      /\ \A k \in 1 .. n : /\ ends[k - 1] + 1 \in 1 .. Len(t)
                           /\ t[ends[k - 1] + 1] = d
                           /\ Placed(t, ends[k - 1] + 1, parts[k + 1])
                           /\ ends[k] = ends[k - 1] + 1 + Len(parts[k + 1])
    BY <1>3 DEF PartsPlaced
<1>5. \A k \in 1 .. Len(parts) : /\ parts[k] \in Seq(A) /\ Len(parts[k]) \in Nat
                                 /\ (parts[k] = <<>> <=> Len(parts[k]) = 0)
                                 /\ (parts[k] # <<>> => 1 \in 1 .. Len(parts[k]) /\ Len(parts[k]) \in 1 .. Len(parts[k]))
    <2> TAKE k \in 1 .. Len(parts)
    <2>1. parts[k] \in Seq(A)
        OBVIOUS
    <2>2. Len(parts[k]) \in Nat /\ (parts[k] = <<>> <=> Len(parts[k]) = 0)
        BY <2>1, LenProperties, EmptySeq
    <2> QED
        BY <2>1, <2>2
<1> HIDE DEF n
<1>6. SUFFICES ASSUME t # <<>> PROVE t[1] \notin Blank /\ t[Len(t)] \notin Blank
    BY DEF Tidy
<1>7. t[1] \notin Blank
    <2> DEFINE e == parts[1]
    <2>1. e \in Seq(A) /\ Len(e) \in Nat /\ (e = <<>> <=> Len(e) = 0) /\ (e # <<>> => 1 \in 1 .. Len(e)) /\ Tidy(e)
        BY <1>1, <1>5
    <2>2. CASE e # <<>>
        <3>1. 1 \in 1 .. Len(e) /\ e[1] \notin Blank
            BY <2>1, <2>2 DEF Tidy
        <3>2. t[0 + 1] = e[1]
            BY <1>4, <3>1 DEF Placed
        <3> QED
            BY <3>1, <3>2
    <2>3. CASE e = <<>>
        <3>1. ends[0] = 0
            BY <1>4, <2>1, <2>3
        <3>2. n # 0
            BY <1>2, <1>4, <1>6, <3>1
        <3>3. 1 \in 1 .. n
            BY <1>1, <3>2
        <3>4. t[ends[1 - 1] + 1] = d
            BY <1>4, <3>3
        <3>5. ends[1 - 1] + 1 = 1
            BY <3>1
        <3> QED
            BY <2>3, <3>4, <3>5
    <2> QED
        BY <2>2, <2>3
<1>8. t[Len(t)] \notin Blank
    <2> DEFINE e == parts[n + 1]
    <2>1. e \in Seq(A) /\ Len(e) \in Nat /\ (e = <<>> <=> Len(e) = 0) /\ (e # <<>> => Len(e) \in 1 .. Len(e)) /\ Tidy(e)
        BY <1>1, <1>5
    <2>2. CASE n = 0
        <3>1. Len(t) = Len(e) /\ Placed(t, 0, e)
            BY <1>4, <2>2
        <3>2. e # <<>>
            BY <1>2, <1>6, <2>1, <3>1
        <3>3. Len(e) \in 1 .. Len(e) /\ e[Len(e)] \notin Blank
            BY <2>1, <3>2 DEF Tidy
        <3>4. t[0 + Len(e)] = e[Len(e)]
            BY <3>1, <3>3 DEF Placed
        <3>5. 0 + Len(e) = Len(t)
            BY <2>1, <3>1
        <3> QED
            BY <3>3, <3>4, <3>5
    <2>3. CASE n # 0
        <3>1. n \in 1 .. n /\ n - 1 \in 0 .. n
            BY <1>1, <2>3
        <3> DEFINE i == ends[n - 1] + 1
        <3>2. t[i] = d /\ Placed(t, i, e) /\ Len(t) = i + Len(e)
            BY <1>4, <3>1
        <3>3. i \in Nat
            BY <3>1
        <3> HIDE DEF i, e
        <3>4. CASE e = <<>>
            <4>1. Len(t) = i
                BY <2>1, <3>2, <3>3, <3>4
            <4>2. d \notin Blank
                BY <1>1, <3>4 DEF e
            <4> QED
                BY <3>2, <4>1, <4>2
        <3>5. CASE e # <<>>
            <4>1. Len(e) \in 1 .. Len(e) /\ e[Len(e)] \notin Blank
                BY <2>1, <3>5 DEF Tidy
            <4>2. t[i + Len(e)] = e[Len(e)]
                BY <3>2, <4>1 DEF Placed
            <4> QED
                BY <3>2, <4>1, <4>2
        <3> QED
            BY <3>4, <3>5
    <2> QED
        BY <2>2, <2>3
<1> QED
    BY <1>7, <1>8

----------------------------------------------------------------------------
(* The text of a row is read back.                                         *)

\* The text of a single row.
RowText(rr, d) == Joined([f \in DOMAIN rr |-> EscapeCsvField(rr[f], d)], d)

LEMMA DoubledTyped ==
    ASSUME NEW A, Quote \in A, NEW w \in Seq(A), NEW d
    PROVE  EscapeCsvField(w, d) \in Seq(A)
<1>1. <<Quote>> \o Doubled(w) \o <<Quote>> \in Seq(A)
    BY QuotedFieldPlaces
<1> QED
    BY <1>1 DEF EscapeCsvField

WritesAll(parts, rr, d) == parts = [f \in DOMAIN rr |-> EscapeCsvField(rr[f], d)]

LEMMA FieldTexts ==
    ASSUME NEW A, Quote \in A, NEW rr \in Seq(Seq(A)), rr # <<>>, NEW d,
           NEW parts, WritesAll(parts, rr, d)
    PROVE  /\ parts \in Seq(Seq(A)) /\ Len(parts) = Len(rr) /\ parts # <<>>
           /\ \A k \in 1 .. Len(rr) : parts[k] = EscapeCsvField(rr[k], d)
<1> DEFINE n == Len(rr)
<1>1. n \in Nat /\ DOMAIN rr = 1 .. n /\ n # 0
    BY LenProperties, EmptySeq
<1>2. \A k \in 1 .. n : EscapeCsvField(rr[k], d) \in Seq(A)
    BY DoubledTyped
<1>3. parts = [k \in 1 .. n |-> EscapeCsvField(rr[k], d)]
    BY <1>1 DEF WritesAll
<1>4. parts \in [1 .. n -> Seq(A)]
    BY <1>2, <1>3
<1> HIDE DEF n
<1>5. parts \in Seq(Seq(A)) /\ DOMAIN parts = 1 .. n
    BY <1>1, <1>4
<1>6. Len(parts) = n
    <2>1. Len(parts) \in Nat /\ DOMAIN parts = 1 .. Len(parts)
        BY <1>5, LenProperties
    <2> QED
        BY <1>1, <1>5, <2>1
<1>7. parts # <<>>
    BY <1>1, <1>5, <1>6, EmptySeq
<1> QED
    BY <1>3, <1>5, <1>6, <1>7 DEF n

LEMMA RowTextType ==
    ASSUME NEW A, Quote \in A, NEW rr \in Seq(Seq(A)), rr # <<>>, NEW d \in A
    PROVE  RowText(rr, d) \in Seq(A)
<1> DEFINE parts == [f \in DOMAIN rr |-> EscapeCsvField(rr[f], d)]
<1>1. parts \in Seq(Seq(A)) /\ parts # <<>>
    <2>1. WritesAll(parts, rr, d)
        BY DEF WritesAll
    <2> HIDE DEF parts
    <2> QED
        BY <2>1, FieldTexts
<1>2. PartsAre(A, Joined(parts, d), parts, d)
    <2> HIDE DEF parts
    <2> QED
        BY <1>1, JoinPlaces
<1> QED
    BY <1>2 DEF PartsAre, RowText

\* One part is put together as itself.
LEMMA JoinedOne ==
    ASSUME NEW A, NEW t \in Seq(A), NEW separator \in A
    PROVE  Joined(<<t>>, separator) = t
<1> DEFINE parts == <<t>>
<1>1. parts \in Seq(Seq(A)) /\ parts # <<>> /\ Head(parts) = t /\ Tail(parts) = <<>> /\ Len(Tail(parts)) = 0
    OBVIOUS
<1> HIDE DEF parts
<1>2. Joins(A, parts, separator)
    BY <1>1, JoinedSteps
<1>3. Joined(parts, separator) = t
    BY <1>1, <1>2 DEF Joins
<1> QED
    BY <1>3 DEF parts

LEMMA FormatOneRow ==
    ASSUME NEW A, Quote \in A, LineBreak \in A, NEW rr \in Seq(Seq(A)), rr # <<>>, NEW d \in A
    PROVE  FormatCSV(<<rr>>, d) = RowText(rr, d)
<1> DEFINE rows == <<rr>>
           t == RowText(rr, d)
<1>1. DOMAIN rows = {1} /\ rows[1] = rr
    BY One
<1> HIDE DEF rows
<1>2. [r \in DOMAIN rows |-> Joined([f \in DOMAIN rows[r] |-> EscapeCsvField(rows[r][f], d)], d)] = [r \in {1} |-> t]
    BY <1>1 DEF RowText
<1>3. FormatCSV(rows, d) = Joined([r \in {1} |-> t], LineBreak)
    BY <1>2 DEF FormatCSV
<1> HIDE DEF t
<1>4. [r \in {1} |-> t] = <<t>>
    BY One
<1>5. t \in Seq(A)
    BY RowTextType DEF t
<1>6. Joined(<<t>>, LineBreak) = t
    BY <1>5, JoinedOne
<1> QED
    BY <1>3, <1>4, <1>6 DEF rows, t

LEMMA ParseOneLine ==
    ASSUME NEW t \in Seq(OnOneLine), Tidy(t), NEW d
    PROVE  ParseCSV(t, d) = <<ParseCsvLine(t, d)>>
<1>1. Trimmed(t) = t
    BY TrimmedTidy
<1>2. SplitAt(t, LineBreak) = <<t>>
    <2>1. LineBreak \notin OnOneLine
        BY DEF OnOneLine
    <2> QED
        BY <2>1, SplitPlain
<1> DEFINE lines == <<t>>
           read == ParseCsvLine(t, d)
<1>3. DOMAIN lines = {1} /\ lines[1] = t
    BY One
<1> HIDE DEF lines
<1>4. ParseCSV(t, d) = [l \in DOMAIN lines |-> ParseCsvLine(lines[l], d)]
    BY <1>1, <1>2 DEF ParseCSV, lines
<1>5. ParseCSV(t, d) = [l \in {1} |-> read]
    BY <1>3, <1>4
<1> HIDE DEF read
<1>6. [l \in {1} |-> read] = <<read>>
    BY One
<1> QED
    BY <1>5, <1>6 DEF read

\* What CsvRoundTrip says of a row, for rows and fields of every length.
LEMMA RowsComeBack ==
    ASSUME NEW d \in {Comma, Tab}, NEW rr \in Seq(Seq(Char)), rr # <<>>,
           d = Tab => Trimmed(rr[1]) # <<>> /\ Trimmed(rr[Len(rr)]) # <<>>,
           \A k \in 1 .. Len(rr) : LineBreak \notin Range(rr[k]) /\ rr[k] = Trimmed(rr[k])
    PROVE  ParseCSV(FormatCSV(<<rr>>, d), d) = <<rr>>
<1>1. Quote \in Char /\ LineBreak \in Char /\ d \in Char /\ d \in OnOneLine /\ Quote \in OnOneLine
    BY DEF Char, OnOneLine, Quote, LineBreak, Comma, Tab
<1>2. \A k \in 1 .. Len(rr) : rr[k] \in Seq(OnOneLine)
    <2> TAKE k \in 1 .. Len(rr)
    <2> DEFINE s == rr[k]
    <2>1. s \in Seq(Char) /\ LineBreak \notin Range(s)
        OBVIOUS
    <2> HIDE DEF s
    <2>2. \A j \in 1 .. Len(s) : s[j] \in OnOneLine
        <3>1. DOMAIN s = 1 .. Len(s) /\ \A j \in 1 .. Len(s) : s[j] \in Char
            BY <2>1
        <3> QED
            BY <2>1, <3>1 DEF Range, OnOneLine
    <2>3. s \in [1 .. Len(s) -> OnOneLine] /\ Len(s) \in Nat
        BY <2>1, <2>2
    <2>4. s \in Seq(OnOneLine)
        BY <2>3
    <2> QED
        BY <2>4 DEF s
<1>3. rr \in Seq(Seq(OnOneLine)) /\ Len(rr) \in Nat /\ 1 \in 1 .. Len(rr) /\ Len(rr) \in 1 .. Len(rr)
    <2>1. Len(rr) \in Nat /\ DOMAIN rr = 1 .. Len(rr) /\ Len(rr) # 0
        BY LenProperties, EmptySeq
    <2>2. rr \in [1 .. Len(rr) -> Seq(OnOneLine)]
        BY <1>2, <2>1
    <2> DEFINE n == Len(rr)
    <2> HIDE DEF n
    <2>3. rr \in Seq(Seq(OnOneLine)) /\ n \in Nat /\ 1 \in 1 .. n /\ n \in 1 .. n
        <3>1. n \in Nat /\ n # 0 /\ rr \in [1 .. n -> Seq(OnOneLine)]
            BY <2>1, <2>2 DEF n
        <3>2. rr \in Seq(Seq(OnOneLine))
            BY <3>1
        <3> QED
            BY <3>1, <3>2
    <2> QED
        BY <2>3 DEF n
<1> DEFINE parts == [f \in DOMAIN rr |-> EscapeCsvField(rr[f], d)]
           t == Joined(parts, d)
<1>4. /\ parts \in Seq(Seq(OnOneLine)) /\ Len(parts) = Len(rr) /\ parts # <<>>
      /\ \A k \in 1 .. Len(rr) : parts[k] = EscapeCsvField(rr[k], d)
    <2>1. WritesAll(parts, rr, d)
        BY DEF WritesAll
    <2>2. rr \in Seq(Seq(OnOneLine)) /\ Quote \in OnOneLine
        BY <1>1, <1>3
    <2> HIDE DEF parts
    <2> QED
        BY <2>1, <2>2, FieldTexts
<1>5. FormatCSV(<<rr>>, d) = t
    BY <1>1, FormatOneRow DEF RowText
<1> HIDE DEF parts
<1>6. PartsAre(OnOneLine, t, parts, d)
    BY <1>1, <1>4, JoinPlaces
<1> HIDE DEF t
<1>7. t \in Seq(OnOneLine)
    BY <1>6 DEF PartsAre
<1>8. \A k \in 1 .. Len(rr) : Tidy(parts[k]) /\ (parts[k] = <<>> => rr[k] = <<>>)
    <2> TAKE k \in 1 .. Len(rr)
    <2> DEFINE w == rr[k]
    <2>1. w \in Seq(OnOneLine) /\ Trimmed(w) = w /\ parts[k] = EscapeCsvField(w, d)
        BY <1>2, <1>4
    <2> HIDE DEF w
    <2>2. Tidy(w)
        BY <2>1, TidyTrimmed
    <2>3. Tidy(EscapeCsvField(w, d)) /\ (EscapeCsvField(w, d) = <<>> => w = <<>>)
        BY <2>1, <2>2, EscapedTidy
    <2> QED
        BY <2>1, <2>3 DEF w
<1>9. parts[1] = <<>> \/ parts[Len(parts)] = <<>> => d \notin Blank
    <2>1. SUFFICES ASSUME rr[1] = <<>> \/ rr[Len(rr)] = <<>> PROVE d \notin Blank
        BY <1>3, <1>4, <1>8
    <2>2. d # Tab
        <3>1. rr[1] = Trimmed(rr[1]) /\ rr[Len(rr)] = Trimmed(rr[Len(rr)])
            BY <1>3
        <3> QED
            BY <2>1, <3>1
    <2> QED
        BY <2>2 DEF Blank, Comma, Tab, LineBreak
<1>10. Tidy(t)
    BY <1>4, <1>6, <1>8, <1>9, PartsTidy
<1>11. ParseCSV(t, d) = <<ParseCsvLine(t, d)>>
    BY <1>7, <1>10, ParseOneLine
<1>12. ParseCsvLine(t, d) = rr
    <2>1. \A k \in 1 .. Len(rr) : Trimmed(rr[k]) = rr[k]
        OBVIOUS
    <2>2. rr \in Seq(Seq(OnOneLine))
        BY <1>3
    <2>3. Len(parts) = Len(rr) /\ \A k \in 1 .. Len(rr) : parts[k] = EscapeCsvField(rr[k], d)
        BY <1>4
    <2> QED
        BY <1>6, <2>1, <2>2, <2>3, RowRead
<1> QED
    BY <1>5, <1>11, <1>12

-----------------------------------------------------------------------------
\* What any text is parsed as.
LEMMA ParsedType ==
    ASSUME NEW t \in Seq(Char), NEW d
    PROVE  \A r \in DOMAIN ParseCSV(t, d) : ParseCSV(t, d)[r] \in Seq(Seq(Char))
<1> DEFINE lines == SplitAt(Trimmed(t), LineBreak)
<1>1. Quote \in Char
    BY DEF Char
<1>2. \A l \in DOMAIN lines : lines[l] \in Seq(Char)
    <2> DEFINE s == Trimmed(t)
    <2>1. s \in Seq(Char)
        BY TrimmedType
    <2> HIDE DEF s
    <2>2. SplitAt(s, LineBreak) \in Seq(Seq(Char \ {LineBreak}))
        BY <2>1, SplitType DEF Parts
    <2>3. \A l \in DOMAIN lines : lines[l] \in Seq(Char \ {LineBreak})
        BY <2>2 DEF s
    <2> HIDE DEF lines
    <2>4. Seq(Char \ {LineBreak}) \subseteq Seq(Char)
        OBVIOUS
    <2> QED
        BY <2>3, <2>4
<1> HIDE DEF lines
<1>3. ASSUME NEW line \in Seq(Char) PROVE ParseCsvLine(line, d) \in Seq(Seq(Char))
    <2>1. CsvReads(Char, line, d)
        BY <1>1, CsvSteps
    <2>2. Len(Places(line)) \in Nat
        BY PlacesType
    <2>3. PICK h \in [0 .. Len(Places(line)) -> CsvState(Char)] :
            ParseCsvLine(line, d) = Append(h[Len(Places(line))].fields, Trimmed(h[Len(Places(line))].current))
        BY <2>1 DEF CsvReads
    <2>4. PICK s \in CsvState(Char) : ParseCsvLine(line, d) = Append(s.fields, Trimmed(s.current))
        <3>1. Len(Places(line)) \in 0 .. Len(Places(line))
            BY <2>2
        <3> QED
            BY <2>3, <3>1
    <2>5. s.fields \in Seq(Seq(Char)) /\ s.current \in Seq(Char)
        BY DEF CsvState
    <2>6. Trimmed(s.current) \in Seq(Char)
        BY <2>5, TrimmedType
    <2> QED
        BY <2>4, <2>5, <2>6, AppendProperties
<1>4. ParseCSV(t, d) = [l \in DOMAIN lines |-> ParseCsvLine(lines[l], d)]
    BY DEF ParseCSV, lines
<1> QED
    BY <1>2, <1>3, <1>4

\* What was written and what was read, if they were.
CsvInv ==
    /\ delimiter \in {Comma, Tab} /\ row \in [1 .. Fields -> Seq(Char)]
    /\ text # <<>> => text = FormatCSV(<<row>>, delimiter)
    /\ parsed # <<>> => parsed = ParseCSV(FormatCSV(<<row>>, delimiter), delimiter)

LEMMA RowIs ==
    ASSUME row \in [1 .. Fields -> Seq(Char)]
    PROVE  row \in Seq(Seq(Char)) /\ Len(row) = Fields /\ row # <<>>
<1>1. Fields \in Nat /\ Fields > 0
    BY TextAssumption
<1>2. row \in Seq(Seq(Char)) /\ DOMAIN row = 1 .. Fields
    BY <1>1
<1>3. Len(row) = Fields
    BY <1>1, <1>2, LenProperties
<1> QED
    BY <1>1, <1>2, <1>3, EmptySeq

LEMMA CsvInvariant ==
    CsvSpec => []CsvInv
<1>1. CsvInit => CsvInv
    <2> SUFFICES ASSUME CsvInit PROVE CsvInv
        OBVIOUS
    <2>1. Text(MaxField) \subseteq Seq(Char)
        <3> SUFFICES ASSUME NEW s \in Text(MaxField) PROVE s \in Seq(Char)
            OBVIOUS
        <3>1. PICK n \in 0 .. MaxField : s \in [1 .. n -> Char]
            BY DEF Text
        <3>2. n \in Nat
            BY TextAssumption
        <3> QED
            BY <3>1, <3>2
    <2> QED
        BY <2>1 DEF CsvInit, CsvInv
<1>2. CsvInv /\ [CsvNext]_csvVars => CsvInv'
    <2> SUFFICES ASSUME CsvInv, [CsvNext]_csvVars PROVE CsvInv'
        OBVIOUS
    <2>1. CASE Formats
        BY <2>1 DEF CsvInv, Formats
    <2>2. CASE Parses
        BY <2>2 DEF CsvInv, Parses
    <2>3. CASE UNCHANGED csvVars
        BY <2>3 DEF CsvInv, csvVars
    <2> QED
        BY <2>1, <2>2, <2>3 DEF CsvNext
<1> QED
    BY <1>1, <1>2, PTL DEF CsvSpec

\* formatCSV() and parseCSV(): a row of any number of fields of any length, with quotes,
\* delimiters and blanks in them, is read back as it was written, where no trimming and
\* no newline in a field is in the way.
THEOREM RowsAlwaysComeBack ==
    CsvSpec => []CsvRoundTrip
<1>1. CsvInv => CsvRoundTrip
    <2> SUFFICES ASSUME CsvInv, parsed # <<>>, ~TrimmedAway,
                        \A f \in 1 .. Fields : LineBreak \notin Range(row[f]) /\ row[f] = Trimmed(row[f])
                 PROVE  parsed = <<row>>
        BY DEF CsvRoundTrip
    <2>1. row \in Seq(Seq(Char)) /\ Len(row) = Fields /\ row # <<>>
        BY RowIs DEF CsvInv
    <2>2. delimiter = Tab => Trimmed(row[1]) # <<>> /\ Trimmed(row[Fields]) # <<>>
        BY DEF TrimmedAway
    <2>3. parsed = ParseCSV(FormatCSV(<<row>>, delimiter), delimiter) /\ delimiter \in {Comma, Tab}
        BY DEF CsvInv
    <2>4. ParseCSV(FormatCSV(<<row>>, delimiter), delimiter) = <<row>>
        BY <2>1, <2>2, <2>3, RowsComeBack
    <2> QED
        BY <2>3, <2>4
<1> QED
    BY <1>1, CsvInvariant, PTL

\* A text has characters of the alphabet, and a row that was read is one of texts.
THEOREM CsvTyped ==
    CsvSpec => []CsvTypeOK
<1>1. CsvInv => CsvTypeOK
    <2> SUFFICES ASSUME CsvInv PROVE CsvTypeOK
        OBVIOUS
    <2>1. row \in Seq(Seq(Char)) /\ Len(row) = Fields /\ row # <<>> /\ delimiter \in {Comma, Tab}
        BY RowIs DEF CsvInv
    <2>2. Quote \in Char /\ LineBreak \in Char /\ delimiter \in Char
        BY <2>1 DEF Char
    <2> DEFINE t == FormatCSV(<<row>>, delimiter)
    <2>3. t \in Seq(Char)
        BY <2>1, <2>2, FormatOneRow, RowTextType
    <2>4. (text # <<>> => text = t) /\ (parsed # <<>> => parsed = ParseCSV(t, delimiter))
        BY DEF CsvInv
    <2> HIDE DEF t
    <2>5. text \in Seq(Char)
        BY <2>3, <2>4, EmptySeq
    <2>6. \A r \in DOMAIN parsed : parsed[r] \in Seq(Seq(Char))
        <3>1. CASE parsed # <<>>
            BY <2>3, <2>4, <3>1, ParsedType
        <3>2. CASE parsed = <<>>
            BY <3>2
        <3> QED
            BY <3>1, <3>2
    <2> QED
        BY <2>5, <2>6 DEF CsvTypeOK
<1> QED
    BY <1>1, CsvInvariant, PTL

============================================================================
