---------------------------- MODULE RecipeProofs ----------------------------
(***************************************************************************)
(* Proofs about recipes, for files of any content and length, including one *)
(* another in any way.                                                      *)
(***************************************************************************)
EXTENDS Recipe, FoldLemmas

-----------------------------------------------------------------------------
(* The include stack.                                                      *)

Activation == [file : File, at : Nat \ {0}]

\* The files of resolveIncludes' activations.
Files(s) == {s[i].file : i \in DOMAIN s}

\* resolveIncludes walks the files of a recipe: an activation is at a statement
\* of its file or past the last one.
WalkType ==
    /\ source \in Sources
    /\ includes \in Seq(Activation)

\* No file is on the stack twice, and the chain holds the files on the stack.
Distinct(s) == \A i, j \in DOMAIN s : s[i].file = s[j].file => i = j

ChainIsStack ==
    (phase = "parse" /\ includes # <<>>) =>
        /\ Distinct(includes)
        /\ chain = Files(includes)
        /\ IsFiniteSet(chain) /\ Cardinality(chain) = Len(includes)

\* Before the first activation the chain holds the recipe's own file.
ChainStarts == (phase = "parse" /\ includes = <<>>) => chain = {Top}

IncludeInv == WalkType /\ ChainIsStack /\ ChainStarts

\* The file of an activation is on the stack.
LEMMA FileOn ==
    ASSUME NEW s, NEW i \in DOMAIN s
    PROVE  s[i].file \in Files(s)
  BY Zenon DEF Files

\* Moving on in the innermost file changes no file of the stack.
LEMMA PastFacts ==
    ASSUME NEW s \in Seq(Activation), s # <<>>
    PROVE  LET past == [s EXCEPT ![Len(s)].at = @ + 1] IN
           /\ past \in Seq(Activation) /\ Len(past) = Len(s) /\ past # <<>>
           /\ DOMAIN past = DOMAIN s
           /\ \A i \in DOMAIN s : past[i].file = s[i].file
<1>1. Len(s) \in DOMAIN s /\ Len(s) \in Nat \ {0}
  BY EmptySeq, LenProperties
<1> DEFINE a == [s[Len(s)] EXCEPT !.at = @ + 1]
           past == [s EXCEPT ![Len(s)].at = @ + 1]
<1>2. s[Len(s)] \in Activation
  BY <1>1, ElementOfSeq
<1>3. a \in Activation /\ a.file = s[Len(s)].file
  BY <1>2 DEF Activation
<1>4. past = [s EXCEPT ![Len(s)] = a]
  OBVIOUS
<1>5. past \in Seq(Activation) /\ Len(past) = Len(s) /\ DOMAIN past = DOMAIN s
  BY <1>1, <1>3, <1>4, ExceptSeq
<1>6. \A i \in DOMAIN s : past[i].file = s[i].file
  BY <1>3, <1>4
<1> HIDE DEF past
<1>7. past # <<>>
  BY <1>1, <1>5
<1> QED
  BY <1>5, <1>6, <1>7 DEF past

\* An activation of a file that is not on the stack.
LEMMA EnterFacts ==
    ASSUME NEW s \in Seq(Activation), NEW f \in File, f \notin Files(s), Distinct(s),
           IsFiniteSet(Files(s)), Cardinality(Files(s)) = Len(s)
    PROVE  LET t == Append(s, [file |-> f, at |-> 1]) IN
           /\ t \in Seq(Activation) /\ t # <<>> /\ Distinct(t)
           /\ Files(t) = Files(s) \cup {f}
           /\ IsFiniteSet(Files(t)) /\ Cardinality(Files(t)) = Len(t)
<1> DEFINE t == Append(s, [file |-> f, at |-> 1])
           n == Len(s)
<1>1. [file |-> f, at |-> 1] \in Activation
  BY DEF Activation
<1>2. /\ t \in Seq(Activation) /\ t # <<>> /\ Len(t) = n + 1
      /\ \A i \in 1..n : t[i] = s[i]
      /\ t[n + 1] = [file |-> f, at |-> 1]
  BY <1>1, AppendProperties
<1>3. n \in Nat /\ DOMAIN s = 1..n
  BY LenProperties
<1>4. DOMAIN t = 1..(n + 1)
  BY <1>2, LenProperties
<1>5. t[n + 1].file = f
  BY <1>2
<1> HIDE DEF t, n
<1>6. Files(t) = Files(s) \cup {f}
  <2>1. ASSUME NEW i \in DOMAIN t PROVE t[i].file \in Files(s) \cup {f}
    <3>1. CASE i = n + 1
      BY <1>5, <3>1
    <3>2. CASE i # n + 1
      <4>1. i \in DOMAIN s /\ t[i] = s[i]
        BY <1>2, <1>3, <1>4, <3>2
      <4> QED
        BY <4>1, FileOn
    <3> QED
      BY <3>1, <3>2
  <2>2. ASSUME NEW i \in DOMAIN s PROVE s[i].file \in Files(t)
    <3>1. i \in DOMAIN t /\ t[i] = s[i]
      BY <1>2, <1>3, <1>4
    <3> QED
      BY <3>1, FileOn
  <2>3. f \in Files(t)
    <3>1. n + 1 \in DOMAIN t
      BY <1>3, <1>4
    <3> QED
      BY <1>5, <3>1, FileOn
  <2> QED
    BY <2>1, <2>2, <2>3 DEF Files
<1>7. Distinct(t)
  <2>1. SUFFICES ASSUME NEW i \in DOMAIN t, NEW j \in DOMAIN t, t[i].file = t[j].file, i < j
                 PROVE  FALSE
    BY <1>3, <1>4 DEF Distinct
  <2>2. i \in 1..n /\ t[i] = s[i] /\ s[i].file \in Files(s)
    <3>1. i \in DOMAIN s /\ t[i] = s[i]
      BY <1>2, <1>3, <1>4, <2>1
    <3> QED
      BY <1>3, <3>1, FileOn
  <2>3. CASE j = n + 1
    BY <1>5, <2>1, <2>2, <2>3
  <2>4. CASE j # n + 1
    BY <1>2, <1>3, <1>4, <2>1, <2>2, <2>4 DEF Distinct
  <2> QED
    BY <2>3, <2>4
<1>8. IsFiniteSet(Files(t)) /\ Cardinality(Files(t)) = Len(t)
  <2>1. IsFiniteSet(Files(s) \cup {f}) /\ Cardinality(Files(s) \cup {f}) = Cardinality(Files(s)) + 1
    BY FS_AddElement
  <2> QED
    BY <1>2, <1>6, <2>1 DEF n
<1> QED
  BY <1>2, <1>6, <1>7, <1>8 DEF t

\* The innermost of several activations returns: its file leaves the chain, and
\* is not needed by another activation.
LEMMA LeaveFacts ==
    ASSUME NEW s \in Seq(Activation), Len(s) > 1, Distinct(s),
           IsFiniteSet(Files(s)), Cardinality(Files(s)) = Len(s)
    PROVE  LET t == SubSeq(s, 1, Len(s) - 1) IN
           /\ t \in Seq(Activation) /\ t # <<>> /\ Distinct(t)
           /\ Files(t) = Files(s) \ {s[Len(s)].file}
           /\ IsFiniteSet(Files(t)) /\ Cardinality(Files(t)) = Len(t)
<1> DEFINE t == SubSeq(s, 1, Len(s) - 1)
           n == Len(s)
           f == s[n].file
<1>1. n \in Nat /\ DOMAIN s = 1..n /\ \A i \in 1..n : s[i] \in Activation
  BY LenProperties, ElementOfSeq
<1>2. /\ t \in Seq(Activation) /\ Len(t) = n - 1
      /\ \A i \in 1..(n - 1) : t[i] = s[i]
  BY <1>1, SubSeqProperties
<1>3. DOMAIN t = 1..(n - 1)
  BY <1>2, LenProperties
<1> HIDE DEF t
<1>4. Files(t) = Files(s) \ {f}
  <2>1. ASSUME NEW i \in DOMAIN t PROVE t[i].file \in Files(s) \ {f}
    <3>1. i \in DOMAIN s /\ n \in DOMAIN s /\ i # n /\ t[i] = s[i]
      BY <1>1, <1>2, <1>3
    <3> QED
      BY <3>1, FileOn DEF Distinct
  <2>2. ASSUME NEW i \in DOMAIN s, s[i].file # f PROVE s[i].file \in Files(t)
    <3>1. i \in 1..(n - 1)
      BY <1>1, <2>2
    <3> QED
      BY <1>2, <1>3, <3>1 DEF Files
  <2> QED
    BY <2>1, <2>2 DEF Files
<1>5. Distinct(t)
  BY <1>1, <1>2, <1>3 DEF Distinct
<1>6. f \in Files(s)
  <2>1. n \in DOMAIN s
    BY <1>1
  <2> QED
    BY <2>1, FileOn
<1>7. IsFiniteSet(Files(t)) /\ Cardinality(Files(t)) = Len(t)
  <2>1. IsFiniteSet(Files(s) \ {f}) /\ Cardinality(Files(s) \ {f}) = Cardinality(Files(s)) - 1
    BY <1>6, FS_RemoveElement
  <2> QED
    BY <1>2, <1>4, <2>1
<1>8. t # <<>>
  BY <1>1, <1>2, EmptySeq
<1> QED
  BY <1>2, <1>4, <1>5, <1>7, <1>8 DEF t

-----------------------------------------------------------------------------
(* The steps.                                                              *)

\* Before anything is parsed.
LEMMA IncludeInit == RecipeInit => IncludeInv
BY EmptySeq DEF RecipeInit, IncludeInv, WalkType, ChainIsStack, ChainStarts

\* Parse starts with the recipe's own file.
LEMMA ParseStep == IncludeInv /\ Parse => IncludeInv'
<1> SUFFICES ASSUME IncludeInv, Parse PROVE IncludeInv'
  OBVIOUS
<1>1. CASE ~ParseFile(Top)
  BY <1>1 DEF Parse, IncludeInv, WalkType, ChainIsStack, ChainStarts
<1>2. CASE ParseFile(Top)
  <2> DEFINE s == <<[file |-> Top, at |-> 1]>>
  <2>1. includes' = s /\ chain' = {Top} /\ source' = source
    BY <1>2 DEF Parse, IncludeInv, ChainStarts
  <2>2. Top \in File
    BY RecipeAssumption
  <2>3. s \in Seq(Activation) /\ s # <<>> /\ Len(s) = 1 /\ DOMAIN s = {1} /\ s[1].file = Top
    BY <2>2 DEF Activation
  <2>4. IsFiniteSet({Top}) /\ Cardinality({Top}) = 1
    BY FS_Singleton
  <2> HIDE DEF s
  <2>5. Distinct(s) /\ Files(s) = {Top}
    BY <2>3 DEF Distinct, Files
  <2> QED
    BY <2>1, <2>3, <2>4, <2>5 DEF IncludeInv, WalkType, ChainIsStack, ChainStarts
<1> QED
  BY <1>1, <1>2

\* A statement is copied, a file entered, or the parse ends.
LEMMA ResolveStep == IncludeInv /\ ResolveIncludes => IncludeInv'
<1> SUFFICES ASSUME IncludeInv, ResolveIncludes PROVE IncludeInv'
  OBVIOUS
<1> DEFINE d == Len(includes)
           st == source[includes[d].file][includes[d].at]
           past == [includes EXCEPT ![Len(includes)].at = @ + 1]
<1>1. includes \in Seq(Activation) /\ includes # <<>> /\ phase = "parse" /\ source' = source
  BY EmptySeq DEF ResolveIncludes, IncludeInv, WalkType
<1>2. Distinct(includes) /\ chain = Files(includes) /\ IsFiniteSet(chain)
      /\ Cardinality(chain) = Len(includes)
  BY <1>1 DEF IncludeInv, ChainIsStack
<1>3. /\ past \in Seq(Activation) /\ Len(past) = Len(includes) /\ past # <<>>
      /\ DOMAIN past = DOMAIN includes
      /\ \A i \in DOMAIN includes : past[i].file = includes[i].file
  BY <1>1, PastFacts
<1>4. \/ st \notin File /\ includes' = past /\ phase' = phase /\ chain' = chain
      \/ /\ st \in File /\ st \notin chain
         /\ includes' = Append(past, [file |-> st, at |-> 1])
         /\ chain' = chain \cup {st}
      \/ phase' = "error" /\ includes' = includes
  BY DEF ResolveIncludes, Cycle, parseVars
<1> HIDE DEF past, st
<1>5. Distinct(past) /\ Files(past) = Files(includes)
  BY <1>2, <1>3 DEF Distinct, Files
<1>6. CASE includes' = past /\ phase' = phase /\ chain' = chain
  BY <1>1, <1>2, <1>3, <1>5, <1>6 DEF IncludeInv, WalkType, ChainIsStack, ChainStarts
<1>7. CASE /\ st \in File /\ st \notin chain
           /\ includes' = Append(past, [file |-> st, at |-> 1])
           /\ chain' = chain \cup {st}
  <2> DEFINE t == Append(past, [file |-> st, at |-> 1])
  <2>1. /\ t \in Seq(Activation) /\ t # <<>> /\ Distinct(t)
        /\ Files(t) = Files(past) \cup {st}
        /\ IsFiniteSet(Files(t)) /\ Cardinality(Files(t)) = Len(t)
    BY <1>2, <1>3, <1>5, <1>7, EnterFacts
  <2>2. includes' = t /\ chain' = Files(t)
    BY <1>2, <1>5, <1>7, <2>1
  <2> HIDE DEF t
  <2> QED
    BY <1>1, <2>1, <2>2 DEF IncludeInv, WalkType, ChainIsStack, ChainStarts
<1>8. CASE phase' = "error" /\ includes' = includes
  BY <1>1, <1>8 DEF IncludeInv, WalkType, ChainIsStack, ChainStarts
<1> QED
  BY <1>4, <1>6, <1>7, <1>8

\* An activation returns.
LEMMA IncludeDoneStep == IncludeInv /\ IncludeDone => IncludeInv'
<1> SUFFICES ASSUME IncludeInv, IncludeDone PROVE IncludeInv'
  OBVIOUS
<1> DEFINE t == SubSeq(includes, 1, Len(includes) - 1)
<1>1. includes \in Seq(Activation) /\ includes # <<>> /\ phase = "parse" /\ source' = source
      /\ includes' = t
  BY EmptySeq DEF IncludeDone, IncludeInv, WalkType
<1>2. Distinct(includes) /\ chain = Files(includes) /\ IsFiniteSet(chain)
      /\ Cardinality(chain) = Len(includes)
  BY <1>1 DEF IncludeInv, ChainIsStack
<1>3. CASE Len(includes) > 1
  <2>1. chain' = chain \ {includes[Len(includes)].file}
    BY <1>3 DEF IncludeDone
  <2>2. /\ t \in Seq(Activation) /\ t # <<>> /\ Distinct(t)
        /\ Files(t) = Files(includes) \ {includes[Len(includes)].file}
        /\ IsFiniteSet(Files(t)) /\ Cardinality(Files(t)) = Len(t)
    BY <1>1, <1>2, <1>3, LeaveFacts
  <2> HIDE DEF t
  <2> QED
    BY <1>1, <1>2, <2>1, <2>2 DEF IncludeInv, WalkType, ChainIsStack, ChainStarts
<1>4. CASE ~(Len(includes) > 1)
  <2>1. phase' = "run"
    BY <1>4 DEF IncludeDone
  <2>2. Len(includes) \in Nat /\ \A i \in 1..(Len(includes) - 1) : includes[i] \in Activation
    BY <1>1, LenProperties, ElementOfSeq
  <2>3. t \in Seq(Activation)
    BY <2>2, SubSeqProperties
  <2> HIDE DEF t
  <2> QED
    BY <1>1, <2>1, <2>3 DEF IncludeInv, WalkType, ChainIsStack, ChainStarts
<1> QED
  BY <1>3, <1>4

\* Run no longer touches the files, and never goes back to parsing.
LEMMA RunSteps ==
    ASSUME IncludeInv,
           ApplyIf \/ ApplyElseIf \/ ApplyElse \/ ApplyEnd \/ Skip \/ Execute \/ RunDone
    PROVE  IncludeInv'
<1>1. source' = source /\ includes' = includes /\ phase' # "parse"
  BY DEF ApplyIf, ApplyElseIf, ApplyElse, ApplyEnd, Skip, Execute, RunDone, Proceed, parseVars
<1> QED
  BY <1>1 DEF IncludeInv, WalkType, ChainIsStack, ChainStarts

\* Every step keeps the chain equal to the stack.
LEMMA IncludeStep == IncludeInv /\ [RecipeNext]_recipeVars => IncludeInv'
<1> SUFFICES ASSUME IncludeInv, [RecipeNext]_recipeVars PROVE IncludeInv'
  OBVIOUS
<1>1. CASE UNCHANGED recipeVars
  BY <1>1 DEF recipeVars, IncludeInv, WalkType, ChainIsStack, ChainStarts
<1> QED
  BY <1>1, ParseStep, ResolveStep, IncludeDoneStep, RunSteps DEF RecipeNext

\* resolveIncludes never has a file on its stack twice, and the chain that it
\* passes by value and checks before reading a target holds exactly the files
\* on the stack: with finitely many files the recursion ends.
THEOREM IncludesAcyclicCorrect == RecipeSpec => []IncludesAcyclic
<1>1. IncludeInv => IncludesAcyclic
  BY DEF IncludeInv, ChainIsStack, Files, IncludesAcyclic
<1> QED
  BY <1>1, IncludeInit, IncludeStep, PTL DEF RecipeSpec

-----------------------------------------------------------------------------
(* The validation of markers.                                              *)

FlowState == [ok : BOOLEAN, stack : Seq(BOOLEAN)]
FlowStart == [ok |-> TRUE, stack |-> <<>>]

\* What validateControlFlow has found of a sequence of statements.
Flow(p) == FoldLeft(Validate, FlowStart, p)
\* One statement.
LEMMA ValidateType ==
    ASSUME NEW acc \in FlowState, NEW st
    PROVE  Validate(acc, st) \in FlowState
<1> DEFINE n == Len(acc.stack)
<1>1. acc.ok \in BOOLEAN /\ acc.stack \in Seq(BOOLEAN) /\ n \in Nat
      /\ acc = [ok |-> acc.ok, stack |-> acc.stack]
  BY DEF FlowState
<1>2. CASE st = "if"
  <2>1. Append(acc.stack, FALSE) \in Seq(BOOLEAN)
    BY <1>1, AppendProperties
  <2> QED
    BY <1>1, <1>2, <2>1 DEF Validate, FlowState
<1>3. CASE st \in {"elseif", "else"} /\ n # 0
  <2> DEFINE s == [acc.stack EXCEPT ![n] = acc.stack[n] \/ st = "else"]
             k == acc.ok /\ ~acc.stack[n]
  <2>1. n \in 1..Len(acc.stack) /\ (acc.stack[n] \/ st = "else") \in BOOLEAN /\ k \in BOOLEAN
    BY <1>1, <1>3
  <2>2. s \in Seq(BOOLEAN)
    BY <1>1, <2>1, ExceptSeq
  <2>3. Validate(acc, st) = [ok |-> k, stack |-> s]
    BY <1>3 DEF Validate
  <2> HIDE DEF s, k
  <2> QED
    BY <2>1, <2>2, <2>3 DEF FlowState
<1>4. CASE st = "end" /\ n # 0
  <2>1. SubSeq(acc.stack, 1, n - 1) \in Seq(BOOLEAN)
    BY <1>1, <1>4
  <2> QED
    BY <1>1, <1>4, <2>1 DEF Validate, FlowState
<1>5. CASE st \in {"elseif", "else", "end"} /\ n = 0
  BY <1>1, <1>5 DEF Validate, FlowState
<1>6. CASE st \notin {"if", "elseif", "else", "end"}
  BY <1>6 DEF Validate
<1> QED
  BY <1>2, <1>3, <1>4, <1>5, <1>6

\* The states that validateControlFlow goes through.
IsFlow(p, t) ==
    /\ t \in [0..Len(p) -> FlowState]
    /\ t[0] = FlowStart /\ t[Len(p)] = Flow(p)
    /\ \A i \in 1..Len(p) : t[i] = Validate(t[i - 1], p[i])

\* There are such states.
LEMMA FlowTrace ==
    ASSUME NEW p \in Seq(Statement)
    PROVE  \E t : IsFlow(p, t)
<1> DEFINE n == Len(p)
           D == SUBSET (1..n)
           Rec(it, s) == IF s = {} THEN FlowStart
                         ELSE Validate(it[s \ {Max(s)}], p[Max(s)])
           iter == CHOOSE it : it = [s \in D |-> Rec(it, s)]
           F == [a \in FlowState \X Statement |-> Validate(a[1], a[2])]
<1>1. n \in Nat /\ DOMAIN p = 1..n /\ p \in [1..n -> Statement]
  BY LenProperties
<1>2. FlowStart \in FlowState
  BY EmptySeq DEF FlowStart, FlowState
<1>3. F \in [FlowState \X Statement -> FlowState]
  BY ValidateType
<1>4. \E it : it = [s \in D |-> Rec(it, s)]
  <2> HIDE DEF F, n
  <2>0. FoldOf(FlowState, Statement, F, FlowStart, n, p)
    BY <1>1, <1>2, <1>3 DEF FoldOf
  <2>6. PICK it : FoldIter(FlowState, F, FlowStart, n, p, it)
    BY <2>0, FoldExists
  <2>1. /\ it \in [D -> FlowState]
        /\ \A s \in D : it[s] = IF s = {} THEN FlowStart
                                ELSE F[<<it[s \ {Max(s)}], p[Max(s)]>>]
    BY <2>6 DEF FoldIter
  <2>2. ASSUME NEW s \in D, s # {}
        PROVE  F[<<it[s \ {Max(s)}], p[Max(s)]>>] = Validate(it[s \ {Max(s)}], p[Max(s)])
    <3>1. Max(s) \in s
      <4>1. s \in SUBSET (0..n)
        BY <1>1
      <4> QED
        BY <1>1, <2>2, <4>1, MaxOfSet
    <3>2. it[s \ {Max(s)}] \in FlowState /\ p[Max(s)] \in Statement
      BY <1>1, <2>1, <3>1
    <3> QED
      BY <3>2 DEF F
  <2>3. \A s \in D : it[s] = Rec(it, s)
    BY <2>1, <2>2
  <2>4. it = [s \in D |-> Rec(it, s)]
    <3> HIDE DEF Rec
    <3> QED
      BY <2>1, <2>3
  <2> QED
    BY <2>4
<1>5. iter = [s \in D |-> Rec(iter, s)]
  <2> HIDE DEF Rec
  <2> QED
    BY <1>4
<1>6. Flow(p) = iter[1..n]
  BY <1>1 DEF Flow, FoldLeft, MapThenFoldSet
<1> HIDE DEF iter
<1> DEFINE t == [i \in 0..n |-> iter[1..i]]
<1>7. t[0] = FlowStart
  <2>1. 1..0 = {} /\ {} \in D /\ 0 \in 0..n
    BY <1>1
  <2> HIDE DEF n, D
  <2> QED
    BY <1>5, <2>1
<1>8. ASSUME NEW i \in 1..n PROVE t[i] = Validate(t[i - 1], p[i])
  <2>1. /\ 1..i \in D /\ 1..i # {} /\ Max(1..i) = i /\ (1..i) \ {Max(1..i)} = 1..(i - 1)
        /\ i \in 0..n /\ i - 1 \in 0..n
    BY <1>1, FoldPrefixes
  <2>2. iter[1..i] = Validate(iter[1..(i - 1)], p[i])
    <3> HIDE DEF n, D
    <3> QED
      BY <1>5, <2>1
  <2> QED
    BY <2>1, <2>2
<1>9. t \in [0..n -> FlowState]
  <2> DEFINE S == {i \in 0..n : t[i] \in FlowState}
  <2>1. 0 \in S
    BY <1>1, <1>2, <1>7
  <2>2. ASSUME NEW i \in 0..n, i \in S, i < n PROVE i + 1 \in S
    <3>1. i + 1 \in 1..n /\ i + 1 \in 0..n /\ t[i] \in FlowState
      BY <1>1, <2>2
    <3> HIDE DEF t, n
    <3>4. (i + 1) - 1 = i
      BY <2>2
    <3>2. t[i + 1] = Validate(t[i], p[i + 1])
      BY <1>8, <3>1, <3>4
    <3>3. t[i + 1] \in FlowState
      BY <3>1, <3>2, ValidateType
    <3> QED
      BY <3>1, <3>3
  <2>3. 0..n \subseteq S
    <3> HIDE DEF S, n
    <3> QED
      BY <1>1, <2>1, <2>2, UpTo
  <2> HIDE DEF n
  <2> QED
    BY <2>3
<1>10. t[n] = Flow(p)
  BY <1>1, <1>6
<1> HIDE DEF t
<1> QED
  BY <1>7, <1>8, <1>9, <1>10 DEF IsFlow

\* What validateControlFlow has found after the first k statements.
FlowAt(p, k) == (CHOOSE t : IsFlow(p, t))[k]

\* It goes from statement to statement.
LEMMA FlowAtFacts ==
    ASSUME NEW p \in Seq(Statement)
    PROVE  /\ FlowAt(p, 0) = FlowStart /\ FlowAt(p, Len(p)) = Flow(p)
           /\ \A k \in 0..Len(p) : FlowAt(p, k) \in FlowState
           /\ \A k \in 1..Len(p) : FlowAt(p, k) = Validate(FlowAt(p, k - 1), p[k])
<1> DEFINE t == CHOOSE tr : IsFlow(p, tr)
<1>1. IsFlow(p, t)
  BY FlowTrace
<1>2. \A k : FlowAt(p, k) = t[k]
  BY DEF FlowAt
<1> HIDE DEF t
<1> QED
  BY <1>1, <1>2 DEF IsFlow

\* Nothing read yet.
LEMMA FlowEmpty == Flow(<<>>) = FlowStart
<1>1. <<>> \in Seq(Statement) /\ Len(<<>>) = 0
  BY EmptySeq
<1> QED
  BY <1>1, FlowAtFacts

\* One more statement.
LEMMA FlowAppend ==
    ASSUME NEW p \in Seq(Statement), NEW st \in Statement
    PROVE  Append(p, st) \in Seq(Statement) /\ Flow(Append(p, st)) = Validate(Flow(p), st)
<1> DEFINE q == Append(p, st)
           n == Len(p)
           S == {i \in 0..n : FlowAt(q, i) = FlowAt(p, i)}
<1>1. /\ q \in Seq(Statement) /\ Len(q) = n + 1 /\ n \in Nat
      /\ \A i \in 1..n : q[i] = p[i]
      /\ q[n + 1] = st
  BY AppendProperties, LenProperties
<1> HIDE DEF q, n
<1>2. /\ FlowAt(p, 0) = FlowStart /\ FlowAt(p, n) = Flow(p)
      /\ \A k \in 1..n : FlowAt(p, k) = Validate(FlowAt(p, k - 1), p[k])
  BY FlowAtFacts DEF n
<1>3. /\ FlowAt(q, 0) = FlowStart /\ FlowAt(q, n + 1) = Flow(q)
      /\ \A k \in 1..(n + 1) : FlowAt(q, k) = Validate(FlowAt(q, k - 1), q[k])
  <2>1. /\ FlowAt(q, 0) = FlowStart /\ FlowAt(q, Len(q)) = Flow(q)
        /\ \A k \in 1..Len(q) : FlowAt(q, k) = Validate(FlowAt(q, k - 1), q[k])
    BY <1>1, FlowAtFacts
  <2> QED
    BY <1>1, <2>1
<1>4. 0 \in S
  BY <1>1, <1>2, <1>3
<1>5. ASSUME NEW i \in 0..n, i \in S, i < n PROVE i + 1 \in S
  <2>1. i + 1 \in 1..n /\ i + 1 \in 1..(n + 1) /\ i + 1 \in 0..n /\ (i + 1) - 1 = i
    BY <1>1, <1>5
  <2>2. FlowAt(q, i) = FlowAt(p, i) /\ q[i + 1] = p[i + 1]
    BY <1>1, <1>5, <2>1
  <2>3. FlowAt(q, i + 1) = Validate(FlowAt(q, i), q[i + 1])
    BY <1>3, <2>1
  <2>4. FlowAt(p, i + 1) = Validate(FlowAt(p, i), p[i + 1])
    BY <1>2, <2>1
  <2> QED
    BY <2>1, <2>2, <2>3, <2>4
<1>6. 0..n \subseteq S
  <2> HIDE DEF S
  <2> QED
    BY <1>1, <1>4, <1>5, UpTo
<1>7. FlowAt(q, n) = FlowAt(p, n)
  BY <1>1, <1>6
<1>8. n + 1 \in 1..(n + 1) /\ (n + 1) - 1 = n
  BY <1>1
<1>9. FlowAt(q, n + 1) = Validate(FlowAt(q, n), q[n + 1])
  BY <1>3, <1>8
<1> QED
  BY <1>1, <1>2, <1>3, <1>7, <1>9 DEF q

\* What a statement that passes the validation does to the frames.
LEMMA ValidOK ==
    ASSUME NEW acc \in FlowState, NEW st, Validate(acc, st).ok
    PROVE  LET n == Len(acc.stack)
               res == Validate(acc, st).stack
           IN  /\ acc.ok
               /\ st = "if" => res = Append(acc.stack, FALSE)
               /\ st \in {"elseif", "else"} =>
                      /\ n > 0 /\ ~acc.stack[n]
                      /\ res = [acc.stack EXCEPT ![n] = acc.stack[n] \/ st = "else"]
               /\ st = "end" => n > 0 /\ res = SubSeq(acc.stack, 1, n - 1)
               /\ st \notin Marker => res = acc.stack
<1> DEFINE n == Len(acc.stack)
<1>1. acc.ok \in BOOLEAN /\ acc.stack \in Seq(BOOLEAN) /\ n \in Nat
      /\ acc = [ok |-> acc.ok, stack |-> acc.stack]
  BY DEF FlowState
<1>2. CASE st = "if"
  BY <1>1, <1>2 DEF Validate, Marker
<1>3. CASE st \in {"elseif", "else"} /\ n # 0
  <2> DEFINE s == [acc.stack EXCEPT ![n] = acc.stack[n] \/ st = "else"]
             k == acc.ok /\ ~acc.stack[n]
  <2>3. Validate(acc, st) = [ok |-> k, stack |-> s]
    BY <1>3 DEF Validate
  <2>4. Validate(acc, st).ok = k /\ Validate(acc, st).stack = s
    <3> HIDE DEF s, k
    <3> QED
      BY <2>3
  <2>1. k
    BY <2>4, Zenon
  <2>5. k /\ n > 0
    BY <1>1, <1>3, <2>1
  <2> HIDE DEF s
  <2> QED
    BY <1>3, <2>4, <2>5 DEF Marker, s
<1>4. CASE st = "end" /\ n # 0
  <2>1. Validate(acc, st) = [ok |-> acc.ok, stack |-> SubSeq(acc.stack, 1, n - 1)]
    BY <1>1, <1>4 DEF Validate
  <2> QED
    BY <1>1, <1>4, <2>1 DEF Marker
<1>5. CASE st \in {"elseif", "else", "end"} /\ n = 0
  BY <1>1, <1>5 DEF Validate
<1>6. CASE st \notin Marker
  BY <1>1, <1>6 DEF Validate, Marker
<1> QED
  BY <1>1, <1>2, <1>3, <1>4, <1>5, <1>6 DEF Marker

\* Frames that were open before are out of a valid statement's reach: validating
\* an included file inside open blocks of another finds what validating it
\* alone does.
LEMMA ValidUnder ==
    ASSUME NEW B \in Seq(BOOLEAN), NEW acc \in FlowState, NEW st, Validate(acc, st).ok
    PROVE  LET under == [ok |-> TRUE, stack |-> B \o acc.stack] IN
           Validate(under, st) = [ok |-> TRUE, stack |-> B \o Validate(acc, st).stack]
<1> DEFINE s == acc.stack
           n == Len(s)
           m == Len(B)
           c == B \o s
           under == [ok |-> TRUE, stack |-> c]
           res == Validate(acc, st).stack
<1>1. s \in Seq(BOOLEAN)
  BY DEF FlowState
<1>2. /\ st = "if" => res = Append(s, FALSE)
      /\ st \in {"elseif", "else"} =>
              n > 0 /\ ~s[n] /\ res = [s EXCEPT ![n] = s[n] \/ st = "else"]
      /\ st = "end" => n > 0 /\ res = SubSeq(s, 1, n - 1)
      /\ st \notin Marker => res = s
  BY ValidOK
<1> HIDE DEF res, s
<1>3. \A e \in BOOLEAN :
         /\ c \in Seq(BOOLEAN) /\ Len(c) = m + n /\ m \in Nat /\ n \in Nat
         /\ Append(c, e) = B \o Append(s, e)
         /\ n > 0 => /\ c[m + n] = s[n]
                     /\ SubSeq(c, 1, (m + n) - 1) = B \o SubSeq(s, 1, n - 1)
                     /\ [c EXCEPT ![m + n] = e] = B \o [s EXCEPT ![n] = e]
  <2>1. ASSUME NEW e \in BOOLEAN PROVE EndsAlike(B, s, c, e)
    BY <1>1, ConcatEnd
  <2>2. c \in Seq(BOOLEAN)
    BY <1>1, ConcatProperties
  <2> QED
    BY <2>1, <2>2 DEF EndsAlike
<1>4. Len(c) = m + n /\ m \in Nat /\ n \in Nat
  BY <1>3
<1>5. under.ok = TRUE /\ under.stack = c
  OBVIOUS
<1> HIDE DEF c, m, n
<1>6. CASE st = "if"
  <2>1. Append(c, FALSE) = B \o Append(s, FALSE)
    BY <1>3
  <2>2. Validate(under, st) = [ok |-> TRUE, stack |-> Append(c, FALSE)]
    BY <1>6 DEF Validate
  <2> QED
    BY <1>2, <1>6, <2>1, <2>2 DEF c, s, res
<1>7. CASE st \in {"elseif", "else"}
  <2> DEFINE v == s[n] \/ st = "else"
  <2>1. n > 0 /\ ~s[n] /\ res = [s EXCEPT ![n] = v] /\ v \in BOOLEAN
    BY <1>2, <1>7
  <2>2. c[m + n] = s[n] /\ [c EXCEPT ![m + n] = v] = B \o [s EXCEPT ![n] = v]
    <3> HIDE DEF v
    <3> QED
      BY <1>3, <2>1
  <2>3. Len(c) # 0 /\ Len(c) = m + n
    BY <1>4, <2>1
  <2> DEFINE k == TRUE /\ ~c[Len(c)]
             t == [c EXCEPT ![Len(c)] = c[Len(c)] \/ st = "else"]
  <2>4. Validate(under, st) = [ok |-> k, stack |-> t]
    BY <1>5, <1>7, <2>3 DEF Validate
  <2>5. k = TRUE /\ t = B \o res
    BY <2>1, <2>2, <2>3
  <2> HIDE DEF k, t
  <2> QED
    BY <2>4, <2>5 DEF c, s, res
<1>8. CASE st = "end"
  <2>1. n > 0 /\ res = SubSeq(s, 1, n - 1)
    BY <1>2, <1>8
  <2>2. SubSeq(c, 1, (m + n) - 1) = B \o res
    BY <1>3, <2>1
  <2>3. Len(c) # 0
    BY <1>4, <2>1
  <2>4. Validate(under, st) = [ok |-> TRUE, stack |-> SubSeq(c, 1, Len(c) - 1)]
    BY <1>8, <2>3 DEF Validate
  <2> QED
    BY <1>4, <2>2, <2>4 DEF c, s, res
<1>9. CASE st \notin Marker
  <2>1. Validate(under, st) = under
    BY <1>9 DEF Validate, Marker
  <2> QED
    BY <1>2, <1>9, <2>1 DEF c, s, res
<1> QED
  BY <1>6, <1>7, <1>8, <1>9 DEF Marker, c, s, res

Balanced(p) == p \in Seq(Statement) /\ ControlFlowOK(p)

\* In balanced statements every prefix is valid and the whole closes its blocks.
LEMMA BalancedFlow ==
    ASSUME NEW p, Balanced(p)
    PROVE  /\ p \in Seq(Statement) /\ Len(p) \in Nat
           /\ Flow(p) = [ok |-> TRUE, stack |-> <<>>]
           /\ \A k \in 0..Len(p) : FlowAt(p, k) \in FlowState /\ FlowAt(p, k).ok
<1> DEFINE n == Len(p)
<1>1. p \in Seq(Statement) /\ n \in Nat
  BY LenProperties DEF Balanced
<1>2. Flow(p).ok /\ Flow(p).stack = <<>>
  BY DEF Balanced, ControlFlowOK, Flow, FlowStart
<1>3. /\ FlowAt(p, n) = Flow(p)
      /\ \A k \in 0..n : FlowAt(p, k) \in FlowState
      /\ \A k \in 1..n : FlowAt(p, k) = Validate(FlowAt(p, k - 1), p[k])
  BY <1>1, FlowAtFacts
<1>4. n \in 0..n
  BY <1>1
<1>5. Flow(p) = [ok |-> TRUE, stack |-> <<>>]
  <2>1. Flow(p) \in FlowState
    BY <1>3, <1>4
  <2> QED
    BY <1>2, <2>1 DEF FlowState
<1>6. ASSUME NEW k \in 0..n PROVE FlowAt(p, k).ok
  <2> SUFFICES ASSUME ~FlowAt(p, k).ok PROVE FALSE
    OBVIOUS
  <2> DEFINE S == {j \in 0..n : ~FlowAt(p, j).ok}
  <2>1. k \in S /\ k \in Nat
    BY <1>1
  <2>2. ASSUME NEW j \in k..n, j \in S, j < n PROVE j + 1 \in S
    <3>1. j + 1 \in 1..n /\ (j + 1) - 1 = j /\ j \in 0..n /\ j + 1 \in 0..n
      BY <1>1, <2>2
    <3>2. FlowAt(p, j + 1) = Validate(FlowAt(p, j), p[j + 1])
      BY <1>3, <3>1
    <3>3. FlowAt(p, j + 1).ok => FlowAt(p, j).ok
      BY <1>3, <3>1, <3>2, ValidOK
    <3> QED
      BY <2>2, <3>1, <3>3
  <2>3. k..n \subseteq S
    <3> HIDE DEF S, n
    <3> QED
      BY <1>1, <2>1, <2>2, UpTo
  <2>4. n \in S
    <3> HIDE DEF S, n
    <3> QED
      BY <1>1, <2>3
  <2> QED
    BY <1>2, <1>3, <2>4
<1> QED
  BY <1>1, <1>3, <1>5, <1>6

\* The number of blocks that are open after the first k statements.
Dep(p, k) == Len(FlowAt(p, k).stack)

\* How the markers change it.
LEMMA DepFacts ==
    ASSUME NEW p, Balanced(p)
    PROVE  /\ Dep(p, 0) = 0 /\ Dep(p, Len(p)) = 0
           /\ \A k \in 0..Len(p) : Dep(p, k) \in Nat
           /\ \A k \in 1..Len(p) :
                 /\ p[k] = "if" => Dep(p, k) = Dep(p, k - 1) + 1
                 /\ p[k] \in {"elseif", "else"} => Dep(p, k - 1) > 0 /\ Dep(p, k) = Dep(p, k - 1)
                 /\ p[k] = "end" => Dep(p, k - 1) > 0 /\ Dep(p, k) = Dep(p, k - 1) - 1
                 /\ p[k] \notin Marker => Dep(p, k) = Dep(p, k - 1)
<1> DEFINE n == Len(p)
<1>1. /\ p \in Seq(Statement) /\ n \in Nat
      /\ Flow(p) = [ok |-> TRUE, stack |-> <<>>]
      /\ \A k \in 0..n : FlowAt(p, k) \in FlowState /\ FlowAt(p, k).ok
  BY BalancedFlow
<1>2. /\ FlowAt(p, 0) = FlowStart /\ FlowAt(p, n) = Flow(p)
      /\ \A k \in 1..n : FlowAt(p, k) = Validate(FlowAt(p, k - 1), p[k])
  BY <1>1, FlowAtFacts
<1>3. Dep(p, 0) = 0 /\ Dep(p, n) = 0
  BY <1>1, <1>2, EmptySeq DEF Dep, FlowStart
<1>4. \A k \in 0..n : Dep(p, k) \in Nat
  BY <1>1, LenProperties DEF Dep, FlowState
<1>5. ASSUME NEW k \in 1..n
      PROVE  /\ p[k] = "if" => Dep(p, k) = Dep(p, k - 1) + 1
             /\ p[k] \in {"elseif", "else"} => Dep(p, k - 1) > 0 /\ Dep(p, k) = Dep(p, k - 1)
             /\ p[k] = "end" => Dep(p, k - 1) > 0 /\ Dep(p, k) = Dep(p, k - 1) - 1
             /\ p[k] \notin Marker => Dep(p, k) = Dep(p, k - 1)
  <2>0. k \in 0..n /\ k - 1 \in 0..n
    BY <1>1
  <2>1. PICK acc : acc = FlowAt(p, k - 1)
    OBVIOUS
  <2>2. PICK st : st = p[k]
    OBVIOUS
  <2>3. /\ acc \in FlowState /\ Validate(acc, st).ok /\ FlowAt(p, k) = Validate(acc, st)
    BY <1>1, <1>2, <2>0, <2>1, <2>2
  <2> DEFINE s == acc.stack
             m == Len(s)
             res == Validate(acc, st).stack
  <2>4. s \in Seq(BOOLEAN) /\ m \in Nat
    BY <2>3, LenProperties DEF FlowState
  <2>5. /\ st = "if" => res = Append(s, FALSE)
        /\ st \in {"elseif", "else"} =>
                m > 0 /\ ~s[m] /\ res = [s EXCEPT ![m] = s[m] \/ st = "else"]
        /\ st = "end" => m > 0 /\ res = SubSeq(s, 1, m - 1)
        /\ st \notin Marker => res = s
    BY <2>3, ValidOK
  <2>6. Dep(p, k - 1) = m /\ Dep(p, k) = Len(res)
    BY <2>1, <2>3 DEF Dep
  <2> HIDE DEF res, s
  <2>7. st = "if" => Len(res) = m + 1
    <3>1. FALSE \in BOOLEAN
      OBVIOUS
    <3>2. Len(Append(s, FALSE)) = m + 1
      BY <2>4, <3>1, AppendProperties
    <3> QED
      BY <2>5, <3>2
  <2>8. st \in {"elseif", "else"} => m > 0 /\ Len(res) = m
    <3>1. ASSUME st \in {"elseif", "else"} PROVE m > 0 /\ Len(res) = m
      <4> DEFINE v == s[m] \/ st = "else"
      <4>1. m > 0 /\ res = [s EXCEPT ![m] = v] /\ v \in BOOLEAN
        BY <2>5, <3>1
      <4>2. m \in 1..Len(s)
        BY <2>4, <4>1
      <4> HIDE DEF v
      <4>3. Len([s EXCEPT ![m] = v]) = Len(s)
        BY <2>4, <4>1, <4>2, ExceptSeq
      <4> QED
        BY <4>1, <4>3
    <3> QED
      BY <3>1
  <2>9. st = "end" => m > 0 /\ Len(res) = m - 1
    <3>1. ASSUME st = "end" PROVE m > 0 /\ Len(res) = m - 1
      <4>1. m > 0 /\ res = SubSeq(s, 1, m - 1)
        BY <2>5, <3>1
      <4>2. m - 1 \in 0..Len(s)
        BY <2>4, <4>1
      <4>3. Len(SubSeq(s, 1, m - 1)) = m - 1
        BY <2>4, <4>2, PrefixFacts
      <4> QED
        BY <4>1, <4>3
    <3> QED
      BY <3>1
  <2> QED
    BY <2>2, <2>5, <2>6, <2>7, <2>8, <2>9
<1> QED
  BY <1>3, <1>4, <1>5

-----------------------------------------------------------------------------
(* The blocks of a sequence of statements.                                 *)

CountIn(p, m, i, j) == Cardinality({k \in i..j : p[k] = m})
EndIn(p, i) == CHOOSE j \in i..Len(p) :
                /\ p[j] = "end" /\ CountIn(p, "if", i, j) = CountIn(p, "end", i, j)
                /\ \A k \in i..(j - 1) : CountIn(p, "if", i, k) > CountIn(p, "end", i, k)
HeadersIn(p, i) == {i} \cup {j \in i..EndIn(p, i) : /\ p[j] \in {"elseif", "else"}
                              /\ CountIn(p, "if", i, j) = CountIn(p, "end", i, j) + 1}
AroundIn(p, k) == {i \in 1..(k - 1) : p[i] = "if" /\ k < EndIn(p, i) /\ k \notin HeadersIn(p, i)}
ChosenIn(p, w, i, h) ==
    /\ p[h] = "else" \/ w[h] = "true"
    /\ \A g \in HeadersIn(p, i) : g < h => w[g] \in {"false", "error"}
BranchIn(p, i, k) == CHOOSE h \in HeadersIn(p, i) :
                      h < k /\ \A g \in HeadersIn(p, i) : g < k => g <= h
ReachedIn(p, w, k) == \A i \in AroundIn(p, k) : ChosenIn(p, w, i, BranchIn(p, i, k))

\* One more statement in a count.
LEMMA CountGrows ==
    ASSUME NEW p, NEW m, NEW i \in Nat \ {0}, NEW j \in Nat, j >= i - 1
    PROVE  /\ CountIn(p, m, i, i - 1) = 0 /\ CountIn(p, m, i, j) \in Nat
           /\ p[j + 1] = m => CountIn(p, m, i, j + 1) = CountIn(p, m, i, j) + 1
           /\ p[j + 1] # m => CountIn(p, m, i, j + 1) = CountIn(p, m, i, j)
<1> DEFINE A == {k \in i..j : p[k] = m}
           C == {k \in i..(j + 1) : p[k] = m}
<1>1. IsFiniteSet(A)
  <2>1. IsFiniteSet(i..j)
    BY FS_Interval
  <2> QED
    BY <2>1, FS_Subset
<1>2. CountIn(p, m, i, i - 1) = 0
  <2>1. {k \in i..(i - 1) : p[k] = m} = {}
    OBVIOUS
  <2> QED
    BY <2>1, FS_EmptySet DEF CountIn
<1>3. Cardinality(A) \in Nat
  BY <1>1, FS_CardinalityType
<1>4. CASE p[j + 1] = m
  <2>1. C = A \cup {j + 1} /\ j + 1 \notin A
    BY <1>4
  <2> HIDE DEF A, C
  <2>2. Cardinality(A \cup {j + 1}) = Cardinality(A) + 1
    BY <1>1, <2>1, FS_AddElement
  <2> QED
    BY <1>2, <1>3, <1>4, <2>1, <2>2 DEF CountIn, A, C
<1>5. CASE p[j + 1] # m
  <2>1. C = A
    BY <1>5
  <2> QED
    BY <1>2, <1>3, <1>5, <2>1 DEF CountIn
<1> QED
  BY <1>4, <1>5

\* Counting IFs against ENDs is counting the open blocks.
LEMMA CountIsDep ==
    ASSUME NEW p, Balanced(p), NEW i \in 1..Len(p), NEW j \in (i - 1)..Len(p)
    PROVE  /\ CountIn(p, "if", i, j) \in Nat /\ CountIn(p, "end", i, j) \in Nat
           /\ CountIn(p, "if", i, j) - CountIn(p, "end", i, j) = Dep(p, j) - Dep(p, i - 1)
<1> DEFINE n == Len(p)
           Same(k) == /\ CountIn(p, "if", i, k) \in Nat /\ CountIn(p, "end", i, k) \in Nat
                      /\ CountIn(p, "if", i, k) - CountIn(p, "end", i, k)
                            = Dep(p, k) - Dep(p, i - 1)
           S == {k \in (i - 1)..n : Same(k)}
<1>1. n \in Nat /\ i \in Nat \ {0} /\ i \in 1..n
  BY BalancedFlow
<1>2. /\ \A k \in 0..n : Dep(p, k) \in Nat
      /\ \A k \in 1..n :
            /\ p[k] = "if" => Dep(p, k) = Dep(p, k - 1) + 1
            /\ p[k] \in {"elseif", "else"} => Dep(p, k - 1) > 0 /\ Dep(p, k) = Dep(p, k - 1)
            /\ p[k] = "end" => Dep(p, k - 1) > 0 /\ Dep(p, k) = Dep(p, k - 1) - 1
            /\ p[k] \notin Marker => Dep(p, k) = Dep(p, k - 1)
  BY DepFacts
<1> HIDE DEF n
<1>3. i - 1 \in S
  <2>1. i - 1 \in Nat /\ i - 1 >= i - 1 /\ i - 1 \in (i - 1)..n /\ i - 1 \in 0..n
    BY <1>1
  <2>2. CountIn(p, "if", i, i - 1) = 0 /\ CountIn(p, "end", i, i - 1) = 0
    BY <1>1, <2>1, CountGrows
  <2>3. Dep(p, i - 1) \in Nat
    BY <1>2, <2>1
  <2>4. Same(i - 1)
    BY <2>2, <2>3
  <2> QED
    BY <2>1, <2>4
<1>4. ASSUME NEW k \in (i - 1)..n, k \in S, k < n PROVE k + 1 \in S
  <2>1. k \in Nat /\ k >= i - 1 /\ k + 1 \in 1..n /\ (k + 1) - 1 = k /\ k \in 0..n /\ k + 1 \in (i - 1)..n
        /\ i - 1 \in 0..n /\ k + 1 \in 0..n
    BY <1>1, <1>4
  <2>2. Same(k)
    BY <1>4
  <2>7. ASSUME NEW m
        PROVE  /\ p[k + 1] = m => CountIn(p, m, i, k + 1) = CountIn(p, m, i, k) + 1
               /\ p[k + 1] # m => CountIn(p, m, i, k + 1) = CountIn(p, m, i, k)
    BY <1>1, <2>1, CountGrows
  <2>3. /\ p[k + 1] = "if" => CountIn(p, "if", i, k + 1) = CountIn(p, "if", i, k) + 1
        /\ p[k + 1] # "if" => CountIn(p, "if", i, k + 1) = CountIn(p, "if", i, k)
        /\ p[k + 1] = "end" => CountIn(p, "end", i, k + 1) = CountIn(p, "end", i, k) + 1
        /\ p[k + 1] # "end" => CountIn(p, "end", i, k + 1) = CountIn(p, "end", i, k)
    BY <2>7, Zenon
  <2>4. /\ p[k + 1] = "if" => Dep(p, k + 1) = Dep(p, k) + 1
        /\ p[k + 1] = "end" => Dep(p, k + 1) = Dep(p, k) - 1
        /\ p[k + 1] \notin {"if", "end"} => Dep(p, k + 1) = Dep(p, k)
    BY <1>2, <2>1 DEF Marker
  <2>5. Dep(p, k) \in Nat /\ Dep(p, k + 1) \in Nat /\ Dep(p, i - 1) \in Nat
    BY <1>2, <2>1
  <2>6. Same(k + 1)
    <3>1. CASE p[k + 1] = "if"
      <4>1. /\ CountIn(p, "if", i, k + 1) = CountIn(p, "if", i, k) + 1
            /\ CountIn(p, "end", i, k + 1) = CountIn(p, "end", i, k)
        BY <2>3, <3>1
      <4> QED
        BY <2>2, <2>4, <2>5, <3>1, <4>1
    <3>2. CASE p[k + 1] = "end"
      <4>1. /\ CountIn(p, "if", i, k + 1) = CountIn(p, "if", i, k)
            /\ CountIn(p, "end", i, k + 1) = CountIn(p, "end", i, k) + 1
        BY <2>3, <3>2
      <4> QED
        BY <2>2, <2>4, <2>5, <3>2, <4>1
    <3>3. CASE p[k + 1] \notin {"if", "end"}
      BY <2>2, <2>3, <2>4, <2>5, <3>3
    <3> QED
      BY <3>1, <3>2, <3>3
  <2> QED
    BY <2>1, <2>6
<1>5. (i - 1)..n \subseteq S
  <2>1. i - 1 \in Nat
    BY <1>1
  <2> HIDE DEF S
  <2> QED
    BY <1>1, <1>3, <1>4, <2>1, UpTo
<1>6. j \in S
  BY <1>5 DEF n
<1> QED
  BY <1>6

\* The END of an IF: the blocks inside it are closed before.
LEMMA EndFacts ==
    ASSUME NEW p, Balanced(p), NEW i \in 1..Len(p), p[i] = "if"
    PROVE  LET e == EndIn(p, i) IN
           /\ e \in (i + 1)..Len(p) /\ p[e] = "end" /\ Dep(p, e) = Dep(p, i - 1)
           /\ \A k \in i..(e - 1) : Dep(p, k) > Dep(p, i - 1)
<1> DEFINE n == Len(p)
           T == {j \in i..n : Dep(p, j) <= Dep(p, i - 1)}
<1>1. n \in Nat /\ i \in Nat \ {0} /\ i \in 1..n /\ i - 1 \in 0..n /\ n \in i..n /\ n \in 0..n
  BY BalancedFlow
<1>2. /\ Dep(p, n) = 0
      /\ \A k \in 0..n : Dep(p, k) \in Nat
      /\ \A k \in 1..n :
            /\ p[k] = "if" => Dep(p, k) = Dep(p, k - 1) + 1
            /\ p[k] = "end" => Dep(p, k) = Dep(p, k - 1) - 1
            /\ p[k] \notin {"if", "end"} => Dep(p, k) = Dep(p, k - 1)
  BY DepFacts DEF Marker
<1>3. \A j \in (i - 1)..n :
         /\ CountIn(p, "if", i, j) \in Nat /\ CountIn(p, "end", i, j) \in Nat
         /\ CountIn(p, "if", i, j) - CountIn(p, "end", i, j) = Dep(p, j) - Dep(p, i - 1)
  BY CountIsDep
<1> HIDE DEF n
<1>4. T \in SUBSET Nat /\ T # {}
  <2>1. n \in T
    BY <1>1, <1>2
  <2> QED
    BY <1>1, <2>1
<1>5. PICK e \in T : \A j \in T : e <= j
  <2> HIDE DEF T
  <2> QED
    BY <1>4, LeastNatural
<1>6. e \in i..n /\ Dep(p, e) <= Dep(p, i - 1) /\ \A k \in i..(e - 1) : Dep(p, k) > Dep(p, i - 1)
  <2>1. ASSUME NEW k \in i..(e - 1) PROVE Dep(p, k) > Dep(p, i - 1)
    <3>1. k \notin T /\ k \in i..n /\ k \in 0..n
      BY <1>1, <1>5
    <3> QED
      BY <1>1, <1>2, <3>1
  <2> QED
    BY <1>5, <2>1
<1>7. e # i
  BY <1>1, <1>2, <1>6
<1>8. e - 1 \in i..(e - 1) /\ e \in 1..n /\ e - 1 \in 0..n /\ e \in 0..n
  BY <1>1, <1>6, <1>7
<1>9. p[e] = "end" /\ Dep(p, e) = Dep(p, i - 1)
  <2>1. Dep(p, e - 1) > Dep(p, i - 1) /\ Dep(p, e - 1) \in Nat /\ Dep(p, e) \in Nat /\ Dep(p, i - 1) \in Nat
    BY <1>1, <1>2, <1>6, <1>8
  <2> QED
    BY <1>2, <1>6, <1>8, <2>1
<1> DEFINE IsEnd(j) == /\ p[j] = "end" /\ CountIn(p, "if", i, j) = CountIn(p, "end", i, j)
                       /\ \A k \in i..(j - 1) : CountIn(p, "if", i, k) > CountIn(p, "end", i, k)
<1>10. IsEnd(e)
  <2>1. CountIn(p, "if", i, e) = CountIn(p, "end", i, e)
    <3>1. e \in (i - 1)..n /\ Dep(p, e) \in Nat
      BY <1>1, <1>2, <1>6, <1>8
    <3> QED
      BY <1>3, <1>9, <3>1
  <2>2. ASSUME NEW k \in i..(e - 1) PROVE CountIn(p, "if", i, k) > CountIn(p, "end", i, k)
    <3>1. k \in (i - 1)..n /\ k \in 0..n
      BY <1>1, <1>6
    <3>2. Dep(p, k) > Dep(p, i - 1) /\ Dep(p, k) \in Nat /\ Dep(p, i - 1) \in Nat
      BY <1>1, <1>2, <1>6, <3>1
    <3> QED
      BY <1>3, <3>1, <3>2
  <2> QED
    BY <1>9, <2>1, <2>2
<1>11. PICK f : f = EndIn(p, i)
  OBVIOUS
<1>12. f \in i..n /\ IsEnd(f)
  <2>1. f = CHOOSE j \in i..n : IsEnd(j)
    BY <1>11 DEF EndIn, n
  <2> HIDE DEF IsEnd
  <2> QED
    BY <1>6, <1>10, <2>1
<1>13. f \in (i + 1)..n
  BY <1>1, <1>12
<1>14. Dep(p, f) = Dep(p, i - 1)
  <2>1. f \in (i - 1)..n /\ f \in 0..n
    BY <1>1, <1>12
  <2>2. Dep(p, f) \in Nat /\ Dep(p, i - 1) \in Nat
    BY <1>1, <1>2, <2>1
  <2> QED
    BY <1>3, <1>12, <2>1, <2>2
<1>15. ASSUME NEW k \in i..(f - 1) PROVE Dep(p, k) > Dep(p, i - 1)
  <2>1. k \in (i - 1)..n /\ k \in 0..n
    BY <1>1, <1>12
  <2>2. Dep(p, k) \in Nat /\ Dep(p, i - 1) \in Nat
    BY <1>1, <1>2, <2>1
  <2>3. CountIn(p, "if", i, k) > CountIn(p, "end", i, k)
    BY <1>12
  <2> QED
    BY <1>3, <2>1, <2>2, <2>3
<1> QED
  BY <1>11, <1>12, <1>13, <1>14, <1>15 DEF n

\* What the lemmas on blocks need of the depths.
LEMMA Depths ==
    ASSUME NEW p, Balanced(p)
    PROVE  /\ Len(p) \in Nat
           /\ Dep(p, 0) = 0
           /\ \A k \in 0..Len(p) : Dep(p, k) \in Nat
           /\ \A k \in 1..Len(p) :
                 /\ p[k] = "if" => Dep(p, k) = Dep(p, k - 1) + 1
                 /\ p[k] = "end" => Dep(p, k) = Dep(p, k - 1) - 1 /\ Dep(p, k - 1) > 0
                 /\ p[k] \notin {"if", "end"} => Dep(p, k) = Dep(p, k - 1)
                 /\ p[k] \in {"elseif", "else"} => Dep(p, k - 1) > 0
BY DepFacts, BalancedFlow DEF Marker

\* The headers of an IF: itself, and the ELSE IFs and ELSEs inside it at its depth.
LEMMA HeaderFacts ==
    ASSUME NEW p, Balanced(p), NEW i \in 1..Len(p), p[i] = "if"
    PROVE  /\ i \in HeadersIn(p, i)
           /\ \A g \in HeadersIn(p, i) :
                 /\ g \in i..(EndIn(p, i) - 1) /\ g \in 1..Len(p)
                 /\ g = i \/ (p[g] \in {"elseif", "else"} /\ Dep(p, g) = Dep(p, i) /\ g > i)
           /\ \A g \in i..EndIn(p, i) :
                 p[g] \in {"elseif", "else"} /\ Dep(p, g) = Dep(p, i) => g \in HeadersIn(p, i)
<1> DEFINE n == Len(p)
<1>1. PICK e : e = EndIn(p, i)
  OBVIOUS
<1>2. /\ e \in (i + 1)..n /\ p[e] = "end"
  BY <1>1, EndFacts
<1>3. /\ n \in Nat
      /\ \A k \in 0..n : Dep(p, k) \in Nat
      /\ \A k \in 1..n : p[k] = "if" => Dep(p, k) = Dep(p, k - 1) + 1
  BY Depths
<1>4. \A j \in (i - 1)..n :
         /\ CountIn(p, "if", i, j) \in Nat /\ CountIn(p, "end", i, j) \in Nat
         /\ CountIn(p, "if", i, j) - CountIn(p, "end", i, j) = Dep(p, j) - Dep(p, i - 1)
  BY CountIsDep
<1> HIDE DEF n
<1>5. i \in 1..n /\ i - 1 \in 0..n
  BY <1>3 DEF n
<1>6. ASSUME NEW g \in i..e
      PROVE  g \in 1..n /\ (CountIn(p, "if", i, g) = CountIn(p, "end", i, g) + 1 <=> Dep(p, g) = Dep(p, i))
  <2>1. g \in (i - 1)..n /\ g \in 0..n /\ i \in 0..n /\ g \in 1..n
    BY <1>2, <1>3, <1>5
  <2>2. Dep(p, g) \in Nat /\ Dep(p, i) = Dep(p, i - 1) + 1 /\ Dep(p, i - 1) \in Nat
    BY <1>3, <1>5, <2>1
  <2>3. /\ CountIn(p, "if", i, g) \in Nat /\ CountIn(p, "end", i, g) \in Nat
        /\ CountIn(p, "if", i, g) - CountIn(p, "end", i, g) = Dep(p, g) - Dep(p, i - 1)
    BY <1>4, <2>1
  <2> QED
    BY <2>1, <2>2, <2>3
<1>7. HeadersIn(p, i) = {i} \cup {j \in i..e : /\ p[j] \in {"elseif", "else"}
                                 /\ CountIn(p, "if", i, j) = CountIn(p, "end", i, j) + 1}
  BY <1>1 DEF HeadersIn
<1>8. ASSUME NEW g \in HeadersIn(p, i)
      PROVE  /\ g \in i..(e - 1) /\ g \in 1..n
             /\ g = i \/ (p[g] \in {"elseif", "else"} /\ Dep(p, g) = Dep(p, i) /\ g > i)
  <2>1. CASE g = i
    BY <1>2, <1>5, <2>1
  <2>2. CASE g # i
    <3>1. g \in i..e /\ p[g] \in {"elseif", "else"} /\ CountIn(p, "if", i, g) = CountIn(p, "end", i, g) + 1
      BY <1>7, <2>2
    <3>2. g # e
      BY <1>2, <3>1
    <3>3. g \in 1..n /\ Dep(p, g) = Dep(p, i)
      BY <1>6, <3>1
    <3>4. g \in i..(e - 1) /\ g > i
      BY <1>2, <1>5, <2>2, <3>1, <3>2
    <3> QED
      BY <3>1, <3>3, <3>4
  <2> QED
    BY <2>1, <2>2
<1>9. ASSUME NEW g \in i..e, p[g] \in {"elseif", "else"}, Dep(p, g) = Dep(p, i)
      PROVE  g \in HeadersIn(p, i)
  BY <1>6, <1>7, <1>9
<1>10. i \in HeadersIn(p, i)
  BY <1>7
<1> QED
  BY <1>1, <1>8, <1>9, <1>10 DEF n

\* The branch that a position is in starts at the last header before it.
LEMMA BranchFacts ==
    ASSUME NEW p, Balanced(p), NEW i \in 1..Len(p), p[i] = "if", NEW k \in Nat, i < k
    PROVE  /\ BranchIn(p, i, k) \in HeadersIn(p, i) /\ BranchIn(p, i, k) < k
           /\ \A g \in HeadersIn(p, i) : g < k => g <= BranchIn(p, i, k)
<1> DEFINE H == {g \in HeadersIn(p, i) : g < k}
<1>1. i \in HeadersIn(p, i) /\ \A g \in HeadersIn(p, i) : g \in 1..Len(p)
  BY HeaderFacts
<1>2. Len(p) \in Nat
  BY Depths
<1>3. H \in SUBSET (0..Len(p)) /\ i \in H
  BY <1>1, <1>2
<1>4. Max(H) \in H /\ \A g \in H : Max(H) >= g
  <2> HIDE DEF H
  <2> QED
    BY <1>2, <1>3, MaxOfSet
<1>5. \E h \in HeadersIn(p, i) : h < k /\ \A g \in HeadersIn(p, i) : g < k => g <= h
  <2>1. PICK h \in H : \A g \in H : h >= g
    BY <1>4
  <2>2. \A g \in HeadersIn(p, i) : g < k => g <= h
    BY <1>1, <2>1
  <2> QED
    BY <2>1, <2>2
<1> QED
  BY <1>5 DEF BranchIn

\* There is only one.
LEMMA BranchIs ==
    ASSUME NEW p, Balanced(p), NEW i \in 1..Len(p), p[i] = "if", NEW k \in Nat, i < k,
           NEW h \in HeadersIn(p, i), h < k, \A g \in HeadersIn(p, i) : g < k => g <= h
    PROVE  BranchIn(p, i, k) = h
<1>1. PICK b : b = BranchIn(p, i, k)
  OBVIOUS
<1>2. b \in HeadersIn(p, i) /\ b < k /\ \A g \in HeadersIn(p, i) : g < k => g <= b
  BY <1>1, BranchFacts
<1>3. \A g \in HeadersIn(p, i) : g \in 1..Len(p)
  BY HeaderFacts
<1>4. b <= h /\ h <= b /\ b \in Int /\ h \in Int
  BY <1>2, <1>3
<1> QED
  BY <1>1, <1>4

\* The blocks that are open before statement k is run: k is inside, or their END.
Opens(p, k) == {i \in 1..(k - 1) : p[i] = "if" /\ k <= EndIn(p, i)}

\* Statements up to the end of p, and the end itself.
Spots(p) == 1..(Len(p) + 1)

\* What is open encloses everything up to k.
LEMMA OpenFacts ==
    ASSUME NEW p, Balanced(p), NEW k \in Spots(p), NEW i \in Opens(p, k)
    PROVE  /\ i \in 1..Len(p) /\ p[i] = "if" /\ i < k /\ k <= EndIn(p, i) /\ k \in 1..Len(p)
           /\ EndIn(p, i) \in 1..Len(p)
           /\ \A j \in i..(k - 1) : Dep(p, j) >= Dep(p, i)
           /\ Dep(p, i) \in 1..Dep(p, k - 1) /\ Dep(p, k - 1) \in Nat
<1> DEFINE n == Len(p)
<1>1. /\ n \in Nat
      /\ \A j \in 0..n : Dep(p, j) \in Nat
      /\ \A j \in 1..n : p[j] = "if" => Dep(p, j) = Dep(p, j - 1) + 1
  BY Depths
<1>2. k \in 1..(n + 1) /\ i \in 1..(k - 1) /\ p[i] = "if" /\ k <= EndIn(p, i)
  BY DEF Opens, Spots
<1> HIDE DEF n
<1>3. i \in 1..n /\ i \in 0..n /\ i - 1 \in 0..n
  BY <1>1, <1>2
<1>4. PICK e : e = EndIn(p, i)
  OBVIOUS
<1>5. e \in (i + 1)..n /\ \A j \in i..(e - 1) : Dep(p, j) > Dep(p, i - 1)
  BY <1>2, <1>3, <1>4, EndFacts DEF n
<1>6. Dep(p, i) = Dep(p, i - 1) + 1 /\ Dep(p, i) \in Nat /\ Dep(p, i - 1) \in Nat
  BY <1>1, <1>2, <1>3
<1>7. ASSUME NEW j \in i..(k - 1) PROVE Dep(p, j) >= Dep(p, i)
  <2>1. j \in i..(e - 1) /\ j \in 0..n
    BY <1>1, <1>2, <1>3, <1>4, <1>5
  <2>2. Dep(p, j) > Dep(p, i - 1) /\ Dep(p, j) \in Nat
    BY <1>1, <1>5, <2>1
  <2> QED
    BY <1>6, <2>2
<1>8. Dep(p, i) \in 1..Dep(p, k - 1) /\ Dep(p, k - 1) \in Nat
  <2>1. k - 1 \in i..(k - 1) /\ k - 1 \in 0..n
    BY <1>1, <1>2
  <2>2. Dep(p, k - 1) >= Dep(p, i) /\ Dep(p, k - 1) \in Nat
    BY <1>1, <1>7, <2>1
  <2> QED
    BY <1>6, <2>2
<1>9. k \in 1..n /\ e \in 1..n
  BY <1>1, <1>2, <1>3, <1>4, <1>5
<1> QED
  BY <1>2, <1>3, <1>4, <1>7, <1>8, <1>9 DEF n

\* Of two open blocks the later one is inside the earlier one.
LEMMA OpenOrder ==
    ASSUME NEW p, Balanced(p), NEW k \in Spots(p), NEW i \in Opens(p, k), NEW t \in Opens(p, k),
           i < t
    PROVE  Dep(p, i) <= Dep(p, t - 1) /\ Dep(p, i) < Dep(p, t) /\ i \in Opens(p, t) /\ t \in Spots(p)
<1>1. /\ i \in 1..Len(p) /\ p[i] = "if" /\ i < k /\ k <= EndIn(p, i) /\ k \in 1..Len(p)
      /\ EndIn(p, i) \in 1..Len(p)
      /\ \A j \in i..(k - 1) : Dep(p, j) >= Dep(p, i)
      /\ Dep(p, i) \in 1..Dep(p, k - 1) /\ Dep(p, k - 1) \in Nat
  BY OpenFacts
<1>2. t \in 1..Len(p) /\ p[t] = "if" /\ t < k /\ k \in Nat
  BY OpenFacts
<1>3. /\ Len(p) \in Nat
      /\ \A j \in 0..Len(p) : Dep(p, j) \in Nat
      /\ p[t] = "if" => Dep(p, t) = Dep(p, t - 1) + 1
  BY <1>2, Depths
<1>4. t - 1 \in i..(k - 1) /\ t - 1 \in 0..Len(p)
  BY <1>1, <1>2, <1>3
<1>5. Dep(p, t - 1) >= Dep(p, i) /\ Dep(p, t - 1) \in Nat /\ Dep(p, t) = Dep(p, t - 1) + 1
  BY <1>1, <1>2, <1>3, <1>4
<1>6. Dep(p, i) \in Nat
  BY <1>1
<1>7. i \in Opens(p, t)
  <2>1. t <= EndIn(p, i) /\ i \in 1..(t - 1)
    BY <1>1, <1>2
  <2> QED
    BY <1>1, <2>1 DEF Opens
<1>8. t \in Spots(p)
  BY <1>2, <1>3 DEF Spots
<1> QED
  BY <1>5, <1>6, <1>7, <1>8

\* The innermost open block.
LEMMA TopOpen ==
    ASSUME NEW p, Balanced(p), NEW k \in Spots(p), Dep(p, k - 1) > 0
    PROVE  \E t \in Opens(p, k) : Dep(p, t) = Dep(p, k - 1)
<1> DEFINE n == Len(p)
           H == {j \in 1..(k - 1) : Dep(p, j - 1) < Dep(p, k - 1)}
<1>1. /\ n \in Nat /\ Dep(p, 0) = 0
      /\ \A j \in 0..n : Dep(p, j) \in Nat
      /\ \A j \in 1..n :
            /\ p[j] = "if" => Dep(p, j) = Dep(p, j - 1) + 1
            /\ p[j] = "end" => Dep(p, j) = Dep(p, j - 1) - 1
            /\ p[j] \notin {"if", "end"} => Dep(p, j) = Dep(p, j - 1)
  BY Depths
<1>2. k \in 1..(n + 1)
  BY DEF Spots
<1> HIDE DEF n
<1>3. k - 1 \in 0..n /\ k # 1
  BY <1>1, <1>2
<1>4. H \in SUBSET (0..n) /\ H # {}
  <2>1. 1 \in H
    <3>1. 1 \in 1..(k - 1) /\ 1 - 1 = 0
      BY <1>2, <1>3
    <3>2. Dep(p, 1 - 1) < Dep(p, k - 1)
      BY <1>1, <3>1
    <3> QED
      BY <3>1, <3>2
  <2> QED
    BY <1>1, <1>2, <2>1
<1>5. PICK t \in H : \A j \in H : t >= j
  <2>1. Max(H) \in H /\ \A j \in H : Max(H) >= j
    <3> HIDE DEF H
    <3> QED
      BY <1>1, <1>4, MaxOfSet
  <2> QED
    BY <2>1
<1>6. t \in 1..(k - 1) /\ Dep(p, t - 1) < Dep(p, k - 1) /\ t \in 1..n /\ t - 1 \in 0..n /\ t \in 0..n
  BY <1>1, <1>2, <1>5
<1>7. ASSUME NEW m \in t..(k - 1) PROVE Dep(p, m) >= Dep(p, k - 1)
  <2>1. m \in 0..n /\ Dep(p, m) \in Nat /\ Dep(p, k - 1) \in Nat
    BY <1>1, <1>2, <1>3, <1>6
  <2>2. CASE m = k - 1
    BY <2>1, <2>2
  <2>3. CASE m # k - 1
    <3>1. m + 1 \in 1..(k - 1) /\ (m + 1) - 1 = m /\ ~(t >= m + 1)
      BY <1>2, <1>6, <2>3
    <3>2. m + 1 \notin H
      BY <1>5, <3>1
    <3>3. ~(Dep(p, (m + 1) - 1) < Dep(p, k - 1))
      BY <3>1, <3>2
    <3> QED
      BY <2>1, <3>1, <3>3
  <2> QED
    BY <2>2, <2>3
<1>8. Dep(p, t) >= Dep(p, k - 1) /\ Dep(p, t) \in Nat /\ Dep(p, t - 1) \in Nat /\ Dep(p, k - 1) \in Nat
  BY <1>1, <1>2, <1>3, <1>6, <1>7
<1>9. p[t] = "if" /\ Dep(p, t) = Dep(p, k - 1)
  BY <1>1, <1>6, <1>8
<1>10. k <= EndIn(p, t)
  <2>1. PICK e : e = EndIn(p, t)
    OBVIOUS
  <2>2. e \in (t + 1)..n /\ Dep(p, e) = Dep(p, t - 1)
    BY <1>6, <1>9, <2>1, EndFacts DEF n
  <2>3. ~(e \in t..(k - 1))
    BY <1>6, <1>7, <1>8, <2>2
  <2> QED
    BY <1>2, <1>6, <2>1, <2>2, <2>3
<1> QED
  BY <1>6, <1>9, <1>10 DEF Opens

-----------------------------------------------------------------------------
(* The frames of the walk.                                                 *)

Frame == [enclosingActive : BOOLEAN, anyMatched : BOOLEAN, branchActive : BOOLEAN]

\* No branch of the IF at i before k was taken, and none was left out.
Unmatched(p, w, i, k) == \A g \in HeadersIn(p, i) : g < k => w[g] \in {"false", "error"}

\* What the frame of the IF at i stands for when the walk is at k.
FrameOK(p, w, k, i, f) ==
    /\ f.enclosingActive <=> ReachedIn(p, w, i)
    /\ f.branchActive <=> ChosenIn(p, w, i, BranchIn(p, i, k))
    /\ (f.enclosingActive /\ ~f.anyMatched) <=> Unmatched(p, w, i, k)
    /\ f.branchActive => f.enclosingActive

\* Run's stack has a frame for every open block, the outermost first.
FramesOK(p, w, k, c) ==
    /\ c \in Seq(Frame) /\ Len(c) = Dep(p, k - 1)
    /\ \A i \in Opens(p, k) : FrameOK(p, w, k, i, c[Dep(p, i)])

\* condActive of a stack.
Active(c) == IF c = <<>> THEN TRUE ELSE c[Len(c)].branchActive

\* w and v agree on the markers before k.
SameBefore(k, w, v) == \A j \in 1..(k - 1) : w[j] = v[j]

\* Conditions that are evaluated later do not change what was chosen.
LEMMA ChosenStays ==
    ASSUME NEW p, Balanced(p), NEW k \in Nat, NEW w, NEW v, SameBefore(k, w, v),
           NEW i \in 1..Len(p), p[i] = "if", NEW h \in HeadersIn(p, i), h < k
    PROVE  ChosenIn(p, w, i, h) <=> ChosenIn(p, v, i, h)
<1>1. \A g \in HeadersIn(p, i) : g \in 1..Len(p)
  BY HeaderFacts
<1>2. \A g \in HeadersIn(p, i) : g <= h => w[g] = v[g]
  BY <1>1 DEF SameBefore
<1>3. w[h] = v[h] /\ \A g \in HeadersIn(p, i) : g < h => w[g] = v[g]
  BY <1>1, <1>2
<1> QED
  BY <1>3 DEF ChosenIn

\* Nor what was reached.
LEMMA ReachedStays ==
    ASSUME NEW p, Balanced(p), NEW k \in Nat, NEW w, NEW v, SameBefore(k, w, v),
           NEW i \in 1..Len(p), i <= k
    PROVE  ReachedIn(p, w, i) <=> ReachedIn(p, v, i)
<1>1. ASSUME NEW a \in AroundIn(p, i)
      PROVE  ChosenIn(p, w, a, BranchIn(p, a, i)) <=> ChosenIn(p, v, a, BranchIn(p, a, i))
  <2>1. a \in 1..(i - 1) /\ p[a] = "if"
    BY DEF AroundIn
  <2>2. a \in 1..Len(p) /\ a < i /\ i \in Nat
    BY <2>1
  <2>3. PICK b : b = BranchIn(p, a, i)
    OBVIOUS
  <2>4. b \in HeadersIn(p, a) /\ b < i
    BY <2>1, <2>2, <2>3, BranchFacts
  <2>5. b < k
    <3>1. b \in 1..Len(p)
      BY <2>1, <2>2, <2>4, HeaderFacts
    <3> QED
      BY <2>4, <3>1
  <2>6. ChosenIn(p, w, a, b) <=> ChosenIn(p, v, a, b)
    BY <2>1, <2>2, <2>4, <2>5, ChosenStays
  <2> QED
    BY <2>3, <2>6
<1> QED
  BY <1>1 DEF ReachedIn

\* At a statement that is neither a header nor an END the top frame tells
\* whether every branch around it is the chosen one.
LEMMA ActiveIsReached ==
    ASSUME NEW p, Balanced(p), NEW k \in 1..Len(p), p[k] \notin {"elseif", "else", "end"},
           NEW w, NEW c, FramesOK(p, w, k, c)
    PROVE  Active(c) <=> ReachedIn(p, w, k)
<1>0. k \in Spots(p) /\ Len(p) \in Nat /\ k \in Nat
  BY Depths DEF Spots
<1>1. AroundIn(p, k) = Opens(p, k)
  <2>1. ASSUME NEW i \in Opens(p, k) PROVE i \in AroundIn(p, k)
    <3>1. i \in 1..Len(p) /\ p[i] = "if" /\ i < k /\ k <= EndIn(p, i)
          /\ EndIn(p, i) \in 1..Len(p)
      BY <1>0, OpenFacts
    <3>2. p[EndIn(p, i)] = "end"
      BY <3>1, EndFacts
    <3>3. k < EndIn(p, i)
      BY <1>0, <3>1, <3>2
    <3>4. k \notin HeadersIn(p, i)
      BY <1>0, <3>1, HeaderFacts
    <3>5. i \in 1..(k - 1)
      BY <1>0, <3>1
    <3> QED
      BY <3>1, <3>3, <3>4, <3>5 DEF AroundIn
  <2>2. ASSUME NEW i \in AroundIn(p, k) PROVE i \in Opens(p, k)
    <3>1. i \in 1..(k - 1) /\ p[i] = "if" /\ k < EndIn(p, i)
      BY DEF AroundIn
    <3>2. i \in 1..Len(p)
      BY <1>0, <3>1
    <3>3. EndIn(p, i) \in (i + 1)..Len(p)
      BY <3>1, <3>2, EndFacts
    <3>4. k <= EndIn(p, i)
      BY <1>0, <3>1, <3>3
    <3> QED
      BY <3>1, <3>4 DEF Opens
  <2> QED
    BY <2>1, <2>2
<1>2. c \in Seq(Frame) /\ Len(c) = Dep(p, k - 1) /\ Dep(p, k - 1) \in Nat
  <2>1. k - 1 \in 0..Len(p)
    BY <1>0
  <2> QED
    BY <2>1, Depths DEF FramesOK
<1>3. CASE Dep(p, k - 1) = 0
  <2>1. c = <<>>
    BY <1>2, <1>3, EmptySeq
  <2>2. Opens(p, k) = {}
    <3>1. ASSUME NEW i \in Opens(p, k) PROVE FALSE
      <4>1. Dep(p, i) \in 1..Dep(p, k - 1)
        BY <1>0, OpenFacts
      <4> QED
        BY <1>3, <4>1
    <3> QED
      BY <3>1
  <2> QED
    BY <1>1, <2>1, <2>2 DEF ReachedIn, Active
<1>4. CASE Dep(p, k - 1) > 0
  <2>1. PICK t \in Opens(p, k) : Dep(p, t) = Dep(p, k - 1)
    BY <1>0, <1>4, TopOpen
  <2>2. c # <<>> /\ Active(c) = c[Len(c)].branchActive
    <3>1. c # <<>>
      BY <1>2, <1>4, EmptySeq
    <3> QED
      BY <3>1 DEF Active
  <2>3. FrameOK(p, w, k, t, c[Len(c)])
    BY <1>2, <2>1 DEF FramesOK
  <2>4. Active(c) <=> ChosenIn(p, w, t, BranchIn(p, t, k))
    BY <2>2, <2>3, Zenon DEF FrameOK
  <2>5. Active(c) => ReachedIn(p, w, t)
    BY <2>2, <2>3, Zenon DEF FrameOK
  <2>6. t \in 1..Len(p) /\ p[t] = "if" /\ t < k /\ \A j \in t..(k - 1) : Dep(p, j) >= Dep(p, t)
    BY <1>0, OpenFacts
  <2>7. ASSUME NEW i \in Opens(p, k), i # t
        PROVE  i \in AroundIn(p, t) /\ BranchIn(p, i, t) = BranchIn(p, i, k)
    <3>1. i \in 1..Len(p) /\ p[i] = "if" /\ i < k /\ k <= EndIn(p, i) /\ EndIn(p, i) \in 1..Len(p)
          /\ Dep(p, i) \in 1..Dep(p, k - 1)
      BY <1>0, OpenFacts
    <3>2. i < t
      <4>1. ~(t < i)
        <5>1. ASSUME t < i PROVE FALSE
          <6>1. Dep(p, t) < Dep(p, i)
            BY <1>0, <5>1, OpenOrder
          <6> QED
            BY <1>2, <2>1, <3>1, <6>1
        <5> QED
          BY <5>1
      <4> QED
        BY <2>6, <2>7, <3>1, <4>1
    <3>3. Dep(p, i) <= Dep(p, t - 1) /\ i \in Opens(p, t) /\ t \in Spots(p) /\ Dep(p, i) < Dep(p, t)
      BY <1>0, <3>2, OpenOrder
    <3>4. \A g \in HeadersIn(p, i) : g \in 1..Len(p) /\ (g = i \/ Dep(p, g) = Dep(p, i))
      BY <3>1, HeaderFacts
    <3>5. \A j \in 0..Len(p) : Dep(p, j) \in Nat
      BY Depths
    <3>6. ASSUME NEW g \in HeadersIn(p, i), g < k PROVE g < t
      <4>1. g \in 1..Len(p) /\ (g = i \/ Dep(p, g) = Dep(p, i))
        BY <3>4
      <4>2. CASE g = i
        BY <3>2, <4>2
      <4>3. CASE Dep(p, g) = Dep(p, i) /\ g >= t
        <5>1. g \in t..(k - 1) /\ g \in 0..Len(p) /\ t \in 0..Len(p) /\ i \in 0..Len(p)
          BY <1>0, <2>6, <3>1, <3>6, <4>1, <4>3
        <5>2. Dep(p, g) >= Dep(p, t) /\ Dep(p, g) \in Nat /\ Dep(p, t) \in Nat
          BY <2>6, <3>5, <5>1
        <5> QED
          BY <3>3, <4>3, <5>2
      <4> QED
        BY <2>6, <4>1, <4>2, <4>3
    <3>7. PICK b : b = BranchIn(p, i, k)
      OBVIOUS
    <3>8. b \in HeadersIn(p, i) /\ b < k /\ \A g \in HeadersIn(p, i) : g < k => g <= b
      BY <1>0, <3>1, <3>7, BranchFacts
    <3>9. b < t /\ \A g \in HeadersIn(p, i) : g < t => g <= b
      <4>1. \A g \in HeadersIn(p, i) : g < t => g < k
        BY <1>0, <2>6, <3>4
      <4> QED
        BY <3>6, <3>8, <4>1
    <3>10. t \in Nat
      BY <2>6
    <3>11. BranchIn(p, i, t) = b
      BY <3>1, <3>2, <3>8, <3>9, <3>10, BranchIs
    <3>12. i \in AroundIn(p, t)
      <4>1. i \in 1..(t - 1) /\ t < EndIn(p, i)
        BY <1>0, <2>6, <3>1, <3>2
      <4>2. t \notin HeadersIn(p, i)
        <5>1. \A g \in HeadersIn(p, i) : g = i \/ p[g] \in {"elseif", "else"}
          BY <3>1, HeaderFacts
        <5>2. t # i /\ p[t] \notin {"elseif", "else"}
          BY <2>6, <2>7
        <5> QED
          BY <5>1, <5>2
      <4> QED
        BY <3>1, <4>1, <4>2 DEF AroundIn
    <3> QED
      BY <3>7, <3>11, <3>12
  <2>8. ReachedIn(p, w, k) => Active(c)
    BY <1>1, <2>1, <2>4 DEF ReachedIn
  <2>9. Active(c) => ReachedIn(p, w, k)
    <3>1. SUFFICES ASSUME Active(c), NEW i \in Opens(p, k)
                   PROVE  ChosenIn(p, w, i, BranchIn(p, i, k))
      BY <1>1 DEF ReachedIn
    <3>2. CASE i = t
      BY <2>4, <3>1, <3>2
    <3>3. CASE i # t
      <4>1. i \in AroundIn(p, t) /\ BranchIn(p, i, t) = BranchIn(p, i, k)
        BY <2>7, <3>3
      <4>2. ChosenIn(p, w, i, BranchIn(p, i, t))
        BY <2>5, <3>1, <4>1 DEF ReachedIn
      <4> QED
        BY <4>1, <4>2
    <3> QED
      BY <3>2, <3>3
  <2> QED
    BY <2>8, <2>9
<1> QED
  BY <1>2, <1>3, <1>4

\* Which blocks a header belongs to, and which are open after a statement.
LEMMA OpenSteps ==
    ASSUME NEW p, Balanced(p), NEW k \in 1..Len(p)
    PROVE  /\ k \in Spots(p) /\ k + 1 \in Spots(p) /\ k \in Nat /\ k + 1 \in Nat
           /\ (k + 1) - 1 = k /\ Dep(p, k) \in Nat /\ Dep(p, k - 1) \in Nat
           /\ \A i \in Opens(p, k) :
                 k \in HeadersIn(p, i) <=> p[k] \in {"elseif", "else"} /\ Dep(p, k) = Dep(p, i)
           /\ \A i \in Opens(p, k + 1) : i \in Opens(p, k) \/ (i = k /\ p[k] = "if")
<1>0. /\ k \in Spots(p) /\ k + 1 \in Spots(p) /\ k \in Nat /\ k + 1 \in Nat /\ (k + 1) - 1 = k
      /\ k \in 0..Len(p) /\ k - 1 \in 0..Len(p)
  BY Depths DEF Spots
<1>1. Dep(p, k) \in Nat /\ Dep(p, k - 1) \in Nat
  BY <1>0, Depths
<1>2. ASSUME NEW i \in Opens(p, k)
      PROVE  k \in HeadersIn(p, i) <=> p[k] \in {"elseif", "else"} /\ Dep(p, k) = Dep(p, i)
  <2>1. i \in 1..Len(p) /\ p[i] = "if" /\ i < k /\ k <= EndIn(p, i) /\ EndIn(p, i) \in 1..Len(p)
    BY <1>0, OpenFacts
  <2>2. k \in i..EndIn(p, i) /\ k # i
    BY <1>0, <2>1
  <2> QED
    BY <2>1, <2>2, HeaderFacts
<1>3. ASSUME NEW i \in Opens(p, k + 1) PROVE i \in Opens(p, k) \/ (i = k /\ p[k] = "if")
  <2>1. i \in 1..Len(p) /\ p[i] = "if" /\ i < k + 1 /\ k + 1 <= EndIn(p, i) /\ EndIn(p, i) \in 1..Len(p)
    BY <1>0, OpenFacts
  <2>2. CASE i = k
    BY <2>1, <2>2
  <2>3. CASE i # k
    <3>1. i \in 1..(k - 1) /\ k <= EndIn(p, i)
      BY <1>0, <2>1, <2>3
    <3> QED
      BY <2>1, <3>1 DEF Opens
  <2> QED
    BY <2>2, <2>3
<1> QED
  BY <1>0, <1>1, <1>2, <1>3

\* A frame stays right when the walk passes a statement that is not a header
\* of its IF.
LEMMA OldFrame ==
    ASSUME NEW p, Balanced(p), NEW k \in 1..Len(p), NEW w, NEW v, SameBefore(k, w, v),
           NEW i \in Opens(p, k), k \notin HeadersIn(p, i), NEW f, FrameOK(p, w, k, i, f)
    PROVE  FrameOK(p, v, k + 1, i, f)
<1>1. k \in Spots(p) /\ k \in Nat /\ k + 1 \in Nat
  BY OpenSteps
<1>2. i \in 1..Len(p) /\ p[i] = "if" /\ i < k
  BY <1>1, OpenFacts
<1>3. \A g \in HeadersIn(p, i) : g \in 1..Len(p)
  BY <1>2, HeaderFacts
<1>4. \A g \in HeadersIn(p, i) : g < k + 1 <=> g < k
  BY <1>1, <1>3
<1>5. PICK b : b = BranchIn(p, i, k)
  OBVIOUS
<1>6. b \in HeadersIn(p, i) /\ b < k /\ \A g \in HeadersIn(p, i) : g < k => g <= b
  BY <1>1, <1>2, <1>5, BranchFacts
<1>7. BranchIn(p, i, k + 1) = b
  <2>1. b < k + 1 /\ i < k + 1 /\ \A g \in HeadersIn(p, i) : g < k + 1 => g <= b
    BY <1>1, <1>2, <1>4, <1>6
  <2> QED
    BY <1>1, <1>2, <1>6, <2>1, BranchIs
<1>8. ReachedIn(p, w, i) <=> ReachedIn(p, v, i)
  <2>1. i <= k
    BY <1>1, <1>2
  <2> QED
    BY <1>1, <1>2, <2>1, ReachedStays
<1>9. ChosenIn(p, w, i, b) <=> ChosenIn(p, v, i, b)
  BY <1>1, <1>2, <1>6, ChosenStays
<1>10. Unmatched(p, w, i, k) <=> Unmatched(p, v, i, k + 1)
  <2>1. \A g \in HeadersIn(p, i) : g < k => w[g] = v[g]
    BY <1>1, <1>3 DEF SameBefore
  <2> QED
    BY <1>4, <2>1 DEF Unmatched
<1> QED
  BY <1>5, <1>7, <1>8, <1>9, <1>10, Zenon DEF FrameOK

\* A command, run or skipped.
LEMMA PlainFrames ==
    ASSUME NEW p, Balanced(p), NEW k \in 1..Len(p), p[k] \notin Marker,
           NEW w, NEW c, FramesOK(p, w, k, c)
    PROVE  FramesOK(p, w, k + 1, c)
<1>1. /\ (k + 1) - 1 = k
      /\ \A i \in Opens(p, k) : k \notin HeadersIn(p, i)
      /\ \A i \in Opens(p, k + 1) : i \in Opens(p, k)
  BY OpenSteps DEF Marker
<1>2. Dep(p, k) = Dep(p, k - 1)
  BY Depths DEF Marker
<1>3. ASSUME NEW i \in Opens(p, k + 1) PROVE FrameOK(p, w, k + 1, i, c[Dep(p, i)])
  <2>1. i \in Opens(p, k) /\ k \notin HeadersIn(p, i) /\ FrameOK(p, w, k, i, c[Dep(p, i)])
    BY <1>1 DEF FramesOK
  <2>2. SameBefore(k, w, w)
    BY DEF SameBefore
  <2> QED
    BY <2>1, <2>2, OldFrame
<1> QED
  BY <1>1, <1>2, <1>3 DEF FramesOK

\* An END finds a frame and takes it off.
LEMMA EndFrames ==
    ASSUME NEW p, Balanced(p), NEW k \in 1..Len(p), p[k] = "end",
           NEW w, NEW c, FramesOK(p, w, k, c)
    PROVE  c # <<>> /\ FramesOK(p, w, k + 1, SubSeq(c, 1, Len(c) - 1))
<1> DEFINE d == SubSeq(c, 1, Len(c) - 1)
<1>1. /\ k + 1 \in Spots(p) /\ (k + 1) - 1 = k /\ Dep(p, k) \in Nat
      /\ \A i \in Opens(p, k) : k \notin HeadersIn(p, i)
      /\ \A i \in Opens(p, k + 1) : i \in Opens(p, k)
  BY OpenSteps
<1>2. Dep(p, k) = Dep(p, k - 1) - 1 /\ Dep(p, k - 1) > 0
  BY Depths
<1>3. c \in Seq(Frame) /\ Len(c) = Dep(p, k - 1) /\ Len(c) \in Nat
  BY LenProperties DEF FramesOK
<1>4. c # <<>>
  BY <1>2, <1>3, EmptySeq
<1>5. Len(c) - 1 \in 0..Len(c) /\ Len(c) - 1 = Dep(p, k)
  BY <1>2, <1>3
<1>6. d \in Seq(Frame) /\ Len(d) = Dep(p, k) /\ \A j \in 1..Dep(p, k) : d[j] = c[j]
  BY <1>3, <1>5, PrefixFacts
<1> HIDE DEF d
<1>7. ASSUME NEW i \in Opens(p, k + 1) PROVE FrameOK(p, w, k + 1, i, d[Dep(p, i)])
  <2>1. i \in Opens(p, k) /\ k \notin HeadersIn(p, i) /\ FrameOK(p, w, k, i, c[Dep(p, i)])
    BY <1>1 DEF FramesOK
  <2>2. Dep(p, i) \in 1..Dep(p, k)
    <3>1. Dep(p, i) \in 1..Dep(p, (k + 1) - 1)
      BY <1>1, OpenFacts
    <3> QED
      BY <1>1, <3>1
  <2>3. SameBefore(k, w, w)
    BY DEF SameBefore
  <2>4. FrameOK(p, w, k + 1, i, c[Dep(p, i)])
    BY <2>1, <2>3, OldFrame
  <2> QED
    BY <1>6, <2>2, <2>4
<1>8. FramesOK(p, w, k + 1, d)
  BY <1>1, <1>6, <1>7 DEF FramesOK
<1> QED
  BY <1>4, <1>8 DEF d

\* An IF whose condition was evaluated, or is in a branch that is not run.
LEMMA IfFrames ==
    ASSUME NEW p, Balanced(p), NEW k \in 1..Len(p), p[k] = "if",
           NEW w, NEW c, FramesOK(p, w, k, c), NEW v, SameBefore(k, w, v),
           NEW f \in Frame, v[k] \in {"nothing", "true", "false"},
           v[k] = "nothing" <=> ~Active(c), f.enclosingActive <=> Active(c),
           f.anyMatched <=> v[k] = "true", f.branchActive <=> v[k] = "true"
    PROVE  FramesOK(p, v, k + 1, Append(c, f))
<1> DEFINE d == Append(c, f)
<1>1. /\ k \in Nat /\ k \in Spots(p) /\ k + 1 \in Spots(p) /\ (k + 1) - 1 = k /\ Dep(p, k) \in Nat
      /\ \A i \in Opens(p, k) : k \notin HeadersIn(p, i)
      /\ \A i \in Opens(p, k + 1) : i \in Opens(p, k) \/ i = k
  BY OpenSteps
<1>2. Dep(p, k) = Dep(p, k - 1) + 1
  BY Depths
<1>3. c \in Seq(Frame) /\ Len(c) = Dep(p, k - 1) /\ Len(c) \in Nat
  BY LenProperties DEF FramesOK
<1>4. d \in Seq(Frame) /\ Len(d) = Dep(p, k) /\ d[Dep(p, k)] = f
      /\ \A j \in 1..Dep(p, k - 1) : d[j] = c[j]
  <2>1. d \in Seq(Frame) /\ Len(d) = Len(c) + 1 /\ d[Len(c) + 1] = f
        /\ \A j \in 1..Len(c) : d[j] = c[j]
    BY <1>3, AppendProperties
  <2> QED
    BY <1>2, <1>3, <2>1
<1> HIDE DEF d
<1>5. ASSUME NEW i \in Opens(p, k) PROVE FrameOK(p, v, k + 1, i, d[Dep(p, i)])
  <2>1. k \notin HeadersIn(p, i) /\ FrameOK(p, w, k, i, c[Dep(p, i)])
    BY <1>1 DEF FramesOK
  <2>2. Dep(p, i) \in 1..Dep(p, k - 1)
    BY <1>1, OpenFacts
  <2>3. FrameOK(p, v, k + 1, i, c[Dep(p, i)])
    BY <2>1, OldFrame
  <2> QED
    BY <1>4, <2>2, <2>3
<1>6. FrameOK(p, v, k + 1, k, f)
  <2>1. Active(c) <=> ReachedIn(p, w, k)
    BY ActiveIsReached
  <2>2. ReachedIn(p, w, k) <=> ReachedIn(p, v, k)
    <3>1. k <= k
      BY <1>1
    <3> QED
      BY <1>1, <3>1, ReachedStays
  <2>3. k \in HeadersIn(p, k) /\ \A g \in HeadersIn(p, k) : g \in 1..Len(p) /\ (g = k \/ g > k)
    BY HeaderFacts
  <2>4. \A g \in HeadersIn(p, k) : g < k + 1 <=> g = k
    BY <1>1, <2>3
  <2>5. BranchIn(p, k, k + 1) = k
    <3>1. k < k + 1 /\ k + 1 \in Nat /\ \A g \in HeadersIn(p, k) : g < k + 1 => g <= k
      BY <1>1, <2>3
    <3> QED
      BY <2>3, <3>1, BranchIs
  <2>6. ChosenIn(p, v, k, k) <=> v[k] = "true"
    <3>1. \A g \in HeadersIn(p, k) : ~(g < k)
      BY <1>1, <2>3
    <3> QED
      BY <3>1 DEF ChosenIn
  <2>7. Unmatched(p, v, k, k + 1) <=> v[k] = "false"
    <3>1. Unmatched(p, v, k, k + 1) <=> v[k] \in {"false", "error"}
      BY <2>3, <2>4 DEF Unmatched
    <3> QED
      BY <3>1
  <2>8. (v[k] # "nothing" /\ v[k] # "true") <=> v[k] = "false"
    OBVIOUS
  <2>9. v[k] = "true" => v[k] # "nothing"
    OBVIOUS
  <2> QED
    BY <2>1, <2>2, <2>5, <2>6, <2>7, <2>8, <2>9, Zenon DEF FrameOK
<1>7. ASSUME NEW i \in Opens(p, k + 1) PROVE FrameOK(p, v, k + 1, i, d[Dep(p, i)])
  <2>1. CASE i \in Opens(p, k)
    BY <1>5, <2>1
  <2>2. CASE i = k
    BY <1>4, <1>6, <2>2
  <2> QED
    BY <1>1, <2>1, <2>2
<1>8. FramesOK(p, v, k + 1, d)
  BY <1>1, <1>4, <1>7 DEF FramesOK
<1> QED
  BY <1>8 DEF d

\* An ELSE IF or ELSE finds the frame of the IF that it belongs to on top.
LEMMA TopFrame ==
    ASSUME NEW p, Balanced(p), NEW k \in 1..Len(p), p[k] \in {"elseif", "else"},
           NEW w, NEW c, FramesOK(p, w, k, c)
    PROVE  /\ c # <<>> /\ Len(c) \in 1..Len(c) /\ c[Len(c)] \in Frame
           /\ \A i \in 1..Len(p) : p[i] = "if" /\ k \in HeadersIn(p, i) =>
                 i \in Opens(p, k) /\ FrameOK(p, w, k, i, c[Len(c)])
<1>1. k \in Nat /\ k \in Spots(p) /\ Dep(p, k - 1) \in Nat
  BY OpenSteps
<1>2. Dep(p, k) = Dep(p, k - 1) /\ Dep(p, k - 1) > 0
  BY Depths
<1>3. c \in Seq(Frame) /\ Len(c) = Dep(p, k - 1)
  BY DEF FramesOK
<1>4. c # <<>> /\ Len(c) \in 1..Len(c)
  BY <1>1, <1>2, <1>3, EmptySeq
<1>5. ASSUME NEW i \in 1..Len(p), p[i] = "if", k \in HeadersIn(p, i)
      PROVE  i \in Opens(p, k) /\ FrameOK(p, w, k, i, c[Len(c)])
  <2>1. k \in i..(EndIn(p, i) - 1) /\ (k = i \/ Dep(p, k) = Dep(p, i))
    BY <1>5, HeaderFacts
  <2>2. EndIn(p, i) \in (i + 1)..Len(p)
    BY <1>5, EndFacts
  <2>3. k # i
    BY <1>5
  <2>4. i \in 1..(k - 1) /\ k <= EndIn(p, i)
    BY <1>1, <2>1, <2>2, <2>3
  <2>5. i \in Opens(p, k)
    BY <1>5, <2>4 DEF Opens
  <2>6. Dep(p, i) = Len(c)
    BY <1>2, <1>3, <2>1, <2>3
  <2> QED
    BY <2>5, <2>6 DEF FramesOK
<1>6. c[Len(c)] \in Frame
  BY <1>3, <1>4, ElementOfSeq
<1> QED
  BY <1>4, <1>5, <1>6

\* An ELSE IF or ELSE: its frame starts a new branch.
LEMMA HeaderFrames ==
    ASSUME NEW p, Balanced(p), NEW k \in 1..Len(p), p[k] \in {"elseif", "else"},
           NEW w, NEW c, FramesOK(p, w, k, c), NEW v, SameBefore(k, w, v),
           NEW f, f = c[Len(c)], NEW f2 \in Frame, f2.enclosingActive <=> f.enclosingActive,
           f2.branchActive <=> ((p[k] = "else" \/ v[k] = "true")
                                    /\ f.enclosingActive /\ ~f.anyMatched),
           (f2.enclosingActive /\ ~f2.anyMatched)
              <=> (f.enclosingActive /\ ~f.anyMatched /\ v[k] \in {"false", "error"})
    PROVE  FramesOK(p, v, k + 1, [c EXCEPT ![Len(c)] = f2])
<1> DEFINE d == [c EXCEPT ![Len(c)] = f2]
<1>1. /\ k \in Nat /\ k + 1 \in Nat /\ k \in Spots(p) /\ k + 1 \in Spots(p)
      /\ (k + 1) - 1 = k /\ Dep(p, k) \in Nat
      /\ \A i \in Opens(p, k) : k \in HeadersIn(p, i) <=> Dep(p, k) = Dep(p, i)
      /\ \A i \in Opens(p, k + 1) : i \in Opens(p, k)
  BY OpenSteps
<1>2. Dep(p, k) = Dep(p, k - 1)
  BY Depths
<1>3. c \in Seq(Frame) /\ Len(c) = Dep(p, k - 1) /\ Len(c) \in Nat
  BY LenProperties DEF FramesOK
<1>4. /\ c # <<>> /\ Len(c) \in 1..Len(c)
      /\ \A i \in 1..Len(p) : p[i] = "if" /\ k \in HeadersIn(p, i) =>
            i \in Opens(p, k) /\ FrameOK(p, w, k, i, c[Len(c)])
  BY TopFrame
<1>5. d \in Seq(Frame) /\ Len(d) = Len(c) /\ d[Len(c)] = f2
      /\ \A j \in 1..Len(c) : j # Len(c) => d[j] = c[j]
  BY <1>3, <1>4, ExceptSeq
<1> HIDE DEF d
<1>6. ASSUME NEW i \in Opens(p, k), k \notin HeadersIn(p, i)
      PROVE  FrameOK(p, v, k + 1, i, d[Dep(p, i)])
  <2>1. FrameOK(p, w, k, i, c[Dep(p, i)])
    BY DEF FramesOK
  <2>2. Dep(p, i) \in 1..Len(c) /\ Dep(p, i) # Len(c)
    <3>1. Dep(p, i) \in 1..Dep(p, k - 1)
      BY <1>1, OpenFacts
    <3> QED
      BY <1>1, <1>2, <1>3, <1>6, <3>1
  <2>3. FrameOK(p, v, k + 1, i, c[Dep(p, i)])
    BY <1>6, <2>1, OldFrame
  <2> QED
    BY <1>5, <2>2, <2>3
<1>7. ASSUME NEW i \in Opens(p, k), k \in HeadersIn(p, i)
      PROVE  FrameOK(p, v, k + 1, i, f2)
  <2>1. i \in 1..Len(p) /\ p[i] = "if" /\ i < k
    BY <1>1, OpenFacts
  <2>2. FrameOK(p, w, k, i, f)
    BY <1>4, <1>7, <2>1
  <2>3. \A g \in HeadersIn(p, i) : g \in 1..Len(p)
    BY <2>1, HeaderFacts
  <2>4. ReachedIn(p, w, i) <=> ReachedIn(p, v, i)
    <3>1. i <= k
      BY <1>1, <2>1
    <3> QED
      BY <1>1, <2>1, <3>1, ReachedStays
  <2>5. BranchIn(p, i, k + 1) = k
    <3>1. k < k + 1 /\ i < k + 1 /\ \A g \in HeadersIn(p, i) : g < k + 1 => g <= k
      BY <1>1, <2>1, <2>3
    <3> QED
      BY <1>1, <1>7, <2>1, <3>1, BranchIs
  <2>6. \A g \in HeadersIn(p, i) : g < k => w[g] = v[g]
    BY <1>1, <2>3 DEF SameBefore
  <2>7. ChosenIn(p, v, i, k) <=> ((p[k] = "else" \/ v[k] = "true") /\ Unmatched(p, w, i, k))
    BY <2>6 DEF ChosenIn, Unmatched
  <2>8. Unmatched(p, v, i, k + 1) <=> (Unmatched(p, w, i, k) /\ v[k] \in {"false", "error"})
    <3>1. \A g \in HeadersIn(p, i) : g < k + 1 <=> (g < k \/ g = k)
      BY <1>1, <2>3
    <3> QED
      BY <1>7, <2>6, <3>1 DEF Unmatched
  <2> QED
    BY <2>2, <2>4, <2>5, <2>7, <2>8, Zenon DEF FrameOK
<1>8. ASSUME NEW i \in Opens(p, k + 1) PROVE FrameOK(p, v, k + 1, i, d[Dep(p, i)])
  <2>1. i \in Opens(p, k)
    BY <1>1
  <2>2. CASE k \in HeadersIn(p, i)
    <3>1. Dep(p, i) = Len(c)
      BY <1>1, <1>2, <1>3, <2>1, <2>2
    <3> QED
      BY <1>5, <1>7, <2>1, <2>2, <3>1
  <2>3. CASE k \notin HeadersIn(p, i)
    BY <1>6, <2>1, <2>3
  <2> QED
    BY <2>2, <2>3
<1>9. FramesOK(p, v, k + 1, d)
  BY <1>1, <1>2, <1>3, <1>5, <1>8 DEF FramesOK
<1> QED
  BY <1>9 DEF d

-----------------------------------------------------------------------------
(* What the walk did so far.                                               *)

\* Exactly the commands in the chosen branches were run.
RanChosen(p, w, k, r) ==
    \A j \in 1..(k - 1) : p[j] \notin Marker => (j \in r <=> ReachedIn(p, w, j))

\* Conditions were evaluated only where it was needed.
Lazy(p, w, k) ==
    \A i \in 1..(k - 1) : p[i] = "if" =>
        \A h \in HeadersIn(p, i) :
            (h < k /\ p[h] # "else" /\ w[h] # "nothing") =>
                ReachedIn(p, w, i) /\ \A g \in HeadersIn(p, i) : g < h => w[g] # "true"

\* Past a statement that is no command.
LEMMA RanPast ==
    ASSUME NEW p, Balanced(p), NEW k \in 1..Len(p), NEW w, NEW v, SameBefore(k, w, v),
           NEW r, NEW r2, RanChosen(p, w, k, r), \A j \in 1..(k - 1) : j \in r2 <=> j \in r,
           p[k] \in Marker \/ (k \in r2 <=> ReachedIn(p, v, k))
    PROVE  RanChosen(p, v, k + 1, r2)
<1>1. SUFFICES ASSUME NEW j \in 1..((k + 1) - 1), p[j] \notin Marker
               PROVE  j \in r2 <=> ReachedIn(p, v, j)
  BY DEF RanChosen
<1>2. k \in Nat /\ Len(p) \in Nat
  BY Depths
<1>3. CASE j = k
  BY <1>1, <1>3
<1>4. CASE j # k
  <2>1. j \in 1..(k - 1) /\ j \in 1..Len(p) /\ j <= k
    BY <1>2, <1>4
  <2>2. j \in r <=> ReachedIn(p, w, j)
    BY <1>1, <2>1 DEF RanChosen
  <2>3. ReachedIn(p, w, j) <=> ReachedIn(p, v, j)
    BY <1>2, <2>1, ReachedStays
  <2> QED
    BY <2>1, <2>2, <2>3
<1> QED
  BY <1>3, <1>4

\* Past a statement whose condition, if it has one, was evaluated only if needed.
LEMMA LazyPast ==
    ASSUME NEW p, Balanced(p), NEW k \in 1..Len(p), NEW w, NEW v, SameBefore(k, w, v),
           Lazy(p, w, k),
           v[k] # "nothing" /\ p[k] # "else" => \A i \in 1..k : p[i] = "if" /\ k \in HeadersIn(p, i) =>
               ReachedIn(p, w, i) /\ \A g \in HeadersIn(p, i) : g < k => w[g] # "true"
    PROVE  Lazy(p, v, k + 1)
<1>1. SUFFICES ASSUME NEW i \in 1..((k + 1) - 1), p[i] = "if", NEW h \in HeadersIn(p, i),
                      h < k + 1, p[h] # "else", v[h] # "nothing"
               PROVE  ReachedIn(p, v, i) /\ \A g \in HeadersIn(p, i) : g < h => v[g] # "true"
  BY DEF Lazy
<1>2. k \in Nat /\ Len(p) \in Nat /\ i \in 1..Len(p) /\ i <= k /\ i \in 1..k
  BY Depths
<1>3. ReachedIn(p, w, i) <=> ReachedIn(p, v, i)
  BY <1>2, ReachedStays
<1>4. \A g \in HeadersIn(p, i) : g \in 1..Len(p) /\ g \in i..(EndIn(p, i) - 1)
  BY <1>1, <1>2, HeaderFacts
<1>5. \A g \in HeadersIn(p, i) : g < k => w[g] = v[g]
  BY <1>2, <1>4 DEF SameBefore
<1>6. \A g \in HeadersIn(p, i) : g < h => g < k
  BY <1>1, <1>2, <1>4
<1>7. CASE h = k
  <2>1. ReachedIn(p, w, i) /\ \A g \in HeadersIn(p, i) : g < k => w[g] # "true"
    BY <1>1, <1>2, <1>7
  <2> QED
    BY <1>3, <1>5, <1>6, <2>1
<1>8. CASE h # k
  <2>1. h < k /\ w[h] # "nothing" /\ i \in 1..(k - 1)
    BY <1>1, <1>2, <1>4, <1>5, <1>8
  <2>2. ReachedIn(p, w, i) /\ \A g \in HeadersIn(p, i) : g < h => w[g] # "true"
    BY <1>1, <2>1 DEF Lazy
  <2> QED
    BY <1>3, <1>5, <1>6, <2>2
<1> QED
  BY <1>7, <1>8

-----------------------------------------------------------------------------
(* Inlining.                                                               *)

\* The blocks that are open in a file where an activation stands.
OpenIn(src, a) == FlowAt(src[a.file], a.at - 1).stack

\* B[i] is what is open in the i outermost activations together.
Under(src, inc, B) ==
    /\ B \in [0..Len(inc) -> Seq(BOOLEAN)] /\ B[0] = <<>>
    /\ \A i \in 1..Len(inc) : B[i] = B[i - 1] \o OpenIn(src, inc[i])

\* inc2 is inc with its innermost activation moved; new is what is open then.
Moved(src, inc, inc2, B, new) ==
    /\ inc \in Seq(Activation) /\ inc2 \in Seq(Activation) /\ Under(src, inc, B)
    /\ Len(inc) > 0 /\ Len(inc2) = Len(inc) /\ \A i \in 1..(Len(inc) - 1) : inc2[i] = inc[i]
    /\ OpenIn(src, inc2[Len(inc)]) \in Seq(BOOLEAN)
    /\ new = B[Len(inc) - 1] \o OpenIn(src, inc2[Len(inc)])

\* The innermost activation moves on.
LEMMA UnderMoves ==
    ASSUME NEW src, NEW inc, NEW inc2, NEW B, NEW new, Moved(src, inc, inc2, B, new)
    PROVE  B[Len(inc) - 1] \in Seq(BOOLEAN) /\ \E C : Under(src, inc2, C) /\ C[Len(inc2)] = new
<1> USE DEF Moved
<1> DEFINE d == Len(inc)
<1>1. d \in Nat /\ d > 0 /\ d - 1 \in 0..d /\ d \in 0..d /\ 0 \in 0..d /\ Len(inc2) = d
  BY LenProperties
<1>2. new = B[d - 1] \o OpenIn(src, inc2[d])
  OBVIOUS
<1>3. /\ B \in [0..d -> Seq(BOOLEAN)] /\ B[0] = <<>>
      /\ \A i \in 1..d : B[i] = B[i - 1] \o OpenIn(src, inc[i])
  BY DEF Under
<1> HIDE DEF d
<1>4. B[d - 1] \in Seq(BOOLEAN)
  BY <1>1, <1>3
<1>5. new \in Seq(BOOLEAN)
  <2>1. OpenIn(src, inc2[d]) \in Seq(BOOLEAN)
    BY DEF d
  <2> QED
    BY <1>2, <1>4, <2>1, ConcatProperties
<1> DEFINE C == [B EXCEPT ![d] = new]
<1>6. C \in [0..d -> Seq(BOOLEAN)] /\ C[d] = new /\ \A i \in 0..d : i # d => C[i] = B[i]
  BY <1>1, <1>3, <1>5
<1> HIDE DEF C
<1>7. ASSUME NEW i \in 1..d PROVE C[i] = C[i - 1] \o OpenIn(src, inc2[i])
  <2>1. i \in 0..d /\ i - 1 \in 0..d /\ i - 1 # d /\ (i # d => i \in 1..(d - 1))
    BY <1>1
  <2>2. C[i - 1] = B[i - 1]
    BY <1>6, <2>1
  <2>3. CASE i = d
    BY <1>2, <1>6, <2>2, <2>3
  <2>4. CASE i # d
    <3>1. C[i] = B[i] /\ inc2[i] = inc[i]
      BY <1>6, <2>1, <2>4 DEF d
    <3> QED
      BY <1>3, <2>2, <3>1
  <2> QED
    BY <2>3, <2>4
<1>8. C[0] = <<>>
  BY <1>1, <1>3, <1>6
<1>9. Under(src, inc2, C) /\ C[Len(inc2)] = new
  BY <1>1, <1>2, <1>6, <1>7, <1>8 DEF Under
<1> QED
  BY <1>4, <1>9 DEF d

\* A file is entered.
LEMMA UnderEnters ==
    ASSUME NEW src, NEW inc \in Seq(Activation), NEW a \in Activation, NEW B, Under(src, inc, B),
           OpenIn(src, a) = <<>>
    PROVE  \E C : Under(src, Append(inc, a), C) /\ C[Len(Append(inc, a))] = B[Len(inc)]
<1> DEFINE d == Len(inc)
           t == Append(inc, a)
<1>1. d \in Nat /\ Len(t) = d + 1 /\ t[d + 1] = a /\ \A i \in 1..d : t[i] = inc[i]
  BY LenProperties, AppendProperties
<1>2. /\ B \in [0..d -> Seq(BOOLEAN)] /\ B[0] = <<>>
      /\ \A i \in 1..d : B[i] = B[i - 1] \o OpenIn(src, inc[i])
  BY DEF Under
<1> HIDE DEF d, t
<1> DEFINE C == [i \in 0..(d + 1) |-> IF i = d + 1 THEN B[d] ELSE B[i]]
<1>3. d \in 0..d /\ 0 \in 0..d /\ B[d] \in Seq(BOOLEAN)
  BY <1>1, <1>2
<1>4. /\ C \in [0..(d + 1) -> Seq(BOOLEAN)] /\ C[d + 1] = B[d] /\ \A i \in 0..d : C[i] = B[i]
  BY <1>1, <1>2, <1>3
<1> HIDE DEF C
<1>5. ASSUME NEW i \in 1..(d + 1) PROVE C[i] = C[i - 1] \o OpenIn(src, t[i])
  <2>1. CASE i = d + 1
    <3>1. i - 1 = d
      BY <1>1, <2>1
    <3>2. B[d] \o <<>> = B[d]
      BY <1>3, ConcatEmptySeq
    <3> QED
      BY <1>1, <1>3, <1>4, <2>1, <3>1, <3>2
  <2>2. CASE i # d + 1
    <3>1. i \in 1..d /\ i \in 0..d /\ i - 1 \in 0..d
      BY <1>1, <2>2
    <3> QED
      BY <1>1, <1>2, <1>4, <3>1
  <2> QED
    BY <2>1, <2>2
<1>6. C[0] = <<>>
  BY <1>2, <1>3, <1>4
<1>7. Under(src, t, C) /\ C[Len(t)] = B[d]
  BY <1>1, <1>4, <1>5, <1>6 DEF Under
<1> QED
  BY <1>7 DEF d, t

\* A file that has closed its blocks is left.
LEMMA UnderLeaves ==
    ASSUME NEW src, NEW inc \in Seq(Activation), NEW B, Under(src, inc, B),
           Len(inc) > 0, OpenIn(src, inc[Len(inc)]) = <<>>
    PROVE  LET t == SubSeq(inc, 1, Len(inc) - 1) IN
           \E C : Under(src, t, C) /\ C[Len(t)] = B[Len(inc)]
<1> DEFINE d == Len(inc)
           t == SubSeq(inc, 1, d - 1)
<1>1. d \in Nat /\ d > 0 /\ d - 1 \in 0..Len(inc)
  BY LenProperties
<1>2. Len(t) = d - 1 /\ \A i \in 1..(d - 1) : t[i] = inc[i]
  BY <1>1, PrefixFacts
<1>3. /\ B \in [0..d -> Seq(BOOLEAN)] /\ B[0] = <<>>
      /\ \A i \in 1..d : B[i] = B[i - 1] \o OpenIn(src, inc[i])
  BY DEF Under
<1>4. OpenIn(src, inc[d]) = <<>>
  OBVIOUS
<1> HIDE DEF d, t
<1> DEFINE C == [i \in 0..(d - 1) |-> B[i]]
<1>5. C \in [0..(d - 1) -> Seq(BOOLEAN)] /\ \A i \in 0..(d - 1) : C[i] = B[i]
  BY <1>1, <1>3
<1> HIDE DEF C
<1>6. B[d] = B[d - 1]
  <2>1. d \in 1..d /\ d - 1 \in 0..d
    BY <1>1
  <2>2. B[d] = B[d - 1] \o <<>> /\ B[d - 1] \in Seq(BOOLEAN)
    BY <1>3, <1>4, <2>1
  <2> QED
    BY <2>2, ConcatEmptySeq
<1>7. ASSUME NEW i \in 1..(d - 1) PROVE C[i] = C[i - 1] \o OpenIn(src, t[i])
  <2>1. i \in 1..d /\ i \in 0..(d - 1) /\ i - 1 \in 0..(d - 1)
    BY <1>1
  <2> QED
    BY <1>2, <1>3, <1>5, <2>1
<1>8. C[0] = <<>> /\ C[d - 1] = B[d - 1]
  <2>1. 0 \in 0..(d - 1) /\ d - 1 \in 0..(d - 1)
    BY <1>1
  <2> QED
    BY <1>3, <1>5, <2>1
<1>9. Under(src, t, C) /\ C[Len(t)] = B[d]
  BY <1>2, <1>5, <1>6, <1>7, <1>8 DEF Under
<1> QED
  BY <1>9 DEF d, t

-----------------------------------------------------------------------------
(* The walk.                                                               *)

Saw == {"nothing", "true", "false", "error"}

\* An IF whose condition could not be evaluated was passed over.
Failed(p, w) == \E k \in 1..Len(p) : p[k] = "if" /\ w[k] = "error"

\* Run at statement k of p, with the results w of the conditions so far, the
\* frames c and the commands r that were run.
WalkOK(p, w, k, c, r) ==
    /\ Balanced(p) /\ k \in Spots(p)
    /\ w \in [1..Len(p) -> Saw]
    /\ \A j \in 1..Len(p) : j >= k \/ p[j] = "else" => w[j] = "nothing"
    /\ r \subseteq 1..(k - 1)
    /\ Failed(p, w) \/ (FramesOK(p, w, k, c) /\ RanChosen(p, w, k, r) /\ Lazy(p, w, k))

\* A failed IF is not forgotten.
LEMMA FailedStays ==
    ASSUME NEW p, NEW w, NEW k, NEW c, NEW r, WalkOK(p, w, k, c, r), NEW q, ~Failed(p, [w EXCEPT ![k] = q])
    PROVE  ~Failed(p, w)
<1>1. w \in [1..Len(p) -> Saw] /\ k \in 1..(Len(p) + 1) /\ Len(p) \in Nat
      /\ \A j \in 1..Len(p) : j >= k => w[j] = "nothing"
  BY BalancedFlow DEF WalkOK, Spots
<1>2. SUFFICES ASSUME NEW j \in 1..Len(p), p[j] = "if", w[j] = "error" PROVE FALSE
  BY DEF Failed
<1>3. j # k
  BY <1>1, <1>2
<1>4. [w EXCEPT ![k] = q][j] = "error"
  BY <1>1, <1>2, <1>3
<1> QED
  BY <1>2, <1>4 DEF Failed

\* What does not depend on the frames.
LEMMA WalkTypes ==
    ASSUME NEW p, NEW w, NEW k, NEW c, NEW r, WalkOK(p, w, k, c, r), k <= Len(p)
    PROVE  /\ Balanced(p) /\ k \in 1..Len(p) /\ k \in Nat /\ Len(p) \in Nat /\ k + 1 \in Spots(p)
           /\ w[k] = "nothing" /\ k \notin r /\ w \in [1..Len(p) -> Saw]
           /\ r \subseteq 1..((k + 1) - 1) /\ r \cup {k} \subseteq 1..((k + 1) - 1)
           /\ \A j \in 1..Len(p) : j >= k + 1 \/ p[j] = "else" => w[j] = "nothing"
<1>1. Balanced(p) /\ k \in 1..(Len(p) + 1) /\ Len(p) \in Nat
  BY BalancedFlow DEF WalkOK, Spots
<1>2. k \in 1..Len(p) /\ k \in Nat /\ k + 1 \in Spots(p)
  BY <1>1 DEF Spots
<1>3. r \subseteq 1..(k - 1) /\ w \in [1..Len(p) -> Saw]
  BY DEF WalkOK
<1>4. k \notin r /\ r \subseteq 1..((k + 1) - 1) /\ r \cup {k} \subseteq 1..((k + 1) - 1)
  BY <1>2, <1>3
<1>5. \A j \in 1..Len(p) : j >= k \/ p[j] = "else" => w[j] = "nothing"
  BY DEF WalkOK
<1>6. w[k] = "nothing" /\ \A j \in 1..Len(p) : j >= k + 1 \/ p[j] = "else" => w[j] = "nothing"
  BY <1>1, <1>2, <1>5
<1> QED
  BY <1>1, <1>2, <1>3, <1>4, <1>6

\* A command is run or skipped.
LEMMA PlainWalk ==
    ASSUME NEW p, NEW w, NEW k, NEW c, NEW r, WalkOK(p, w, k, c, r), k <= Len(p),
           p[k] \notin Marker, NEW r2, Active(c) => r2 = r \cup {k}, ~Active(c) => r2 = r
    PROVE  WalkOK(p, w, k + 1, c, r2)
<1>1. /\ Balanced(p) /\ k \in 1..Len(p) /\ k \in Nat /\ Len(p) \in Nat /\ k + 1 \in Spots(p)
      /\ k \notin r /\ w \in [1..Len(p) -> Saw]
      /\ r \subseteq 1..((k + 1) - 1) /\ r \cup {k} \subseteq 1..((k + 1) - 1)
      /\ \A j \in 1..Len(p) : j >= k + 1 \/ p[j] = "else" => w[j] = "nothing"
  BY WalkTypes
<1>2. r2 \subseteq 1..((k + 1) - 1) /\ (k \in r2 <=> Active(c)) /\ \A j \in 1..(k - 1) : j \in r2 <=> j \in r
  <2>1. k \notin 1..(k - 1)
    BY <1>1
  <2>2. CASE Active(c)
    <3>1. r2 = r \cup {k}
      BY <2>2
    <3> QED
      BY <1>1, <2>1, <2>2, <3>1
  <2>3. CASE ~Active(c)
    <3>1. r2 = r
      BY <2>3
    <3> QED
      BY <1>1, <2>3, <3>1
  <2> QED
    BY <2>2, <2>3
<1>3. ASSUME ~Failed(p, w)
      PROVE  FramesOK(p, w, k + 1, c) /\ RanChosen(p, w, k + 1, r2) /\ Lazy(p, w, k + 1)
  <2>1. FramesOK(p, w, k, c) /\ RanChosen(p, w, k, r) /\ Lazy(p, w, k)
    BY <1>3 DEF WalkOK
  <2>2. SameBefore(k, w, w)
    BY DEF SameBefore
  <2>3. FramesOK(p, w, k + 1, c)
    BY <1>1, <2>1, PlainFrames
  <2>4. Active(c) <=> ReachedIn(p, w, k)
    <3>1. p[k] \notin {"elseif", "else", "end"}
      BY DEF Marker
    <3> QED
      BY <1>1, <2>1, <3>1, ActiveIsReached
  <2>5. RanChosen(p, w, k + 1, r2)
    BY <1>1, <1>2, <2>1, <2>2, <2>4, RanPast
  <2>6. Lazy(p, w, k + 1)
    <3>1. w[k] = "nothing"
      BY WalkTypes
    <3> QED
      BY <1>1, <2>1, <2>2, <3>1, LazyPast
  <2> QED
    BY <2>3, <2>5, <2>6
<1> QED
  BY <1>1, <1>2, <1>3 DEF WalkOK

\* An END.
LEMMA EndWalk ==
    ASSUME NEW p, NEW w, NEW k, NEW c, NEW r, WalkOK(p, w, k, c, r), k <= Len(p), p[k] = "end",
           NEW d, c # <<>> => d = SubSeq(c, 1, Len(c) - 1)
    PROVE  WalkOK(p, w, k + 1, d, r)
<1>1. /\ Balanced(p) /\ k \in 1..Len(p) /\ k \in Nat /\ Len(p) \in Nat /\ k + 1 \in Spots(p)
      /\ w[k] = "nothing" /\ w \in [1..Len(p) -> Saw]
      /\ r \subseteq 1..((k + 1) - 1)
      /\ \A j \in 1..Len(p) : j >= k + 1 \/ p[j] = "else" => w[j] = "nothing"
  BY WalkTypes
<1>3. ASSUME ~Failed(p, w)
      PROVE  FramesOK(p, w, k + 1, d) /\ RanChosen(p, w, k + 1, r) /\ Lazy(p, w, k + 1)
  <2>1. FramesOK(p, w, k, c) /\ RanChosen(p, w, k, r) /\ Lazy(p, w, k)
    BY <1>3 DEF WalkOK
  <2>2. SameBefore(k, w, w)
    BY DEF SameBefore
  <2>3. FramesOK(p, w, k + 1, d)
    BY <1>1, <2>1, EndFrames
  <2>4. p[k] \in Marker
    BY DEF Marker
  <2>5. RanChosen(p, w, k + 1, r)
    BY <1>1, <2>1, <2>2, <2>4, RanPast
  <2>6. Lazy(p, w, k + 1)
    BY <1>1, <2>1, <2>2, LazyPast
  <2> QED
    BY <2>3, <2>5, <2>6
<1> QED
  BY <1>1, <1>3 DEF WalkOK

\* An IF: its frame is pushed unless its condition could not be evaluated.
LEMMA IfWalk ==
    ASSUME NEW p, NEW w, NEW k, NEW c, NEW r, WalkOK(p, w, k, c, r), k <= Len(p), p[k] = "if",
           NEW q \in Saw, q = "nothing" <=> ~Active(c),
           NEW d, q # "error" =>
               d = Append(c, [enclosingActive |-> Active(c),
                              anyMatched |-> q = "true", branchActive |-> q = "true"])
    PROVE  WalkOK(p, [w EXCEPT ![k] = q], k + 1, d, r)
<1> DEFINE v == [w EXCEPT ![k] = q]
<1>1. /\ Balanced(p) /\ k \in 1..Len(p) /\ k \in Nat /\ Len(p) \in Nat /\ k + 1 \in Spots(p)
      /\ w[k] = "nothing" /\ w \in [1..Len(p) -> Saw]
      /\ r \subseteq 1..((k + 1) - 1)
      /\ \A j \in 1..Len(p) : j >= k + 1 \/ p[j] = "else" => w[j] = "nothing"
  BY WalkTypes
<1>2. v \in [1..Len(p) -> Saw] /\ v[k] = q /\ \A j \in 1..Len(p) : j # k => v[j] = w[j]
  BY <1>1
<1>3. ~Failed(p, v) => ~Failed(p, w)
  BY FailedStays
<1> HIDE DEF v
<1>4. \A j \in 1..Len(p) : j >= k + 1 \/ p[j] = "else" => v[j] = "nothing"
  <2>1. \A j \in 1..Len(p) : j >= k + 1 \/ p[j] = "else" => j # k
    BY <1>1
  <2> QED
    BY <1>1, <1>2, <2>1
<1>5. SameBefore(k, w, v)
  BY <1>1, <1>2 DEF SameBefore
<1>6. ASSUME ~Failed(p, v)
      PROVE  FramesOK(p, v, k + 1, d) /\ RanChosen(p, v, k + 1, r) /\ Lazy(p, v, k + 1)
  <2>1. FramesOK(p, w, k, c) /\ RanChosen(p, w, k, r) /\ Lazy(p, w, k)
    BY <1>3, <1>6 DEF WalkOK
  <2>2. q # "error" /\ q \in {"nothing", "true", "false"}
    BY <1>1, <1>2, <1>6 DEF Failed, Saw
  <2> DEFINE t == (q = "true")
             f == [enclosingActive |-> Active(c), anyMatched |-> t, branchActive |-> t]
  <2>3. d = Append(c, f)
    BY <2>2
  <2>4. Active(c) \in BOOLEAN
    <3>1. c \in Seq(Frame)
      BY <2>1 DEF FramesOK
    <3>2. CASE c = <<>>
      BY <3>2 DEF Active
    <3>3. CASE c # <<>>
      <4>1. Len(c) \in 1..Len(c)
        BY <3>1, <3>3, EmptySeq
      <4>2. c[Len(c)] \in Frame
        BY <3>1, <4>1, ElementOfSeq
      <4> QED
        BY <3>3, <4>2 DEF Active, Frame
    <3> QED
      BY <3>2, <3>3
  <2>5. f \in Frame /\ f.enclosingActive = Active(c) /\ f.anyMatched = t /\ f.branchActive = t
    <3>1. t \in BOOLEAN
      OBVIOUS
    <3> HIDE DEF t
    <3> QED
      BY <2>4, <3>1 DEF Frame
  <2> HIDE DEF f
  <2>6. /\ f \in Frame /\ v[k] \in {"nothing", "true", "false"}
        /\ v[k] = "nothing" <=> ~Active(c)
        /\ f.enclosingActive <=> Active(c)
        /\ f.anyMatched <=> v[k] = "true"
        /\ f.branchActive <=> v[k] = "true"
    BY <1>2, <2>2, <2>5
  <2>7. FramesOK(p, v, k + 1, d)
    <3>1. FramesOK(p, v, k + 1, Append(c, f))
      BY <1>1, <1>5, <2>1, <2>6, IfFrames
    <3> QED
      BY <2>3, <3>1
  <2>8. RanChosen(p, v, k + 1, r)
    <3>1. p[k] \in Marker
      BY DEF Marker
    <3> QED
      BY <1>1, <1>5, <2>1, <3>1, RanPast
  <2>9. Lazy(p, v, k + 1)
    <3>1. ASSUME v[k] # "nothing", NEW i \in 1..k, p[i] = "if", k \in HeadersIn(p, i)
          PROVE  ReachedIn(p, w, i) /\ \A g \in HeadersIn(p, i) : g < k => w[g] # "true"
      <4>1. i \in 1..Len(p)
        BY <1>1
      <4>2. i = k
        <5>1. \A g \in HeadersIn(p, i) : g = i \/ p[g] \in {"elseif", "else"}
          BY <1>1, <3>1, <4>1, HeaderFacts
        <5>2. p[k] \notin {"elseif", "else"}
          OBVIOUS
        <5> QED
          BY <3>1, <5>1, <5>2
      <4>3. ReachedIn(p, w, k)
        <5>1. Active(c) <=> ReachedIn(p, w, k)
          BY <1>1, <2>1, ActiveIsReached
        <5> QED
          BY <2>6, <3>1, <5>1
      <4>4. \A g \in HeadersIn(p, k) : ~(g < k)
        <5>1. \A g \in HeadersIn(p, k) : g \in 1..Len(p) /\ (g = k \/ g > k)
          BY <1>1, HeaderFacts
        <5> QED
          BY <1>1, <5>1
      <4> QED
        BY <4>2, <4>3, <4>4
    <3> QED
      BY <1>1, <1>5, <2>1, <3>1, LazyPast
  <2> QED
    BY <2>7, <2>8, <2>9
<1>7. WalkOK(p, v, k + 1, d, r)
  BY <1>1, <1>2, <1>4, <1>6 DEF WalkOK
<1> QED
  BY <1>7 DEF v

\* An ELSE IF or ELSE whose frame is there: the frame moves on to its branch.
LEMMA HeaderWalk ==
    ASSUME NEW p, NEW w, NEW k, NEW c, NEW r, WalkOK(p, w, k, c, r), k <= Len(p),
           p[k] \in {"elseif", "else"}, NEW q \in Saw, NEW d,
           p[k] = "else" => q = "nothing",
           c \in Seq(Frame) /\ c # <<>> =>
               LET f == c[Len(c)]
                   looks == f.enclosingActive /\ ~f.anyMatched
                   taken == IF p[k] = "else" THEN looks ELSE q = "true"
               IN  /\ p[k] = "elseif" => (q = "nothing" <=> ~looks)
                   /\ d = [c EXCEPT ![Len(c)] =
                              [f EXCEPT !.branchActive = taken, !.anyMatched = @ \/ taken]]
    PROVE  WalkOK(p, [w EXCEPT ![k] = q], k + 1, d, r)
<1> DEFINE v == [w EXCEPT ![k] = q]
<1>1. /\ Balanced(p) /\ k \in 1..Len(p) /\ k \in Nat /\ Len(p) \in Nat /\ k + 1 \in Spots(p)
      /\ w[k] = "nothing" /\ w \in [1..Len(p) -> Saw]
      /\ r \subseteq 1..((k + 1) - 1)
      /\ \A j \in 1..Len(p) : j >= k + 1 \/ p[j] = "else" => w[j] = "nothing"
  BY WalkTypes
<1>2. v \in [1..Len(p) -> Saw] /\ v[k] = q /\ \A j \in 1..Len(p) : j # k => v[j] = w[j]
  BY <1>1
<1>3. ~Failed(p, v) => ~Failed(p, w)
  BY FailedStays
<1> HIDE DEF v
<1>4. \A j \in 1..Len(p) : j >= k + 1 \/ p[j] = "else" => v[j] = "nothing"
  <2>1. \A j \in 1..Len(p) : j >= k + 1 => j # k
    BY <1>1
  <2>2. p[k] = "else" => v[k] = "nothing"
    BY <1>2
  <2> QED
    BY <1>1, <1>2, <2>1, <2>2
<1>5. SameBefore(k, w, v)
  BY <1>1, <1>2 DEF SameBefore
<1>6. ASSUME ~Failed(p, v)
      PROVE  FramesOK(p, v, k + 1, d) /\ RanChosen(p, v, k + 1, r) /\ Lazy(p, v, k + 1)
  <2>1. FramesOK(p, w, k, c) /\ RanChosen(p, w, k, r) /\ Lazy(p, w, k)
    BY <1>3, <1>6 DEF WalkOK
  <2>2. /\ c # <<>> /\ c[Len(c)] \in Frame /\ c \in Seq(Frame)
        /\ \A i \in 1..Len(p) : p[i] = "if" /\ k \in HeadersIn(p, i) =>
              i \in Opens(p, k) /\ FrameOK(p, w, k, i, c[Len(c)])
    BY <1>1, <2>1, TopFrame DEF FramesOK
  <2>3. PICK f \in Frame : f = c[Len(c)]
    BY <2>2
  <2>4. PICK looks \in BOOLEAN : looks = (f.enclosingActive /\ ~f.anyMatched)
    OBVIOUS
  <2>5. PICK taken \in BOOLEAN : taken = (IF p[k] = "else" THEN looks ELSE q = "true")
    OBVIOUS
  <2>6. PICK f2 : f2 = [f EXCEPT !.branchActive = taken, !.anyMatched = @ \/ taken]
    OBVIOUS
  <2>7. d = [c EXCEPT ![Len(c)] = f2] /\ (p[k] = "elseif" => (q = "nothing" <=> ~looks))
    BY <2>2, <2>3, <2>4, <2>5, <2>6
  <2>8. /\ f.enclosingActive \in BOOLEAN /\ f.anyMatched \in BOOLEAN /\ f.branchActive \in BOOLEAN
        /\ f2 \in Frame /\ f2.enclosingActive = f.enclosingActive /\ f2.branchActive = taken
        /\ f2.anyMatched = (f.anyMatched \/ taken)
    <3>1. f.enclosingActive \in BOOLEAN /\ f.anyMatched \in BOOLEAN /\ f.branchActive \in BOOLEAN
          /\ (f.anyMatched \/ taken) \in BOOLEAN
      BY DEF Frame
    <3>2. PICK any \in BOOLEAN : any = (f.anyMatched \/ taken)
      BY <3>1
    <3>3. f2 = [f EXCEPT !.branchActive = taken, !.anyMatched = any]
      BY <2>6, <3>2
    <3>4. f2 \in Frame /\ f2.enclosingActive = f.enclosingActive /\ f2.branchActive = taken
          /\ f2.anyMatched = any
      BY <3>3 DEF Frame
    <3> QED
      BY <3>1, <3>2, <3>4
  <2>9. q \in {"false", "error"} <=> (q # "nothing" /\ q # "true")
    BY DEF Saw
  <2>10. p[k] = "else" \/ p[k] = "elseif"
    OBVIOUS
  <2>11. p[k] = "else" => q # "true" /\ q \notin {"false", "error"} /\ q = "nothing"
    OBVIOUS
  <2>12. p[k] = "elseif" => p[k] # "else"
    OBVIOUS
  <2>13. q = "true" => q # "nothing"
    OBVIOUS
  <2>14. taken <=> ((p[k] = "else" \/ q = "true") /\ looks)
    <3>1. CASE p[k] = "else"
      BY <2>5, <3>1, Zenon
    <3>2. CASE p[k] = "elseif"
      <4>1. taken = (q = "true")
        BY <2>5, <3>2
      <4>2. q = "true" => looks
        BY <2>7, <2>13, <3>2
      <4> QED
        BY <2>12, <3>2, <4>1, <4>2, Zenon
    <3> QED
      BY <2>10, <3>1, <3>2
  <2>15. (looks /\ ~taken) <=> (looks /\ q \in {"false", "error"})
    <3>1. CASE p[k] = "else"
      BY <2>11, <2>14, <3>1, Zenon
    <3>2. CASE p[k] = "elseif"
      BY <2>7, <2>9, <2>12, <2>14, <3>2, Zenon
    <3> QED
      BY <2>10, <3>1, <3>2
  <2>16. /\ f2.enclosingActive <=> f.enclosingActive
         /\ f2.branchActive <=> ((p[k] = "else" \/ v[k] = "true")
                                    /\ f.enclosingActive /\ ~f.anyMatched)
         /\ (f2.enclosingActive /\ ~f2.anyMatched)
                <=> (f.enclosingActive /\ ~f.anyMatched /\ v[k] \in {"false", "error"})
    BY <1>2, <2>4, <2>8, <2>14, <2>15, Zenon
  <2>17. FramesOK(p, v, k + 1, d)
    <3>1. FramesOK(p, v, k + 1, [c EXCEPT ![Len(c)] = f2])
      BY <1>1, <1>5, <2>1, <2>3, <2>8, <2>16, HeaderFrames
    <3> QED
      BY <2>7, <3>1
  <2>18. RanChosen(p, v, k + 1, r)
    <3>1. p[k] \in Marker
      BY DEF Marker
    <3> QED
      BY <1>1, <1>5, <2>1, <3>1, RanPast
  <2>19. Lazy(p, v, k + 1)
    <3>1. ASSUME v[k] # "nothing", p[k] # "else", NEW i \in 1..k, p[i] = "if", k \in HeadersIn(p, i)
          PROVE  ReachedIn(p, w, i) /\ \A g \in HeadersIn(p, i) : g < k => w[g] # "true"
      <4>1. i \in 1..Len(p)
        BY <1>1
      <4>2. FrameOK(p, w, k, i, f)
        BY <2>2, <2>3, <3>1, <4>1
      <4>3. looks
        BY <1>2, <2>7, <2>10, <3>1
      <4>4. ReachedIn(p, w, i) /\ Unmatched(p, w, i, k)
        BY <2>4, <4>2, <4>3, Zenon DEF FrameOK
      <4> QED
        BY <4>4 DEF Unmatched
    <3> QED
      BY <1>1, <1>5, <2>1, <3>1, LazyPast
  <2> QED
    BY <2>17, <2>18, <2>19
<1>7. WalkOK(p, v, k + 1, d, r)
  BY <1>1, <1>2, <1>4, <1>6 DEF WalkOK
<1> QED
  BY <1>7 DEF v

-----------------------------------------------------------------------------
(* The invariant of a recipe's parse and run.                              *)

\* A file that was entered is balanced, and the activation is inside it.
ReadOK(src, a) == Balanced(src[a.file]) /\ a.at <= Len(src[a.file]) + 1

\* What was copied so far has open exactly what is open in the files around.
InlineOK(src, inc, p) ==
    /\ p \in Seq(Statement)
    /\ \A i \in 1..Len(inc) : ReadOK(src, inc[i])
    /\ \E B : Under(src, inc, B) /\ Flow(p) = [ok |-> TRUE, stack |-> B[Len(inc)]]

Inlining ==
    phase = "parse" =>
        /\ InlineOK(source, includes, stmts)
        /\ pc = 1 /\ condStack = <<>> /\ ran = {}

Walk == phase = "run" => WalkOK(stmts, saw, pc, condStack, ran)

RecipeInv == IncludeInv /\ Inlining /\ Walk

\* A balanced file at an activation.
LEMMA ReadFacts ==
    ASSUME NEW src, NEW a \in Activation, ReadOK(src, a)
    PROVE  /\ src[a.file] \in Seq(Statement) /\ Len(src[a.file]) \in Nat
           /\ a.at \in 1..(Len(src[a.file]) + 1) /\ a.at - 1 \in 0..Len(src[a.file])
           /\ FlowAt(src[a.file], a.at - 1) \in FlowState
           /\ FlowAt(src[a.file], a.at - 1).stack \in Seq(BOOLEAN)
<1>1. a.at \in Nat \ {0}
  BY DEF Activation
<1>2. /\ src[a.file] \in Seq(Statement) /\ Len(src[a.file]) \in Nat
      /\ \A k \in 0..Len(src[a.file]) : FlowAt(src[a.file], k) \in FlowState
  BY BalancedFlow DEF ReadOK
<1>3. a.at \in 1..(Len(src[a.file]) + 1) /\ a.at - 1 \in 0..Len(src[a.file])
  BY <1>1, <1>2 DEF ReadOK
<1> QED
  BY <1>2, <1>3 DEF FlowState

\* The innermost activation goes to the next statement of its file.
LEMMA PastMore ==
    ASSUME NEW s \in Seq(Activation), s # <<>>
    PROVE  LET past == [s EXCEPT ![Len(s)].at = @ + 1] IN
           /\ \A i \in 1..(Len(s) - 1) : past[i] = s[i]
           /\ past[Len(s)].file = s[Len(s)].file /\ past[Len(s)].at = s[Len(s)].at + 1
<1>1. Len(s) \in DOMAIN s /\ DOMAIN s = 1..Len(s) /\ Len(s) \in Nat \ {0}
  BY EmptySeq, LenProperties
<1>2. s[Len(s)] \in Activation
  BY <1>1, ElementOfSeq
<1> DEFINE b == [s[Len(s)] EXCEPT !.at = @ + 1]
<1>3. b.file = s[Len(s)].file /\ b.at = s[Len(s)].at + 1 /\ b \in Activation
  BY <1>2 DEF Activation
<1>4. [s EXCEPT ![Len(s)].at = @ + 1] = [s EXCEPT ![Len(s)] = b]
  OBVIOUS
<1> HIDE DEF b
<1>5. [s EXCEPT ![Len(s)] = b][Len(s)] = b /\ \A i \in 1..(Len(s) - 1) : [s EXCEPT ![Len(s)] = b][i] = s[i]
  <2>2. Len(s) \in Nat
    BY <1>1
  <2>1. \A i \in 1..(Len(s) - 1) : i \in 1..Len(s) /\ i # Len(s)
    BY <2>2
  <2> QED
    BY <1>1, <1>3, <2>1, ExceptSeq
<1> QED
  BY <1>3, <1>4, <1>5

\* A statement that is no include is copied.
LEMMA CopyInlines ==
    ASSUME NEW src, NEW inc \in Seq(Activation), inc # <<>>, NEW p, InlineOK(src, inc, p),
           NEW st \in Statement, inc[Len(inc)].at <= Len(src[inc[Len(inc)].file]),
           st = src[inc[Len(inc)].file][inc[Len(inc)].at],
           NEW past \in Seq(Activation), Len(past) = Len(inc),
           \A i \in 1..(Len(inc) - 1) : past[i] = inc[i],
           past[Len(inc)].file = inc[Len(inc)].file, past[Len(inc)].at = inc[Len(inc)].at + 1
    PROVE  /\ InlineOK(src, past, Append(p, st))
           /\ st \notin Marker => InlineOK(src, past, p)
<1>1. PICK d : d = Len(inc)
  OBVIOUS
<1>2. d \in Nat /\ d > 0 /\ d \in 1..d /\ d = Len(inc)
  BY <1>1, EmptySeq
<1>3. PICK a \in Activation : a = inc[d]
  BY <1>2, ElementOfSeq
<1>4. PICK f : f = src[a.file]
  OBVIOUS
<1>5. past \in Seq(Activation) /\ Len(past) = d
  BY <1>1
<1>6. /\ \A i \in 1..(d - 1) : past[i] = inc[i]
      /\ past[d].file = a.file /\ past[d].at = a.at + 1
  BY <1>1, <1>3
<1>7. ReadOK(src, a)
  BY <1>1, <1>2, <1>3 DEF InlineOK
<1>8. /\ f \in Seq(Statement) /\ Len(f) \in Nat /\ a.at - 1 \in 0..Len(f)
      /\ FlowAt(f, a.at - 1) \in FlowState /\ FlowAt(f, a.at - 1).stack \in Seq(BOOLEAN)
      /\ a.at \in 1..(Len(f) + 1)
  BY <1>4, <1>7, ReadFacts
<1>9. a.at \in 1..Len(f) /\ a.at \in 0..Len(f) /\ (a.at + 1) - 1 = a.at /\ st = f[a.at]
  BY <1>1, <1>3, <1>4, <1>8
<1>10. /\ FlowAt(f, a.at) = Validate(FlowAt(f, a.at - 1), st)
       /\ FlowAt(f, a.at).ok /\ FlowAt(f, a.at) \in FlowState
  <2>1. FlowAt(f, a.at) = Validate(FlowAt(f, a.at - 1), st)
    BY <1>8, <1>9, FlowAtFacts
  <2>2. Balanced(f)
    BY <1>4, <1>7 DEF ReadOK
  <2> QED
    BY <1>9, <2>1, <2>2, BalancedFlow
<1>11. OpenIn(src, past[d]) = FlowAt(f, a.at).stack /\ OpenIn(src, a) = FlowAt(f, a.at - 1).stack
  BY <1>4, <1>6, <1>9 DEF OpenIn
<1>12. FlowAt(f, a.at).stack \in Seq(BOOLEAN)
  BY <1>10 DEF FlowState
<1>13. \A i \in 1..Len(past) : ReadOK(src, past[i])
  <2>1. ASSUME NEW i \in 1..d PROVE ReadOK(src, past[i])
    <3>1. CASE i = d
      <4>2. a.at + 1 <= Len(f) + 1
        BY <1>8, <1>9
      <4>3. past[i].file = a.file /\ past[i].at = a.at + 1
        BY <1>6, <3>1
      <4>1. past[i].file = a.file /\ past[i].at <= Len(src[past[i].file]) + 1
        BY <1>4, <4>2, <4>3
      <4> QED
        BY <1>7, <4>1 DEF ReadOK
    <3>2. CASE i # d
      <4>1. past[i] = inc[i] /\ i \in 1..Len(inc)
        BY <1>2, <1>6, <3>2
      <4> QED
        BY <4>1 DEF InlineOK
    <3> QED
      BY <3>1, <3>2
  <2> QED
    BY <1>5, <2>1
<1>14. PICK B : Under(src, inc, B) /\ Flow(p) = [ok |-> TRUE, stack |-> B[d]]
  BY <1>1 DEF InlineOK
<1>15. B[d - 1] \in Seq(BOOLEAN)
       /\ \E C : Under(src, past, C) /\ C[Len(past)] = B[d - 1] \o FlowAt(f, a.at).stack
  <2>1. OpenIn(src, past[d]) \in Seq(BOOLEAN)
    BY <1>11, <1>12
  <2>2. /\ Len(inc) > 0 /\ Len(past) = Len(inc)
        /\ \A i \in 1..(Len(inc) - 1) : past[i] = inc[i]
        /\ OpenIn(src, past[Len(inc)]) \in Seq(BOOLEAN)
    BY <1>2, <1>5, <1>6, <2>1
  <2>3. PICK new : new = B[Len(inc) - 1] \o OpenIn(src, past[Len(inc)])
    OBVIOUS
  <2>4. B[Len(inc) - 1] \in Seq(BOOLEAN) /\ \E C : Under(src, past, C) /\ C[Len(past)] = new
    <3>1. Moved(src, inc, past, B, new)
      BY <1>5, <1>14, <2>2, <2>3 DEF Moved
    <3> QED
      BY <3>1, UnderMoves
  <2> QED
    BY <1>2, <1>11, <2>3, <2>4
<1>16. PICK C : Under(src, past, C) /\ C[Len(past)] = B[d - 1] \o FlowAt(f, a.at).stack
  BY <1>15
<1>17. B[d] = B[d - 1] \o FlowAt(f, a.at - 1).stack
  BY <1>2, <1>3, <1>11, <1>14 DEF Under
<1>18. p \in Seq(Statement)
  BY DEF InlineOK
<1>19. Flow(Append(p, st)) = [ok |-> TRUE, stack |-> C[Len(past)]] /\ Append(p, st) \in Seq(Statement)
  <2>1. Flow(Append(p, st)) = Validate(Flow(p), st) /\ Append(p, st) \in Seq(Statement)
    BY <1>18, FlowAppend
  <2>2. PICK acc \in FlowState : acc = FlowAt(f, a.at - 1)
    BY <1>8
  <2>3. PICK D \in Seq(BOOLEAN) : D = B[d - 1]
    BY <1>15
  <2>4. Validate(acc, st).ok
    BY <1>10, <2>2
  <2>5. Validate([ok |-> TRUE, stack |-> D \o acc.stack], st)
            = [ok |-> TRUE, stack |-> D \o Validate(acc, st).stack]
    BY <2>4, ValidUnder
  <2> QED
    BY <1>10, <1>14, <1>16, <1>17, <2>1, <2>2, <2>3, <2>5
<1>20. InlineOK(src, past, Append(p, st))
  BY <1>13, <1>16, <1>19 DEF InlineOK
<1>21. ASSUME st \notin Marker PROVE InlineOK(src, past, p)
  <2>1. FlowAt(f, a.at).stack = FlowAt(f, a.at - 1).stack
    <3>1. PICK acc \in FlowState : acc = FlowAt(f, a.at - 1)
      BY <1>8
    <3>2. Validate(acc, st).ok
      BY <1>10, <3>1
    <3>3. Validate(acc, st).stack = acc.stack
      BY <1>21, <3>2, ValidOK
    <3> QED
      BY <1>10, <3>1, <3>3
  <2>2. Flow(p) = [ok |-> TRUE, stack |-> C[Len(past)]]
    BY <1>14, <1>16, <1>17, <2>1
  <2> QED
    BY <1>13, <1>16, <1>18, <2>2 DEF InlineOK
<1> QED
  BY <1>20, <1>21

\* A balanced file is entered.
LEMMA EnterInlines ==
    ASSUME NEW src, NEW inc \in Seq(Activation), NEW p, InlineOK(src, inc, p),
           NEW g \in File, Balanced(src[g])
    PROVE  InlineOK(src, Append(inc, [file |-> g, at |-> 1]), p)
<1>1. PICK a : a = [file |-> g, at |-> 1]
  OBVIOUS
<1>2. a \in Activation /\ a.file = g /\ a.at = 1 /\ a.at - 1 = 0
  BY <1>1 DEF Activation
<1>3. src[g] \in Seq(Statement) /\ Len(src[g]) \in Nat
  BY BalancedFlow
<1>4. ReadOK(src, a)
  BY <1>2, <1>3 DEF ReadOK
<1>5. OpenIn(src, a) = <<>>
  <2>1. FlowAt(src[g], 0) = FlowStart
    BY <1>3, FlowAtFacts
  <2> QED
    BY <1>2, <2>1 DEF OpenIn, FlowStart
<1>6. PICK B : Under(src, inc, B) /\ Flow(p) = [ok |-> TRUE, stack |-> B[Len(inc)]]
  BY DEF InlineOK
<1>7. PICK t : t = Append(inc, a)
  OBVIOUS
<1>8. Len(inc) \in Nat /\ Len(t) = Len(inc) + 1 /\ t[Len(inc) + 1] = a /\ \A i \in 1..Len(inc) : t[i] = inc[i]
  BY <1>2, <1>7, AppendProperties, LenProperties
<1>9. \A i \in 1..Len(t) : ReadOK(src, t[i])
  <2>1. ASSUME NEW i \in 1..Len(t) PROVE ReadOK(src, t[i])
    <3>1. CASE i = Len(inc) + 1
      BY <1>4, <1>8, <3>1
    <3>2. CASE i # Len(inc) + 1
      <4>1. i \in 1..Len(inc) /\ t[i] = inc[i]
        BY <1>8, <3>2
      <4> QED
        BY <4>1 DEF InlineOK
    <3> QED
      BY <3>1, <3>2
  <2> QED
    BY <2>1
<1>10. \E C : Under(src, t, C) /\ C[Len(t)] = B[Len(inc)]
  BY <1>2, <1>5, <1>6, <1>7, UnderEnters
<1>11. InlineOK(src, t, p)
  BY <1>6, <1>9, <1>10 DEF InlineOK
<1> QED
  BY <1>1, <1>7, <1>11

\* A file that was read to its end is left: its blocks are closed.
LEMMA LeaveInlines ==
    ASSUME NEW src, NEW inc \in Seq(Activation), inc # <<>>, NEW p, InlineOK(src, inc, p),
           inc[Len(inc)].at > Len(src[inc[Len(inc)].file])
    PROVE  InlineOK(src, SubSeq(inc, 1, Len(inc) - 1), p)
<1>1. PICK d : d = Len(inc)
  OBVIOUS
<1>2. d \in Nat /\ d > 0 /\ d \in 1..d /\ d = Len(inc) /\ d - 1 \in 0..Len(inc)
  BY <1>1, EmptySeq
<1>3. PICK a \in Activation : a = inc[d]
  BY <1>2, ElementOfSeq
<1>4. PICK f : f = src[a.file]
  OBVIOUS
<1>5. ReadOK(src, a)
  BY <1>1, <1>2, <1>3 DEF InlineOK
<1>6. Len(f) \in Nat /\ a.at \in 1..(Len(f) + 1) /\ f \in Seq(Statement)
  BY <1>4, <1>5, ReadFacts
<1>7. a.at - 1 = Len(f)
  BY <1>1, <1>3, <1>4, <1>6
<1>8. OpenIn(src, a) = <<>>
  <2>1. Balanced(f)
    BY <1>4, <1>5 DEF ReadOK
  <2>2. Flow(f) = [ok |-> TRUE, stack |-> <<>>] /\ FlowAt(f, Len(f)) = Flow(f)
    BY <1>6, <2>1, BalancedFlow, FlowAtFacts
  <2> QED
    BY <1>4, <1>7, <2>2 DEF OpenIn
<1>9. PICK B : Under(src, inc, B) /\ Flow(p) = [ok |-> TRUE, stack |-> B[d]]
  BY <1>1 DEF InlineOK
<1>10. PICK t : t = SubSeq(inc, 1, d - 1)
  OBVIOUS
<1>11. Len(t) = d - 1 /\ \A i \in 1..(d - 1) : t[i] = inc[i]
  BY <1>2, <1>10, PrefixFacts
<1>12. \A i \in 1..Len(t) : ReadOK(src, t[i])
  <2>1. \A i \in 1..(d - 1) : i \in 1..Len(inc)
    BY <1>2
  <2> QED
    BY <1>11, <2>1 DEF InlineOK
<1>13. \E C : Under(src, t, C) /\ C[Len(t)] = B[d]
  BY <1>2, <1>3, <1>8, <1>9, <1>10, UnderLeaves
<1>14. InlineOK(src, t, p)
  BY <1>9, <1>12, <1>13 DEF InlineOK
<1> QED
  BY <1>1, <1>10, <1>14

\* The operators of the model are the ones reasoned about here.
LEMMA BlocksAre ==
    /\ \A i : Headers(i) = HeadersIn(stmts, i)
    /\ \A k : Reached(k) <=> ReachedIn(stmts, saw, k)
    /\ CondActive <=> Active(condStack)
<1>1. \A i : Headers(i) = HeadersIn(stmts, i)
  BY DEF Headers, HeadersIn, EndOf, EndIn, Count, CountIn
<1>2. \A k : Reached(k) <=> ReachedIn(stmts, saw, k)
  BY DEF Reached, ReachedIn, Chosen, ChosenIn, BranchOf, BranchIn, Around, AroundIn, Headers,
         HeadersIn, EndOf, EndIn, Count, CountIn
<1>3. CondActive <=> Active(condStack)
  BY DEF CondActive, Active
<1> QED
  BY <1>1, <1>2, <1>3

\* Before anything is parsed.
LEMMA RecipeStarts == RecipeInit => RecipeInv
<1> SUFFICES ASSUME RecipeInit PROVE RecipeInv
  OBVIOUS
<1>1. IncludeInv
  BY IncludeInit
<1>2. Walk
  BY DEF RecipeInit, Walk
<1>3. includes = <<>> /\ stmts = <<>> /\ pc = 1 /\ condStack = <<>> /\ ran = {}
  BY DEF RecipeInit
<1>4. InlineOK(source, <<>>, <<>>)
  <2>1. <<>> \in Seq(Statement) /\ Len(<<>>) = 0
    BY EmptySeq
  <2> DEFINE B == [i \in 0..0 |-> <<>>]
  <2>2. B \in [0..0 -> Seq(BOOLEAN)] /\ B[0] = <<>>
    BY EmptySeq
  <2>3. Under(source, <<>>, B)
    BY <2>1, <2>2 DEF Under
  <2>4. Flow(<<>>) = [ok |-> TRUE, stack |-> B[Len(<<>>)]]
    BY <2>1, <2>2, FlowEmpty DEF FlowStart
  <2> HIDE DEF B
  <2>5. \A i \in 1..Len(<<>>) : ReadOK(source, <<>>[i])
    BY <2>1
  <2> QED
    BY <2>1, <2>3, <2>4, <2>5 DEF InlineOK
<1> QED
  BY <1>1, <1>2, <1>3, <1>4 DEF RecipeInv, Inlining

\* A file that parseFile accepts is balanced.
LEMMA ParsedIsBalanced ==
    ASSUME IncludeInv, NEW f \in File, ParseFile(f)
    PROVE  Balanced(source[f])
<1>1. source \in [File -> Seq(Statement)]
  BY RecipeAssumption DEF IncludeInv, WalkType
<1> QED
  BY <1>1 DEF ParseFile, Balanced

\* Parse.
LEMMA ParseKeeps == RecipeInv /\ Parse => Inlining' /\ Walk'
<1> SUFFICES ASSUME RecipeInv, Parse PROVE Inlining' /\ Walk'
  OBVIOUS
<1>1. /\ phase = "parse" /\ includes = <<>> /\ source' = source /\ stmts' = stmts
      /\ pc' = pc /\ condStack' = condStack /\ ran' = ran
  BY DEF Parse, runVars
<1>2. CASE ~ParseFile(Top)
  BY <1>2 DEF Parse, Inlining, Walk
<1>3. CASE ParseFile(Top)
  <2>1. includes' = <<[file |-> Top, at |-> 1]>> /\ phase' = phase
    BY <1>3 DEF Parse
  <2>2. InlineOK(source, <<>>, stmts) /\ pc = 1 /\ condStack = <<>> /\ ran = {}
    BY <1>1 DEF RecipeInv, Inlining
  <2>3. Top \in File
    BY RecipeAssumption
  <2>4. Balanced(source[Top])
    BY <1>3, <2>3, ParsedIsBalanced DEF RecipeInv
  <2>5. <<>> \in Seq(Activation)
    BY EmptySeq
  <2>6. InlineOK(source, Append(<<>>, [file |-> Top, at |-> 1]), stmts)
    BY <2>2, <2>3, <2>4, <2>5, EnterInlines
  <2>7. Append(<<>>, [file |-> Top, at |-> 1]) = <<[file |-> Top, at |-> 1]>>
    OBVIOUS
  <2> QED
    BY <1>1, <2>1, <2>2, <2>6, <2>7 DEF Inlining, Walk
<1> QED
  BY <1>2, <1>3

\* A statement is copied, or a file entered.
LEMMA ResolveKeeps == RecipeInv /\ ResolveIncludes => Inlining' /\ Walk'
<1> SUFFICES ASSUME RecipeInv, ResolveIncludes PROVE Inlining' /\ Walk'
  OBVIOUS
<1>1. PICK inc, src, p : inc = includes /\ src = source /\ p = stmts
  OBVIOUS
<1>2. PICK st : st = src[inc[Len(inc)].file][inc[Len(inc)].at]
  OBVIOUS
<1>3. PICK past : past = [inc EXCEPT ![Len(inc)].at = @ + 1]
  OBVIOUS
<1>4. /\ phase = "parse" /\ source' = src
      /\ pc' = pc /\ condStack' = condStack /\ ran' = ran
      /\ inc # <<>> /\ inc[Len(inc)].at <= Len(src[inc[Len(inc)].file])
  <2>1. Len(inc) > 0
    BY <1>1 DEF ResolveIncludes
  <2> QED
    BY <1>1, <2>1, EmptySeq DEF ResolveIncludes, runVars
<1>5. \/ st \notin File /\ stmts' = Append(p, st) /\ includes' = past /\ phase' = phase
      \/ /\ st \in File /\ ParseFile(st)
         /\ includes' = Append(past, [file |-> st, at |-> 1])
         /\ phase' = phase /\ stmts' = p
      \/ phase' = "error"
  BY <1>1, <1>2, <1>3 DEF ResolveIncludes
<1>6. inc \in Seq(Activation)
  BY <1>1 DEF RecipeInv, IncludeInv, WalkType
<1>7. InlineOK(src, inc, p) /\ pc = 1 /\ condStack = <<>> /\ ran = {}
  BY <1>1, <1>4 DEF RecipeInv, Inlining
<1>8. /\ past \in Seq(Activation) /\ Len(past) = Len(inc)
      /\ \A i \in 1..(Len(inc) - 1) : past[i] = inc[i]
      /\ past[Len(inc)].file = inc[Len(inc)].file /\ past[Len(inc)].at = inc[Len(inc)].at + 1
  BY <1>3, <1>4, <1>6, PastFacts, PastMore
<1>9. st \in Statement
  <2>1. Len(inc) \in 1..Len(inc)
    BY <1>4, <1>6, EmptySeq
  <2>2. inc[Len(inc)] \in Activation /\ ReadOK(src, inc[Len(inc)])
    BY <1>6, <1>7, <2>1, ElementOfSeq DEF InlineOK
  <2>3. PICK a \in Activation : a = inc[Len(inc)]
    BY <2>2
  <2>4. src[a.file] \in Seq(Statement) /\ a.at \in 1..(Len(src[a.file]) + 1) /\ Len(src[a.file]) \in Nat
    BY <2>2, <2>3, ReadFacts
  <2>5. a.at \in 1..Len(src[a.file])
    BY <1>4, <2>3, <2>4
  <2> QED
    BY <1>2, <2>3, <2>4, <2>5, ElementOfSeq
<1>10. InlineOK(src, past, Append(p, st)) /\ (st \notin Marker => InlineOK(src, past, p))
  BY <1>2, <1>4, <1>6, <1>7, <1>8, <1>9, CopyInlines
<1>11. CASE stmts' = Append(p, st) /\ includes' = past /\ phase' = phase
  BY <1>4, <1>7, <1>10, <1>11 DEF Inlining, Walk
<1>12. CASE /\ st \in File /\ ParseFile(st)
            /\ includes' = Append(past, [file |-> st, at |-> 1])
            /\ phase' = phase /\ stmts' = p
  <2>1. st \notin Marker
    BY <1>12, RecipeAssumption
  <2>2. Balanced(src[st])
    BY <1>1, <1>12, ParsedIsBalanced DEF RecipeInv
  <2>3. InlineOK(src, Append(past, [file |-> st, at |-> 1]), p)
    BY <1>8, <1>10, <1>12, <2>1, <2>2, EnterInlines
  <2> QED
    BY <1>4, <1>7, <1>12, <2>3 DEF Inlining, Walk
<1>13. CASE phase' = "error"
  BY <1>13 DEF Inlining, Walk
<1> QED
  BY <1>5, <1>11, <1>12, <1>13

\* An activation returns; the outermost one hands balanced statements to Run.
LEMMA DoneKeeps == RecipeInv /\ IncludeDone => Inlining' /\ Walk'
<1> SUFFICES ASSUME RecipeInv, IncludeDone PROVE Inlining' /\ Walk'
  OBVIOUS
<1>1. PICK inc, src, p : inc = includes /\ src = source /\ p = stmts
  OBVIOUS
<1>2. PICK t : t = SubSeq(inc, 1, Len(inc) - 1)
  OBVIOUS
<1>3. /\ phase = "parse" /\ source' = src /\ stmts' = p /\ includes' = t
      /\ pc' = pc /\ condStack' = condStack /\ ran' = ran
      /\ inc # <<>> /\ inc[Len(inc)].at > Len(src[inc[Len(inc)].file])
  <2>1. Len(inc) > 0
    BY <1>1 DEF IncludeDone
  <2> QED
    BY <1>1, <1>2, <2>1, EmptySeq DEF IncludeDone
<1>4. inc \in Seq(Activation) /\ Len(inc) \in Nat /\ Len(inc) > 0
  <2>1. inc \in Seq(Activation)
    BY <1>1 DEF RecipeInv, IncludeInv, WalkType
  <2> QED
    BY <1>3, <2>1, EmptySeq
<1>5. InlineOK(src, inc, p) /\ pc = 1 /\ condStack = <<>> /\ ran = {}
  BY <1>1, <1>3 DEF RecipeInv, Inlining
<1>6. InlineOK(src, t, p)
  BY <1>2, <1>3, <1>4, <1>5, LeaveInlines
<1>7. CASE Len(inc) > 1
  <2>1. phase' = phase
    BY <1>1, <1>7 DEF IncludeDone
  <2> QED
    BY <1>3, <1>5, <1>6, <2>1 DEF Inlining, Walk
<1>8. CASE Len(inc) = 1
  <2>1. phase' = "run" /\ saw' = [i \in DOMAIN p |-> "nothing"]
    BY <1>1, <1>8 DEF IncludeDone
  <2>2. Len(t) = 0
    <3>1. Len(inc) - 1 \in 0..Len(inc)
      BY <1>4
    <3> QED
      BY <1>2, <1>4, <1>8, <3>1, PrefixFacts
  <2>3. p \in Seq(Statement) /\ DOMAIN p = 1..Len(p) /\ Len(p) \in Nat
    BY <1>6, LenProperties DEF InlineOK
  <2>4. Flow(p) = [ok |-> TRUE, stack |-> <<>>]
    BY <1>6, <2>2 DEF InlineOK, Under
  <2>5. Balanced(p)
    BY <2>3, <2>4 DEF Balanced, ControlFlowOK, Flow, FlowStart
  <2>6. PICK w : w = [i \in 1..Len(p) |-> "nothing"]
    OBVIOUS
  <2>7. /\ w \in [1..Len(p) -> Saw] /\ \A j \in 1..Len(p) : w[j] = "nothing"
    BY <2>6 DEF Saw
  <2>8. Dep(p, 0) = 0 /\ 1 \in Spots(p)
    BY <2>3, <2>5, Depths DEF Spots
  <2>9. FramesOK(p, w, 1, <<>>)
    <3>1. Opens(p, 1) = {}
      BY DEF Opens
    <3>2. 1 - 1 = 0 /\ <<>> \in Seq(Frame) /\ Len(<<>>) = 0
      BY EmptySeq
    <3> QED
      BY <2>8, <3>1, <3>2 DEF FramesOK
  <2>10. RanChosen(p, w, 1, {}) /\ Lazy(p, w, 1)
    BY DEF RanChosen, Lazy
  <2>11. WalkOK(p, w, 1, <<>>, {})
    BY <2>5, <2>7, <2>8, <2>9, <2>10 DEF WalkOK
  <2>12. stmts' = p /\ saw' = w /\ pc' = 1 /\ condStack' = <<>> /\ ran' = {}
    BY <1>3, <1>5, <2>1, <2>3, <2>6
  <2> QED
    BY <2>1, <2>11, <2>12 DEF Inlining, Walk
<1> QED
  BY <1>4, <1>7, <1>8

\* Commands.
LEMMA PlainKeeps == RecipeInv /\ (Skip \/ Execute) => Inlining' /\ Walk'
<1> SUFFICES ASSUME RecipeInv, Skip \/ Execute PROVE Inlining' /\ Walk'
  OBVIOUS
<1>1. /\ phase = "run" /\ pc <= Len(stmts) /\ stmts[pc] \notin Marker
      /\ stmts' = stmts /\ saw' = saw /\ condStack' = condStack
      /\ (CondActive => ran' = ran \cup {pc}) /\ (~CondActive => ran' = ran)
      /\ phase' = "error" \/ (phase' = "run" /\ pc' = pc + 1)
  <2>1. CASE Skip
    BY <2>1 DEF Skip, Proceed, parseVars
  <2>2. CASE Execute
    BY <2>2 DEF Execute, Proceed, parseVars
  <2> QED
    BY <2>1, <2>2
<1>2. CASE phase' = "error"
  BY <1>2 DEF Inlining, Walk
<1>3. CASE phase' = "run" /\ pc' = pc + 1
  <2>1. PICK p, w, k, c, r, r2 : /\ p = stmts /\ w = saw /\ k = pc /\ c = condStack
                                 /\ r = ran /\ r2 = ran'
    OBVIOUS
  <2>2. WalkOK(p, w, k, c, r) /\ k <= Len(p) /\ p[k] \notin Marker
    BY <1>1, <2>1 DEF RecipeInv, Walk
  <2>3. (Active(c) => r2 = r \cup {k}) /\ (~Active(c) => r2 = r)
    BY <1>1, <2>1, BlocksAre
  <2>4. WalkOK(p, w, k + 1, c, r2)
    BY <2>2, <2>3, PlainWalk
  <2> QED
    BY <1>1, <1>3, <2>1, <2>4 DEF Inlining, Walk
<1> QED
  BY <1>1, <1>2, <1>3

\* IF.
LEMMA IfKeeps == RecipeInv /\ ApplyIf => Inlining' /\ Walk'
<1> SUFFICES ASSUME RecipeInv, ApplyIf PROVE Inlining' /\ Walk'
  OBVIOUS
<1>1. PICK p, w, k, c, r : p = stmts /\ w = saw /\ k = pc /\ c = condStack /\ r = ran
  OBVIOUS
<1>2. PICK q \in IF CondActive THEN EvalCond ELSE {"nothing"} :
          /\ condStack' = IF q = "error" THEN condStack
                          ELSE Push([enclosingActive |-> CondActive,
                                     anyMatched |-> q = "true", branchActive |-> q = "true"])
          /\ saw' = [saw EXCEPT ![pc] = q]
          /\ Proceed(q = "error")
  BY DEF ApplyIf
<1>3. PICK d : d = condStack'
  OBVIOUS
<1>4. /\ phase = "run" /\ k <= Len(p) /\ p[k] = "if"
      /\ stmts' = p /\ saw' = [w EXCEPT ![k] = q] /\ ran' = r
      /\ phase' = "error" \/ (phase' = "run" /\ pc' = k + 1)
  BY <1>1, <1>2 DEF ApplyIf, Proceed, parseVars
<1>5. q # "error" => d = Append(c, [enclosingActive |-> CondActive,
                                    anyMatched |-> q = "true", branchActive |-> q = "true"])
  BY <1>1, <1>2, <1>3 DEF Push
<1>6. CASE phase' = "error"
  BY <1>6 DEF Inlining, Walk
<1>7. CASE phase' = "run" /\ pc' = k + 1
  <2>1. WalkOK(p, w, k, c, r)
    BY <1>1, <1>4 DEF RecipeInv, Walk
  <2>2. CondActive = Active(c)
    BY <1>1 DEF CondActive, Active
  <2>3. q \in Saw /\ (q = "nothing" <=> ~Active(c))
    <3>1. CASE CondActive
      BY <1>2, <2>2, <3>1 DEF Saw, EvalCond
    <3>2. CASE ~CondActive
      BY <1>2, <2>2, <3>2 DEF Saw
    <3> QED
      BY <3>1, <3>2
  <2>4. q # "error" => d = Append(c, [enclosingActive |-> Active(c),
                                      anyMatched |-> q = "true", branchActive |-> q = "true"])
    BY <1>5, <2>2
  <2>5. WalkOK(p, [w EXCEPT ![k] = q], k + 1, d, r)
    BY <1>4, <2>1, <2>3, <2>4, IfWalk
  <2> QED
    BY <1>3, <1>4, <1>7, <2>5 DEF Inlining, Walk
<1> QED
  BY <1>4, <1>6, <1>7

\* ELSE IF.
LEMMA ElseIfKeeps == RecipeInv /\ ApplyElseIf => Inlining' /\ Walk'
<1> SUFFICES ASSUME RecipeInv, ApplyElseIf PROVE Inlining' /\ Walk'
  OBVIOUS
<1>1. PICK p, w, k, c, r : p = stmts /\ w = saw /\ k = pc /\ c = condStack /\ r = ran
  OBVIOUS
<1>2. PICK f : f = c[Len(c)]
  OBVIOUS
<1>3. PICK looks : looks = (f.enclosingActive /\ ~f.anyMatched)
  OBVIOUS
<1>4. PICK q : IF c = <<>> THEN q = "nothing" /\ saw' = saw /\ Proceed(TRUE)
               ELSE /\ q \in IF ElseIfLooks(f) THEN EvalCond ELSE {"nothing"}
                    /\ condStack' = SetTop(ElseIfFrame(f, q))
                    /\ saw' = [saw EXCEPT ![pc] = q]
                    /\ Proceed(q = "error")
  <2>1. CASE c = <<>>
    BY <1>1, <2>1 DEF ApplyElseIf
  <2>2. CASE c # <<>>
    BY <1>1, <1>2, <2>2 DEF ApplyElseIf
  <2> QED
    BY <2>1, <2>2
<1>5. PICK d : d = condStack'
  OBVIOUS
<1>6. /\ phase = "run" /\ k <= Len(p) /\ p[k] = "elseif"
      /\ stmts' = p /\ ran' = r
      /\ phase' = "error" \/ (phase' = "run" /\ pc' = k + 1)
      /\ (c = <<>> => saw' = w) /\ (c # <<>> => saw' = [w EXCEPT ![k] = q])
  <2>1. phase = "run" /\ k <= Len(p) /\ p[k] = "elseif" /\ stmts' = p /\ ran' = r
    BY <1>1 DEF ApplyElseIf, parseVars
  <2>2. phase' = "error" \/ (phase' = "run" /\ pc' = k + 1)
    BY <1>1, <1>4, <2>1 DEF Proceed
  <2> QED
    BY <1>1, <1>4, <2>1, <2>2
<1>7. c # <<>> => d = [c EXCEPT ![Len(c)] =
                          [f EXCEPT !.branchActive = (q = "true"), !.anyMatched = @ \/ q = "true"]]
  BY <1>1, <1>4, <1>5 DEF SetTop, ElseIfFrame
<1>8. CASE phase' = "error"
  BY <1>8 DEF Inlining, Walk
<1>9. CASE phase' = "run" /\ pc' = k + 1
  <2>1. WalkOK(p, w, k, c, r)
    BY <1>1, <1>6 DEF RecipeInv, Walk
  <2>2. w[k] = "nothing" /\ w \in [1..Len(p) -> Saw]
    BY <1>6, <2>1, WalkTypes
  <2>3. saw' = [w EXCEPT ![k] = q]
    <3>1. CASE c = <<>>
      BY <1>4, <1>6, <2>2, <3>1
    <3>2. CASE c # <<>>
      BY <1>6, <3>2
    <3> QED
      BY <3>1, <3>2
  <2>4. q \in Saw
    BY <1>4 DEF Saw, EvalCond
  <2>5. c # <<>> => (q = "nothing" <=> ~looks)
    <3>1. ASSUME c # <<>>, looks PROVE q # "nothing"
      BY <1>3, <1>4, <3>1 DEF ElseIfLooks, EvalCond
    <3>2. ASSUME c # <<>>, ~looks PROVE q = "nothing"
      BY <1>3, <1>4, <3>2 DEF ElseIfLooks
    <3> QED
      BY <3>1, <3>2
  <2>6. p[k] = "elseif" /\ p[k] # "else"
    BY <1>6
  <2>7. c \in Seq(Frame) /\ c # <<>> =>
            LET fr == c[Len(c)]
                lk == fr.enclosingActive /\ ~fr.anyMatched
                taken == IF p[k] = "else" THEN lk ELSE q = "true"
            IN  /\ p[k] = "elseif" => (q = "nothing" <=> ~lk)
                /\ d = [c EXCEPT ![Len(c)] =
                           [fr EXCEPT !.branchActive = taken, !.anyMatched = @ \/ taken]]
    BY <1>2, <1>3, <1>7, <2>5, <2>6
  <2>8. WalkOK(p, [w EXCEPT ![k] = q], k + 1, d, r)
    BY <1>6, <2>1, <2>4, <2>6, <2>7, HeaderWalk
  <2> QED
    BY <1>5, <1>6, <1>9, <2>3, <2>8 DEF Inlining, Walk
<1> QED
  BY <1>6, <1>8, <1>9

\* ELSE.
LEMMA ElseKeeps == RecipeInv /\ ApplyElse => Inlining' /\ Walk'
<1> SUFFICES ASSUME RecipeInv, ApplyElse PROVE Inlining' /\ Walk'
  OBVIOUS
<1>1. PICK p, w, k, c, r : p = stmts /\ w = saw /\ k = pc /\ c = condStack /\ r = ran
  OBVIOUS
<1>2. PICK f : f = c[Len(c)]
  OBVIOUS
<1>3. PICK looks : looks = (f.enclosingActive /\ ~f.anyMatched)
  OBVIOUS
<1>4. PICK d : d = condStack'
  OBVIOUS
<1>5. /\ phase = "run" /\ k <= Len(p) /\ p[k] = "else"
      /\ stmts' = p /\ ran' = r /\ saw' = w
      /\ phase' = "error" \/ (phase' = "run" /\ pc' = k + 1)
  BY <1>1, <1>2 DEF ApplyElse, Proceed, parseVars
<1>6. c # <<>> => d = [c EXCEPT ![Len(c)] =
                          [f EXCEPT !.branchActive = looks, !.anyMatched = @ \/ looks]]
  BY <1>1, <1>2, <1>3, <1>4 DEF ApplyElse, ElseTaken, SetTop
<1>7. CASE phase' = "error"
  BY <1>7 DEF Inlining, Walk
<1>8. CASE phase' = "run" /\ pc' = k + 1
  <2>1. WalkOK(p, w, k, c, r)
    BY <1>1, <1>5 DEF RecipeInv, Walk
  <2>2. w[k] = "nothing" /\ w \in [1..Len(p) -> Saw]
    BY <1>5, <2>1, WalkTypes
  <2>3. w = [w EXCEPT ![k] = "nothing"] /\ "nothing" \in Saw
    BY <2>2 DEF Saw
  <2>4. p[k] = "else" /\ p[k] # "elseif"
    BY <1>5
  <2>5. c \in Seq(Frame) /\ c # <<>> =>
            LET fr == c[Len(c)]
                lk == fr.enclosingActive /\ ~fr.anyMatched
                taken == IF p[k] = "else" THEN lk ELSE "nothing" = "true"
            IN  /\ p[k] = "elseif" => ("nothing" = "nothing" <=> ~lk)
                /\ d = [c EXCEPT ![Len(c)] =
                           [fr EXCEPT !.branchActive = taken, !.anyMatched = @ \/ taken]]
    BY <1>2, <1>3, <1>6, <2>4
  <2>6. WalkOK(p, [w EXCEPT ![k] = "nothing"], k + 1, d, r)
    <3>1. PICK q : q = "nothing"
      OBVIOUS
    <3>2. c \in Seq(Frame) /\ c # <<>> =>
            LET fr == c[Len(c)]
                lk == fr.enclosingActive /\ ~fr.anyMatched
                taken == IF p[k] = "else" THEN lk ELSE q = "true"
            IN  /\ p[k] = "elseif" => (q = "nothing" <=> ~lk)
                /\ d = [c EXCEPT ![Len(c)] =
                           [fr EXCEPT !.branchActive = taken, !.anyMatched = @ \/ taken]]
      BY <2>5, <3>1
    <3>3. WalkOK(p, [w EXCEPT ![k] = q], k + 1, d, r)
      BY <1>5, <2>1, <2>3, <2>4, <3>1, <3>2, HeaderWalk
    <3> QED
      BY <3>1, <3>3
  <2> QED
    BY <1>4, <1>5, <1>8, <2>3, <2>6 DEF Inlining, Walk
<1> QED
  BY <1>5, <1>7, <1>8

\* END, and the end of the statements.
LEMMA EndKeeps == RecipeInv /\ (ApplyEnd \/ RunDone) => Inlining' /\ Walk'
<1> SUFFICES ASSUME RecipeInv, ApplyEnd \/ RunDone PROVE Inlining' /\ Walk'
  OBVIOUS
<1>1. CASE RunDone
  BY <1>1 DEF RunDone, Inlining, Walk
<1>2. CASE ApplyEnd
  <2>1. PICK p, w, k, c, r, d : /\ p = stmts /\ w = saw /\ k = pc /\ c = condStack
                                /\ r = ran /\ d = condStack'
    OBVIOUS
  <2>2. /\ phase = "run" /\ k <= Len(p) /\ p[k] = "end"
        /\ stmts' = p /\ ran' = r /\ saw' = w
        /\ (c # <<>> => d = SubSeq(c, 1, Len(c) - 1))
        /\ phase' = "error" \/ (phase' = "run" /\ pc' = k + 1)
    BY <1>2, <2>1 DEF ApplyEnd, Proceed, parseVars
  <2>3. CASE phase' = "error"
    BY <2>3 DEF Inlining, Walk
  <2>4. CASE phase' = "run" /\ pc' = k + 1
    <3>1. WalkOK(p, w, k, c, r)
      BY <2>1, <2>2 DEF RecipeInv, Walk
    <3>2. WalkOK(p, w, k + 1, d, r)
      BY <2>2, <3>1, EndWalk
    <3> QED
      BY <2>1, <2>2, <2>4, <3>2 DEF Inlining, Walk
  <2> QED
    BY <2>2, <2>3, <2>4
<1> QED
  BY <1>1, <1>2

\* Every step keeps the invariant.
LEMMA RecipeStep == RecipeInv /\ [RecipeNext]_recipeVars => RecipeInv'
<1> SUFFICES ASSUME RecipeInv, [RecipeNext]_recipeVars PROVE RecipeInv'
  OBVIOUS
<1>1. IncludeInv'
  BY IncludeStep DEF RecipeInv
<1>2. CASE UNCHANGED recipeVars
  <2>1. Inlining' /\ Walk'
    BY <1>2 DEF recipeVars, RecipeInv, Inlining, Walk
  <2> QED
    BY <1>1, <2>1 DEF RecipeInv
<1>3. CASE RecipeNext
  <2>1. Inlining' /\ Walk'
    BY <1>3, ParseKeeps, ResolveKeeps, DoneKeeps, IfKeeps, ElseIfKeeps, ElseKeeps, EndKeeps,
       PlainKeeps DEF RecipeNext
  <2> QED
    BY <1>1, <2>1 DEF RecipeInv
<1> QED
  BY <1>2, <1>3

\* What the invariant says of the model's own operators.
LEMMA WalkSays ==
    ASSUME RecipeInv, phase = "run"
    PROVE  /\ WalkOK(stmts, saw, pc, condStack, ran)
           /\ IfFailed <=> Failed(stmts, saw)
<1>1. WalkOK(stmts, saw, pc, condStack, ran)
  BY DEF RecipeInv, Walk
<1>2. DOMAIN saw = 1..Len(stmts)
  BY <1>1 DEF WalkOK
<1> QED
  BY <1>1, <1>2 DEF IfFailed, Failed

\* Run executes exactly the commands that lie, at every level, in the first
\* branch whose condition held: a flat walk with a stack of frames does what a
\* reader of the blocks expects, for every recipe, however deep its blocks and
\* its includes (unless -keep-going went on after an IF that failed to evaluate).
THEOREM FirstMatchCorrect == RecipeSpec => []FirstMatchRuns
<1>1. RecipeInv => FirstMatchRuns
  <2>1. SUFFICES ASSUME RecipeInv, phase = "run", ~IfFailed,
                        NEW k \in 1..(pc - 1), stmts[k] \notin Marker
                 PROVE  k \in ran <=> Reached(k)
    BY DEF FirstMatchRuns, RunsChosenBranches
  <2>2. RanChosen(stmts, saw, pc, ran)
    BY <2>1, WalkSays DEF WalkOK
  <2> QED
    BY <2>1, <2>2, BlocksAre DEF RanChosen
<1> QED
  BY <1>1, RecipeStarts, RecipeStep, PTL DEF RecipeSpec

\* A condition is evaluated only when the blocks around its IF are being run
\* and no earlier branch of that IF matched: what is skipped never touches an
\* unresolved ${...}.
THEOREM CondsLazyCorrect == RecipeSpec => []CondsLazy
<1>1. RecipeInv => CondsLazy
  <2>1. SUFFICES ASSUME RecipeInv, phase = "run", ~IfFailed,
                        NEW i \in 1..(pc - 1), stmts[i] = "if", NEW h \in Headers(i),
                        h < pc, stmts[h] # "else", saw[h] # "nothing"
                 PROVE  Reached(i) /\ \A g \in Headers(i) : g < h => saw[g] # "true"
    BY DEF CondsLazy
  <2>2. Lazy(stmts, saw, pc)
    BY <2>1, WalkSays DEF WalkOK
  <2> QED
    BY <2>1, <2>2, BlocksAre DEF Lazy
<1> QED
  BY <1>1, RecipeStarts, RecipeStep, PTL DEF RecipeSpec

\* Inlining files that are balanced on their own gives balanced statements,
\* wherever they are included, and a walk that reaches the end has closed every
\* block.
THEOREM InlinedBalancedCorrect == RecipeSpec => []InlinedBalanced
<1>1. RecipeInv => InlinedBalanced
  <2>1. SUFFICES ASSUME RecipeInv, phase = "run"
                 PROVE  /\ ControlFlowOK(stmts)
                        /\ (pc > Len(stmts) /\ ~IfFailed) => condStack = <<>>
    BY DEF InlinedBalanced
  <2>2. WalkOK(stmts, saw, pc, condStack, ran)
    BY <2>1, WalkSays
  <2>3. Balanced(stmts)
    BY <2>2 DEF WalkOK
  <2>4. ASSUME pc > Len(stmts), ~IfFailed PROVE condStack = <<>>
    <3>1. FramesOK(stmts, saw, pc, condStack) /\ pc \in Spots(stmts)
      BY <2>1, <2>2, <2>4, WalkSays DEF WalkOK
    <3>2. Len(stmts) \in Nat /\ Dep(stmts, Len(stmts)) = 0
      BY <2>3, BalancedFlow, DepFacts
    <3>3. pc - 1 = Len(stmts)
      BY <2>4, <3>1, <3>2 DEF Spots
    <3>4. condStack \in Seq(Frame) /\ Len(condStack) = 0
      BY <3>1, <3>2, <3>3 DEF FramesOK
    <3> QED
      BY <3>4, EmptySeq
  <2> QED
    BY <2>3, <2>4 DEF Balanced
<1> QED
  BY <1>1, RecipeStarts, RecipeStep, PTL DEF RecipeSpec

\* A header or an END always finds the frame of the IF it belongs to.
MarkersFindFrames ==
    (phase = "run" /\ ~IfFailed /\ pc <= Len(stmts) /\ stmts[pc] \in {"elseif", "else", "end"})
        => condStack # <<>>

\* applyControl's errors "ELSE IF without IF", "ELSE without IF" and "END without
\* IF" cannot happen to a recipe that was parsed, unless -keep-going went on
\* after an IF whose condition failed to evaluate.
THEOREM MarkersFindFramesCorrect == RecipeSpec => []MarkersFindFrames
<1>1. RecipeInv => MarkersFindFrames
  <2>1. SUFFICES ASSUME RecipeInv, phase = "run", ~IfFailed, pc <= Len(stmts),
                        stmts[pc] \in {"elseif", "else", "end"}
                 PROVE  condStack # <<>>
    BY DEF MarkersFindFrames
  <2>2. PICK p, w, k, c, r : p = stmts /\ w = saw /\ k = pc /\ c = condStack /\ r = ran
    OBVIOUS
  <2>3. WalkOK(p, w, k, c, r) /\ FramesOK(p, w, k, c) /\ k <= Len(p)
    BY <2>1, <2>2, WalkSays DEF WalkOK
  <2>4. Balanced(p) /\ k \in 1..Len(p)
    BY <2>3, WalkTypes
  <2>5. CASE stmts[pc] \in {"elseif", "else"}
    BY <2>2, <2>3, <2>4, <2>5, TopFrame
  <2>6. CASE stmts[pc] = "end"
    BY <2>2, <2>3, <2>4, <2>6, EndFrames
  <2> QED
    BY <2>1, <2>5, <2>6
<1> QED
  BY <1>1, RecipeStarts, RecipeStep, PTL DEF RecipeSpec
=============================================================================
