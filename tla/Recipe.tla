------------------------------- MODULE Recipe -------------------------------
(***************************************************************************)
(* Recipes (pkg/recipe): a file is parsed, its includes are inlined, and the*)
(* flat list of statements is run with a stack of branch frames.            *)
(*                                                                         *)
(* A statement is a command, an include or one of the markers IF, ELSE IF,  *)
(* ELSE, END.  Memory and the text of conditions and commands are left out: *)
(* what a condition evaluates to, and whether a command fails, is chosen    *)
(* when Run gets to it.  No statement is reached twice, so each choice is   *)
(* that of a recipe whose conditions are written out as literals.           *)
(***************************************************************************)
EXTENDS Integers, Sequences, FiniteSets, SequencesExt

CONSTANTS
    Top,        \* the recipe's own file
    File,       \* all files, Top among them
    Sources     \* the contents the files may have: functions from File

\* headerStatement, and END: the control markers.
Marker == {"if", "elseif", "else", "end"}

\* normalStatement: a command, a builtin or a capture of what a command prints.
Plain == {"command"}

\* What parseStatements makes of a body whose tokens are well formed: a flat
\* sequence of these.  (resolveIncludes tells the includes apart.)
Statement == Marker \cup Plain \cup File

ASSUME RecipeAssumption ==
    /\ Top \in File /\ Marker \cap File = {} /\ Plain \cap File = {}
    /\ Sources \subseteq [File -> Seq(Statement)]

VARIABLES
    source,     \* file -> its statements
    keepGoing,  \* Runtime.KeepGoing
    phase,      \* "parse", "run", "done" or "error"
    includes,   \* resolveIncludes' activations, outermost first
    chain,      \* its `chain` argument
    stmts,      \* Recipe.Statements, with the includes inlined
    pc,         \* the statement Run is at
    condStack,  \* Run's condStack
    failed,     \* Run recorded a failure
    saw,        \* history: marker -> what its condition evaluated to
    ran         \* history: the statements that were not skipped

recipeVars == <<source, keepGoing, phase, includes, chain, stmts, pc, condStack,
          failed, saw, ran>>
parseVars == <<includes, chain, stmts>>
runVars == <<pc, condStack, failed, saw, ran>>

RecipeInit ==
    /\ source \in Sources /\ keepGoing \in BOOLEAN
    /\ phase = "parse"
    /\ includes = <<>> /\ chain = {Top} /\ stmts = <<>>
    /\ pc = 1 /\ condStack = <<>> /\ failed = FALSE
    /\ saw = <<>> /\ ran = {}

-----------------------------------------------------------------------------
(* The parser.                                                             *)

\* One marker of validateControlFlow: `stack` has a frame, sawElse, per open IF.
Validate(acc, st) ==
    LET n == Len(acc.stack) IN
    CASE st = "if" -> [acc EXCEPT !.stack = Append(@, FALSE)]
      [] st \in {"elseif", "else"} ->
            IF n = 0 THEN [acc EXCEPT !.ok = FALSE]
            ELSE [ok |-> acc.ok /\ ~acc.stack[n],
                  stack |-> [acc.stack EXCEPT ![n] = @ \/ st = "else"]]
      [] st = "end" ->
            IF n = 0 THEN [acc EXCEPT !.ok = FALSE]
            ELSE [acc EXCEPT !.stack = SubSeq(@, 1, n - 1)]
      [] OTHER -> acc

\* validateControlFlow: the markers form balanced blocks.
ControlFlowOK(p) ==
    LET end == FoldLeft(Validate, [ok |-> TRUE, stack |-> <<>>], p)
    IN  end.ok /\ end.stack = <<>>

\* Mutant of ParseFile: the control flow is not validated.
MutParseFile(f) == TRUE

\* parseFile succeeds: the tokens form statements (they do here) and the
\* file's own markers are balanced.
ParseFile(f) == ControlFlowOK(source[f])

\* Parse: the top file.
Parse ==
    /\ phase = "parse" /\ includes = <<>> /\ stmts = <<>>
    /\ IF ParseFile(Top)
       THEN includes' = <<[file |-> Top, at |-> 1]>> /\ UNCHANGED phase
       ELSE phase' = "error" /\ UNCHANGED includes
    /\ UNCHANGED <<source, keepGoing, chain, stmts>> /\ UNCHANGED runVars

\* Mutant of Cycle: a file that includes itself through another is missed.
MutCycle(f) == includes[Len(includes)].file = f

\* resolveIncludes' check before it reads the file.
Cycle(f) == f \in chain

\* The statement of the innermost activation: copied, or an include entered.
\* A target that is on the chain, cannot be read, does not parse or has its own
\* `requires:` ends the parse.
ResolveIncludes ==
    LET d == Len(includes)
        top == includes[d]
        st == source[top.file][top.at]
        past == [includes EXCEPT ![d].at = @ + 1]
    IN
    /\ phase = "parse" /\ d > 0
    /\ top.at <= Len(source[top.file])
    /\ \/ /\ st \notin File
          /\ stmts' = Append(stmts, st)
          /\ includes' = past
          /\ UNCHANGED <<phase, chain>>
       \/ /\ st \in File /\ ~Cycle(st) /\ ParseFile(st)
          /\ includes' = Append(past, [file |-> st, at |-> 1])
          /\ chain' = chain \cup {st}
          /\ UNCHANGED <<phase, stmts>>
       \/ /\ st \in File
          /\ phase' = "error"
          /\ UNCHANGED parseVars
    /\ UNCHANGED <<source, keepGoing>> /\ UNCHANGED runVars

\* An activation returns; the outermost one hands the recipe to Run.
IncludeDone ==
    LET d == Len(includes) IN
    /\ phase = "parse" /\ d > 0
    /\ includes[d].at > Len(source[includes[d].file])
    /\ includes' = SubSeq(includes, 1, d - 1)
    /\ IF d > 1
       THEN chain' = chain \ {includes[d].file} /\ UNCHANGED <<phase, saw>>
       ELSE phase' = "run" /\ saw' = [i \in DOMAIN stmts |-> "nothing"] /\ UNCHANGED chain
    /\ UNCHANGED <<source, keepGoing, stmts, pc, condStack, failed, ran>>

-----------------------------------------------------------------------------
(* The runtime.                                                            *)

CondActive == IF condStack = <<>> THEN TRUE ELSE condStack[Len(condStack)].branchActive

\* evalCond: a reference of the condition does not resolve or the condition is
\* malformed (expandArgv, evalAssertExpr), or its truth.
EvalCond == {"true", "false", "error"}

\* What Run does after a statement or a marker: on to the next, or, after an
\* error without KeepGoing, return.
Proceed(err) ==
    /\ failed' = (failed \/ err)
    /\ IF err /\ ~keepGoing THEN phase' = "error" /\ UNCHANGED pc
       ELSE pc' = pc + 1 /\ UNCHANGED phase

Push(f) == Append(condStack, f)
SetTop(f) == [condStack EXCEPT ![Len(condStack)] = f]

\* applyControl, IF: evaluated only in a taken context; the frame is pushed
\* only when the condition evaluates.
ApplyIf ==
    /\ phase = "run" /\ pc <= Len(stmts) /\ stmts[pc] = "if"
    /\ \E c \in IF CondActive THEN EvalCond ELSE {"nothing"} :
         /\ condStack' = IF c = "error" THEN condStack
                         ELSE Push([enclosingActive |-> CondActive,
                                    anyMatched |-> c = "true", branchActive |-> c = "true"])
         /\ saw' = [saw EXCEPT ![pc] = c]
         /\ Proceed(c = "error")
    /\ UNCHANGED <<source, keepGoing, ran>> /\ UNCHANGED parseVars

\* Mutant of ElseIfLooks: a branch after a taken one is looked at again.
MutElseIfLooks(f) == f.enclosingActive

\* ELSE IF evaluates its condition only when no branch matched before.
ElseIfLooks(f) == f.enclosingActive /\ ~f.anyMatched

\* Mutant of ElseIfFrame: the match of an ELSE IF is not remembered.
MutElseIfFrame(f, c) == [f EXCEPT !.branchActive = (c = "true")]

\* The frame after an ELSE IF; one that failed to evaluate is not taken.
ElseIfFrame(f, c) ==
    [f EXCEPT !.branchActive = (c = "true"), !.anyMatched = @ \/ c = "true"]

ApplyElseIf ==
    /\ phase = "run" /\ pc <= Len(stmts) /\ stmts[pc] = "elseif"
    /\ IF condStack = <<>> THEN Proceed(TRUE) /\ UNCHANGED <<condStack, saw>>
       ELSE LET f == condStack[Len(condStack)] IN
            \E c \in IF ElseIfLooks(f) THEN EvalCond ELSE {"nothing"} :
              /\ condStack' = SetTop(ElseIfFrame(f, c))
              /\ saw' = [saw EXCEPT ![pc] = c]
              /\ Proceed(c = "error")
    /\ UNCHANGED <<source, keepGoing, ran>> /\ UNCHANGED parseVars

ElseTaken(f) == f.enclosingActive /\ ~f.anyMatched

ApplyElse ==
    /\ phase = "run" /\ pc <= Len(stmts) /\ stmts[pc] = "else"
    /\ IF condStack = <<>> THEN Proceed(TRUE) /\ UNCHANGED condStack
       ELSE LET f == condStack[Len(condStack)] IN
            /\ condStack' = SetTop([f EXCEPT !.branchActive = ElseTaken(f),
                                             !.anyMatched = @ \/ ElseTaken(f)])
            /\ Proceed(FALSE)
    /\ UNCHANGED <<source, keepGoing, saw, ran>> /\ UNCHANGED parseVars

ApplyEnd ==
    /\ phase = "run" /\ pc <= Len(stmts) /\ stmts[pc] = "end"
    /\ condStack' = IF condStack = <<>> THEN condStack
                    ELSE SubSeq(condStack, 1, Len(condStack) - 1)
    /\ Proceed(condStack = <<>>)
    /\ UNCHANGED <<source, keepGoing, saw, ran>> /\ UNCHANGED parseVars

\* A command in a branch that is not taken is skipped silently.
Skip ==
    /\ phase = "run" /\ pc <= Len(stmts) /\ stmts[pc] \notin Marker
    /\ ~CondActive
    /\ Proceed(FALSE)
    /\ UNCHANGED <<source, keepGoing, condStack, saw, ran>> /\ UNCHANGED parseVars

\* expandArgv and execStatement: the expansion, the builtin, the dispatched or
\* forked command, or the parse of what it printed fails, or it all succeeds.
Execute ==
    /\ phase = "run" /\ pc <= Len(stmts) /\ stmts[pc] \notin Marker
    /\ CondActive
    /\ ran' = ran \cup {pc}
    /\ \E err \in BOOLEAN : Proceed(err)
    /\ UNCHANGED <<source, keepGoing, condStack, saw>> /\ UNCHANGED parseVars

\* Run returns, with the combined error when something failed.
RunDone ==
    /\ phase = "run" /\ pc > Len(stmts)
    /\ phase' = IF failed THEN "error" ELSE "done"
    /\ UNCHANGED <<source, keepGoing>> /\ UNCHANGED parseVars /\ UNCHANGED runVars

RecipeNext ==
    \/ Parse \/ ResolveIncludes \/ IncludeDone
    \/ ApplyIf \/ ApplyElseIf \/ ApplyElse \/ ApplyEnd
    \/ Skip \/ Execute \/ RunDone

RecipeSpec == RecipeInit /\ [][RecipeNext]_recipeVars

-----------------------------------------------------------------------------
(* The block structure of the inlined statements, as a reader sees it: the  *)
(* reference against which the flat walk with its stack is checked.         *)

Count(m, i, j) == Cardinality({k \in i..j : stmts[k] = m})

\* The END of the IF at i, and the headers of its branches.
EndOf(i) == CHOOSE j \in i..Len(stmts) :
                /\ stmts[j] = "end" /\ Count("if", i, j) = Count("end", i, j)
                /\ \A k \in i..(j - 1) : Count("if", i, k) > Count("end", i, k)
Headers(i) == {i} \cup {j \in i..EndOf(i) : /\ stmts[j] \in {"elseif", "else"}
                                            /\ Count("if", i, j) = Count("end", i, j) + 1}

\* The IFs around statement k: k is in one of their branches.
Around(k) == {i \in 1..(k - 1) : stmts[i] = "if" /\ k < EndOf(i) /\ k \notin Headers(i)}

\* Branch h of the IF at i is the one to run: it is the first whose condition
\* held, or the ELSE after none did.
Chosen(i, h) ==
    /\ stmts[h] = "else" \/ saw[h] = "true"
    /\ \A g \in Headers(i) : g < h => saw[g] \in {"false", "error"}

\* The branch of the IF at i that statement k is in.
BranchOf(i, k) == CHOOSE h \in Headers(i) :
                      h < k /\ \A g \in Headers(i) : g < k => g <= h

Reached(k) == \A i \in Around(k) : Chosen(i, BranchOf(i, k))

-----------------------------------------------------------------------------
(* Properties.                                                             *)

\* An IF whose condition could not be evaluated was passed over.
IfFailed == \E k \in DOMAIN saw : stmts[k] = "if" /\ saw[k] = "error"

RunsChosenBranches ==
    phase = "run" => \A k \in 1..(pc - 1) :
        stmts[k] \notin Marker => (k \in ran <=> Reached(k))

\* "The runtime evaluates branches in order and runs the first match": of the
\* statements passed, exactly those were executed that lie, at every level, in
\* the first branch whose condition held.  (Unless -keep-going went on after an
\* IF whose condition failed to evaluate.)
FirstMatchRuns == IfFailed \/ RunsChosenBranches

\* The same with -keep-going going on after such an IF as well.
FirstMatchRunsAlways == RunsChosenBranches

\* "a skipped branch never touches an unresolved ${...}": a condition is
\* evaluated only when the blocks around its IF are being run and no earlier
\* branch of that IF matched.
CondsLazy ==
    (phase = "run" /\ ~IfFailed) =>
        \A i \in 1..(pc - 1) : stmts[i] = "if" =>
            \A h \in Headers(i) :
                (h < pc /\ stmts[h] # "else" /\ saw[h] # "nothing") =>
                    Reached(i) /\ \A g \in Headers(i) : g < h => saw[g] # "true"

\* Inlining balanced files leaves balanced statements, so every marker finds
\* its frame: a walk that ends has closed every block.
InlinedBalanced ==
    phase = "run" => /\ ControlFlowOK(stmts)
                     /\ (pc > Len(stmts) /\ ~IfFailed) => condStack = <<>>

\* resolveIncludes terminates: no file is on the include stack twice, and the
\* chain it consults holds exactly the files on the stack.
IncludesAcyclic ==
    (phase = "parse" /\ includes # <<>>) =>
        /\ chain = {includes[i].file : i \in DOMAIN includes}
        /\ Cardinality(chain) = Len(includes)
=============================================================================
