----------------------------- MODULE LogRotate ------------------------------
(***************************************************************************)
(* glog.DailyRotateWriter: one log file that is renamed to the date it was  *)
(* opened under at the first write of another day, with the oldest renamed  *)
(* files deleted.  Write runs under the writer's mutex; the process may     *)
(* restart on any day, and the rename and the reopening may fail.  The local*)
(* date is taken not to go back.  The lines of one day are one token: it.   *)
(***************************************************************************)
EXTENDS Integers, FiniteSets

CONSTANTS
    MaxFiles,   \* rotated files to keep
    MaxDay      \* bound on the date

ASSUME RotateAssumption == MaxFiles \in Nat \ {0} /\ MaxDay \in Nat

VARIABLES
    today,     \* the local date
    curDate,   \* w.curDate
    isOpen,    \* w.file # nil
    hasBase,   \* there is a file at basePath
    base,      \* the lines in it
    rotated,   \* the renamed files: date in the name -> lines
    written    \* history: the lines the file took

rotateVars == <<today, curDate, isOpen, hasBase, base, rotated, written>>

RotateInit ==
    /\ today = 0 /\ curDate = 0 /\ isOpen = TRUE
    /\ hasBase = TRUE /\ base = {} /\ rotated = [d \in {} |-> {}]
    /\ written = {}

\* Mutant: one file too many is deleted.
MutCleanup(f) ==
    [d \in {e \in DOMAIN f : Cardinality({g \in DOMAIN f : g > e}) < MaxFiles - 1} |-> f[d]]

\* cleanup: of the renamed files the MaxFiles newest by name stay.
Cleanup(f) ==
    [d \in {e \in DOMAIN f : Cardinality({g \in DOMAIN f : g > e}) < MaxFiles} |-> f[d]]

\* rotate's os.Rename: it replaces a file that has that name already.
Renamed(f) == [d \in DOMAIN f \cup {curDate} |-> IF d = curDate THEN base ELSE f[d]]

\* Write, which rotates first on another date than curDate (the errors of the
\* rename and of the reopening are ignored).  Without an open file the line
\* is dropped.
WriteLine(renames, reopens) ==
    LET turn == today # curDate
        kept == IF turn /\ renames THEN {} ELSE base
        up == IF turn THEN reopens ELSE isOpen
    IN
    /\ renames => hasBase
    /\ rotated' = IF turn THEN Cleanup(IF renames THEN Renamed(rotated) ELSE rotated)
                   ELSE rotated
    /\ curDate' = today
    /\ isOpen' = up
    /\ hasBase' = (up \/ (hasBase /\ ~(turn /\ renames)))
    /\ base' = IF up THEN kept \cup {today} ELSE kept
    /\ written' = IF up THEN written \cup {today} ELSE written
    /\ UNCHANGED today

\* NewDailyRotateWriter: the file is opened for append under today's date.
Reopen(ok) ==
    /\ curDate' = today
    /\ isOpen' = ok
    /\ hasBase' = (ok \/ hasBase)
    /\ UNCHANGED <<today, base, rotated, written>>

Midnight ==
    /\ today < MaxDay
    /\ today' = today + 1
    /\ UNCHANGED <<curDate, isOpen, hasBase, base, rotated, written>>

RotateNext ==
    \/ \E renames, reopens \in BOOLEAN : WriteLine(renames, reopens)
    \/ \E ok \in BOOLEAN : Reopen(ok)
    \/ Midnight

RotateSpec == RotateInit /\ [][RotateNext]_rotateVars

-----------------------------------------------------------------------------
(* Properties.                                                             *)

OnDisk == base \cup UNION {rotated[d] : d \in DOMAIN rotated}

\* "oldest files beyond maxFiles are deleted", and nothing else: a line the
\* file took is on disk for MaxFiles days after its own, through restarts and
\* renames or reopenings that fail.
LinesKept == \A d \in written : d \in OnDisk \/ today > d + MaxFiles
=============================================================================
