------------------------------ MODULE MCRecipe ------------------------------
(***************************************************************************)
(* Recipe on every balanced top file of up to MaxTop statements, and every  *)
(* short file, balanced or not, that it may include; files may include each *)
(* other and themselves.                                                    *)
(***************************************************************************)
EXTENDS Recipe

CONSTANTS Inc, MaxTop, MaxPlain, MaxInc

Seqs(S, n) == UNION {[1..m -> S] : m \in 0..n}

\* The balanced sequences of up to n statements, grown from the prefixes that
\* can still be closed within n.
Closable(p, n) ==
    LET end == FoldLeft(Validate, [ok |-> TRUE, stack |-> <<>>], p)
    IN  end.ok /\ Len(end.stack) + Len(p) <= n
Balanced(S, n) ==
    LET grow[m \in 0..n] ==
            IF m = 0 THEN {<<>>}
            ELSE LET shorter == grow[m - 1]
                 IN  shorter \cup {p \in {Append(q, s) : q \in shorter, s \in S} :
                                      Closable(p, n)}
    IN  {p \in grow[n] : ControlFlowOK(p)}

\* Top files without an include may be longer.
MCSources ==
    {[f \in {Top, Inc} |-> IF f = Top THEN s ELSE <<>>] :
        s \in Balanced(Marker \cup Plain, MaxPlain)}
    \cup
    {[f \in {Top, Inc} |-> IF f = Top THEN s ELSE t] :
        s \in {p \in Balanced(Marker \cup Plain \cup {Inc}, MaxTop) :
                  \E i \in DOMAIN p : p[i] = Inc},
        t \in Seqs(Marker \cup Plain \cup {Top, Inc}, MaxInc)}
=============================================================================
