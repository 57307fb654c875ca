------------------------------ MODULE MCServer ------------------------------
(***************************************************************************)
(* Small instances of Server for TLC.                                      *)
(***************************************************************************)
EXTENDS Server, TLC

\* Objects of one kind are interchangeable: Server never chooses between them.
Symmetry ==
    Permutations(FD) \cup Permutations(Conn) \cup Permutations(Request)

\* The state up to the names of the timers, of which there are many: a timer is
\* known by what it holds.  Two timers that hold the same are told from one by
\* their number (and violate TimersExact).
UpToTimerNames ==
    LET Named(t) == IF t \in DOMAIN timer THEN timer[t] ELSE NULL
    IN  <<kernelVars, loopVars, conns,
          [c \in DOMAIN conn |-> <<[conn[c] EXCEPT !.timer = NULL], Named(conn[c].timer)>>],
          sess, req, {timer[t] : t \in DOMAIN timer}, Cardinality(DOMAIN timer), fault>>

NoJumps == {}
Forward == {1}

=============================================================================
