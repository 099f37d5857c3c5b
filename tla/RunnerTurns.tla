---------------------------- MODULE RunnerTurns -----------------------------
(***************************************************************************)
(* What the pool promises: the runners of an account take turns, one at a  *)
(* time and the newer after the older.                                     *)
(***************************************************************************)
EXTENDS Naturals

CONSTANTS Accounts,
          Numbers  \* the numbers of the runners, in the order they are built

VARIABLES running,  \* pairs of an account and the number of its runner that runs
          latest    \* of each account, the number of its last runner to begin

vars == <<running, latest>>

Init == running = {} /\ latest = [a \in Accounts |-> 0]

Begin(a, n) ==
  /\ \A r \in running : r[1] # a
  /\ n > latest[a]
  /\ running' = running \cup {<<a, n>>}
  /\ latest' = [latest EXCEPT ![a] = n]

End(r) ==
  /\ running' = running \ {r}
  /\ UNCHANGED latest

Next ==
  \/ \E a \in Accounts, n \in Numbers : Begin(a, n)
  \/ \E r \in running : End(r)

Spec == Init /\ [][Next]_vars
=============================================================================
