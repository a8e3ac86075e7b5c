--------------------------- MODULE MCSelectDefault ---------------------------
(***************************************************************************)
(* A select with default beside senders and receivers, with a history      *)
(* variable: quiet[c] says that at some moment since the current select of *)
(* c looked at its first source none of its cases was ready.               *)
(***************************************************************************)
EXTENDS MCWait

VARIABLE quiet

Trying(c) == pc[c] \in {"try", "probe", "retry"} /\ NoneReady(c)

QuietInit == Init /\ quiet = [c \in Coroutines |-> FALSE]

QuietNext ==
  /\ Next
  /\ quiet' = [c \in Coroutines |-> Trying(c)' \/ (quiet[c] /\ pc[c] # "call")]

QuietSpec == QuietInit /\ [][QuietNext]_<<vars, quiet>>

DefaultMenu == [c \in {c1, c2, c3} |->
  CASE c = c1 -> {Choose(<<From(A), From(B)>>, TRUE)}
    [] c = c2 -> {Plain("try_send", "send", B)}
    [] c = c3 -> {Plain("try_send", "send", A), Plain("try_recv", "recv", B)}]

Ones == [ch \in {A, B} |-> 1]

(* concurrency.md: default is taken only if no case is ready; there is a   *)
(* moment of the call at which that was so.                                *)
DefaultOnlyWhenQuiet ==
  \A c \in Coroutines : out[c] = Result("Default") => quiet[c]
=============================================================================
