------------------------------- MODULE MCWait -------------------------------
(***************************************************************************)
(* Instances of WaitSystem for TLC: menus of requests for three coroutines *)
(* on one or two channels.                                                 *)
(***************************************************************************)
EXTENDS WaitRefinement, TLC

CONSTANTS c1, c2, c3, A, B

Plain(op, dir, s) == [op |-> op, cases |-> <<[dir |-> dir, src |-> s]>>, default |-> FALSE]
Choose(cases, default) == [op |-> "select", cases |-> cases, default |-> default]
To(s)   == [dir |-> "send", src |-> s]
From(s) == [dir |-> "recv", src |-> s]
Wait(c) == [dir |-> "wait", src |-> c]
Alone(op) == [op |-> op, cases |-> <<>>, default |-> FALSE]

One == [ch \in {A} |-> 1]
Mixed == (A :> 1) @@ (B :> 0)
Ranks == [s \in {c1, c2, c3, A, B} |->
            CASE s = A -> 1 [] s = B -> 2 [] s = c1 -> 3 [] s = c2 -> 4 [] s = c3 -> 5]

(* Selects on a buffered channel A and a rendezvous channel B, against     *)
(* plain and try requests, another select and a close.                     *)
SelectMenu == [c \in {c1, c2, c3} |->
  CASE c = c1 -> {Choose(<<From(A), To(B)>>, FALSE), Choose(<<To(A), From(A)>>, FALSE),
                  Choose(<<From(A), From(B)>>, TRUE), Choose(<<>>, FALSE)}
    [] c = c2 -> {Choose(<<To(A), From(B)>>, FALSE), Plain("send", "send", A),
                  Plain("try_send", "send", A), Plain("recv", "recv", B)}
    [] c = c3 -> {Plain("recv", "recv", A), Plain("try_recv", "recv", A),
                  Plain("close", "close", A), Choose(<<To(B), To(A)>>, FALSE)}]

(* Join, cancellable waits, cancel, large sends, and a select that waits   *)
(* for a child.                                                            *)
JoinMenu == [c \in {c1, c2, c3} |->
  CASE c = c1 -> {Plain("join", "wait", c2), Plain("join_cancel", "wait", c2),
                  Choose(<<Wait(c2), From(A)>>, FALSE)}
    [] c = c2 -> {Alone("finish"), Plain("send_large", "send", A), Plain("recv_cancel", "recv", A)}
    [] c = c3 -> {Alone("cancel"), Plain("send_large", "send", A), Plain("join", "wait", c2),
                  Plain("close", "close", A)}]

(* A large send against receivers that arrive while it copies.             *)
LargeMenu == [c \in {c1, c2} |->
  IF c = c1 THEN {Plain("send_large", "send", A)} ELSE {Plain("recv", "recv", A)}]
=============================================================================
