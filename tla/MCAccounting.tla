------------------------------ MODULE MCAccounting -----------------------------
(***************************************************************************)
(* Answers of small counts for Accounting: one that calls nothing, one     *)
(* that calls a tool built into the provider, one that calls a tool of the *)
(* client, and one that starts an agent beside a tool.                     *)
(***************************************************************************)
EXTENDS Accounting

Play(calls, fresh, cached, written, output) ==
  [calls |-> calls, counts |-> [fresh |-> fresh, cached |-> cached, written |-> written, output |-> output]]

MCPlays == {Play({}, 1, 2, 1, 2), Play({"search"}, 0, 1, 1, 1),
            Play({"tool"}, 2, 1, 0, 3), Play({"agent", "tool"}, 3, 0, 2, 1)}
===============================================================================
