--------------------------- MODULE ExchangePromise ---------------------------
(***************************************************************************)
(* What the relay promises about each request of the client, whatever the  *)
(* network and its own bookkeeping do: the client is sent one status at    *)
(* most; usage is counted once at most, and never for a request that the   *)
(* client was told has failed or that is reported as lost, for the client  *)
(* sends that one again; and one incident is reported at most.             *)
(***************************************************************************)
CONSTANT Exchanges

VARIABLES
  status,    \* the statuses each client connection was sent
  counted,   \* the exchanges whose usage is in the ledger
  incident   \* the incident reported for each exchange

vars == <<status, counted, incident>>

Init ==
  /\ status = [x \in Exchanges |-> {}]
  /\ counted = {}
  /\ incident = [x \in Exchanges |-> "none"]

Reply(x, s) == /\ status[x] = {} /\ x \notin counted
               /\ status' = [status EXCEPT ![x] = {s}]
               /\ UNCHANGED counted

Report(x, k) == /\ incident[x] = "none" /\ x \notin counted
                /\ incident' = [incident EXCEPT ![x] = k]
                /\ UNCHANGED counted

Answer(x) == \E s \in {"upstream", "refused", "502"} : Reply(x, s) /\ UNCHANGED incident

\* The client hears of it, unless it has hung up.
Lose(x) == /\ Report(x, "lost")
           /\ \/ Reply(x, "502")
              \/ status[x] = {} /\ UNCHANGED status

Cut(x) == Report(x, "cut") /\ UNCHANGED status

Count(x) ==
  /\ x \notin counted
  /\ status[x] \subseteq {"upstream"} /\ incident[x] # "lost"
  /\ counted' = counted \cup {x}
  /\ UNCHANGED <<status, incident>>

Next == \E x \in Exchanges : Answer(x) \/ Lose(x) \/ Cut(x) \/ Count(x)

Spec == Init /\ [][Next]_vars
=============================================================================
