----------------------------- MODULE PduExchange -----------------------------
(***************************************************************************)
(* What the tasks expect of the socket layer: a socket carries one request *)
(* at a time, requests leave in rounds, a round ends with every request of *)
(* it answered, and an answer is the answer to that request.  While a      *)
(* round is on its way none of its requests can be replaced and no other   *)
(* round starts.                                                           *)
(***************************************************************************)
CONSTANTS Handle, Command, NoCommand

VARIABLES stage,      \* stage[h]: what became of the request of socket h
          request     \* request[h]: its request, or NoCommand

Init ==
  /\ stage = [h \in Handle |-> "closed"]
  /\ request = [h \in Handle |-> NoCommand]

InRound == {h \in Handle : stage[h] = "sent"}

Open(h) ==
  /\ stage[h] = "closed"
  /\ stage' = [stage EXCEPT ![h] = "idle"]
  /\ UNCHANGED request

Ask(h, c) ==
  /\ stage[h] \in {"idle", "queued", "answered"}
  /\ stage' = [stage EXCEPT ![h] = "queued"]
  /\ request' = [request EXCEPT ![h] = c]

Forget(h) ==
  /\ stage[h] \in {"idle", "queued", "answered"}
  /\ stage' = [stage EXCEPT ![h] = "idle"]
  /\ request' = [request EXCEPT ![h] = NoCommand]

Send(S) ==
  /\ InRound = {}
  /\ S # {}
  /\ \A h \in S : stage[h] = "queued"
  /\ stage' = [h \in Handle |-> IF h \in S THEN "sent" ELSE stage[h]]
  /\ UNCHANGED request

Answer ==
  /\ InRound # {}
  /\ stage' = [h \in Handle |-> IF h \in InRound THEN "answered" ELSE stage[h]]
  /\ UNCHANGED request

Next ==
  \/ \E h \in Handle : Open(h) \/ Forget(h) \/ \E c \in Command : Ask(h, c)
  \/ \E S \in SUBSET Handle : Send(S)
  \/ Answer

Spec == Init /\ [][Next]_<<stage, request>>
=============================================================================
