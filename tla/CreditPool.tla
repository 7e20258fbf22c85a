----------------------------- MODULE CreditPool ------------------------------
(***************************************************************************)
(* What the transmit credits promise, without buffers, queues, trains or   *)
(* locks: a credit is free or owed by one connection; it is taken when     *)
(* free, and comes back from the connection that took it; a connection     *)
(* that is settled owes nothing and never takes a credit again.            *)
(***************************************************************************)
CONSTANTS Credits, Conns, Free

VARIABLES holder,  \* holder[k]: the connection that owes credit k, or Free
          settled  \* connections whose account is closed

Init == holder = [k \in Credits |-> Free] /\ settled = {}

Owed(c) == {k \in Credits : holder[k] = c}

Take(k, c) ==
  /\ holder[k] = Free /\ c \notin settled
  /\ holder' = [holder EXCEPT ![k] = c]
  /\ UNCHANGED settled

Back(K) == holder' = [k \in Credits |-> IF k \in K THEN Free ELSE holder[k]]

GiveBack(c) ==
  /\ \E K \in SUBSET Owed(c) : Back(K)
  /\ UNCHANGED settled

Settle(c) ==
  /\ c \notin settled
  /\ Back(Owed(c))
  /\ settled' = settled \cup {c}

Next == \E c \in Conns : Settle(c) \/ GiveBack(c) \/ \E k \in Credits : Take(k, c)

Spec == Init /\ [][Next]_<<holder, settled>>

=============================================================================
