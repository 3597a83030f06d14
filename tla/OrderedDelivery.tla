------------------------- MODULE OrderedDelivery -------------------------
(***************************************************************************)
(* What the producer promises about asynchronous writes to a shard: calls  *)
(* are accepted one after the other, and a run of the oldest unresolved    *)
(* calls is sent, any number of times, until the promises of that run are  *)
(* resolved together.  A value says that the last thing the service stored *)
(* for the shard is this run; an exception leaves open whether it did.     *)
(***************************************************************************)
EXTENDS Naturals, Sequences

CONSTANTS Shards, Call

VARIABLES accepted, log, promise

abstractVars == <<accepted, log, promise>>

AInit ==
    /\ accepted = [s \in Shards |-> <<>>]
    /\ log = [s \in Shards |-> <<>>]
    /\ promise = [c \in Call |-> "none"]

\* The calls of s are resolved up to, and not including, the m-th.
OldestUnresolved(s, m) ==
    \A i \in DOMAIN accepted[s] : promise[accepted[s][i]] = "pending" <=> i >= m

AAccept(s, c) ==
    /\ promise[c] = "none"
    /\ accepted' = [accepted EXCEPT ![s] = Append(@, c)]
    /\ promise' = [promise EXCEPT ![c] = "pending"]
    /\ UNCHANGED log

\* One attempt to write the m-th to the n-th call of a shard.
ASend(s, m, n, stored, result) ==
    LET run == SubSeq(accepted[s], m, n)
    IN /\ OldestUnresolved(s, m)
       /\ log' = IF stored THEN [log EXCEPT ![s] = Append(@, run)] ELSE log
       /\ promise' = [c \in Call |-> IF \E i \in DOMAIN run : run[i] = c
                                     THEN result ELSE promise[c]]
       /\ UNCHANGED accepted

ANext ==
    \E s \in Shards :
       \/ \E c \in Call : AAccept(s, c)
       \/ \E m \in DOMAIN accepted[s] : \E n \in m .. Len(accepted[s]) :
             \/ ASend(s, m, n, TRUE, "value")
             \/ \E stored \in BOOLEAN, result \in {"pending", "exception"} :
                   ASend(s, m, n, stored, result)

ASpec == AInit /\ [][ANext]_abstractVars
============================================================================
