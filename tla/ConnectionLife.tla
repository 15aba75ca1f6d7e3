--------------------------- MODULE ConnectionLife ---------------------------
(***************************************************************************)
(* What a Connection of net.http.Server may go through, seen from the      *)
(* outside: it has one owner at a time, who hands it on or closes it.      *)
(***************************************************************************)
EXTENDS Integers

CONSTANT Conns

VARIABLES owner,      \* who may use the connection
          answered    \* how many responses were written to it

Owners == {"client", "poller", "queue", "worker", "returned", "closed"}

\* A worker closes the connection, or gives it back; only the poller gives it
\* to the queue, and it closes what is idle or returned
HandsTo == {<<"client", "poller">>, <<"client", "closed">>,
            <<"poller", "queue">>, <<"poller", "closed">>,
            <<"queue", "worker">>,
            <<"worker", "returned">>, <<"worker", "closed">>,
            <<"returned", "poller">>, <<"returned", "closed">>}

Init == /\ owner = [c \in Conns |-> "client"]
        /\ answered = [c \in Conns |-> 0]

\* One step hands on any number of connections, each to an owner it may get
handOn == /\ owner' \in [Conns -> Owners]
          /\ \A c \in Conns : owner'[c] # owner[c] => <<owner[c], owner'[c]>> \in HandsTo

\* A response is written by the worker that owns the connection
answer(c) == /\ owner[c] = "worker"
             /\ answered' = [answered EXCEPT ![c] = @ + 1]

Next == /\ handOn
        /\ UNCHANGED answered \/ \E c \in Conns : answer(c)

Spec == Init /\ [][Next]_<<owner, answered>>
=============================================================================
