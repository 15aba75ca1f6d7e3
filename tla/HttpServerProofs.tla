-------------------------- MODULE HttpServerProofs --------------------------
(***************************************************************************)
(* Proofs about the http server: who owns a connection, that nobody sleeps *)
(* over work and no request is lost, for any number of workers,            *)
(* connections and requests, and that it implements ConnectionLife.        *)
(***************************************************************************)
EXTENDS HttpServer, TLAPS, SequenceTheorems, FiniteSetTheorems

\* The part of TypeOK that ownership needs
OwnershipTypes == /\ queue \in Seq(Conns)
                  /\ idle \subseteq Conns /\ returned \subseteq Conns
                  /\ wconn \in [Workers -> Conns \cup {NoConn}]
                  /\ wpc \in [Workers -> WorkerPlaces]
                  /\ life \in [Conns -> Lives]

Serving == {"read", "write", "next", "soon", "return"}

\* A worker has a connection exactly while it is in serveRequests
HoldsWhileServing == \A w \in Workers : wconn[w] # NoConn <=> wpc[w] \in Serving

OwnInv == OwnershipTypes /\ HoldsWhileServing /\ OneOwner
-----------------------------------------------------------------------------
\* queue[0] and queue.removeAt(0): what is left is the rest, one place forward.
LEMMA TakeHead ==
  ASSUME NEW S, NEW s \in Seq(S), Len(s) > 0
  PROVE  /\ s[1] \in S /\ Tail(s) \in Seq(S)
         /\ Len(s) \in Nat
         /\ Len(Tail(s)) = Len(s) - 1
         /\ \A i \in 1..(Len(s) - 1) : Tail(s)[i] = s[i + 1]
  OBVIOUS

\* The lists and connections are as they were, and so are the owners.
LEMMA OwnersUnchanged ==
  ASSUME OwnInv, UNCHANGED <<queue, idle, returned, wconn, life>>,
         wpc' \in [Workers -> WorkerPlaces],
         \A w \in Workers : wpc'[w] \in Serving <=> wpc[w] \in Serving
  PROVE  OwnInv'
<1>1. queued' = queued /\ held' = held /\ open' = open
  BY DEF queued, held, open
<1>2. OneOwner'
  BY <1>1 DEF OwnInv, OneOwner
<1>3. OwnershipTypes' /\ HoldsWhileServing'
  BY DEF OwnInv, OwnershipTypes, HoldsWhileServing
<1> QED BY <1>2, <1>3 DEF OwnInv

\* closeConnection, by the poller: only what it owns
LEMMA CloseOwn ==
  ASSUME OwnInv, NEW C, C \subseteq idle \cup returned, closeAll(C),
         idle' = idle \ C, returned' = returned \ C, UNCHANGED <<queue, wconn, wpc>>
  PROVE  OwnInv'
<1> USE DEF OwnInv, OwnershipTypes
<1>1. life' \in [Conns -> Lives]
  BY DEF closeAll, Lives
<1>2. open' = open \ C
  BY DEF closeAll, open, Lives
<1>3. queued' = queued /\ held' = held
  BY DEF queued, held
<1>4. OneOwner'
  BY <1>2, <1>3 DEF OneOwner
<1> QED BY <1>1, <1>4 DEF HoldsWhileServing
-----------------------------------------------------------------------------
(* What the four steps that hand a connection on do to the places *)

\* giveReady: one connection goes from the idle list to the end of the queue.
LEMMA GiveReadyMoves ==
  ASSUME OwnInv, giveReady
  PROVE  \E c \in idle :
            /\ idle' = idle \ {c} /\ c \notin queued /\ queued' = queued \cup {c}
            /\ queue' = Append(queue, c) /\ queue' \in Seq(Conns) /\ Len(queue') = Len(queue) + 1
            /\ \A i, j \in 1..Len(queue') : i # j => queue'[i] # queue'[j]
            /\ UNCHANGED <<returned, wconn, wpc, life>> /\ held' = held /\ open' = open
<1>1. PICK c \in idle : queue' = Append(queue, c) /\ idle' = idle \ {c}
  BY DEF giveReady, give
<1>2. UNCHANGED <<returned, wconn, wpc, life>> /\ held' = held /\ open' = open
  BY DEF giveReady, workers, wire, held, open
<1> DEFINE n == Len(queue)
<1>3. /\ c \in Conns /\ queue \in Seq(Conns) /\ n \in Nat
      /\ queue' \in Seq(Conns) /\ Len(queue') = n + 1
      /\ \A i \in 1..n : queue'[i] = queue[i]
      /\ queue'[n + 1] = c
  BY <1>1 DEF OwnInv, OwnershipTypes
<1>4. \A i \in 1..Len(queue') : i \in 1..n \/ i = n + 1
  BY <1>3
<1>5. queued' = queued \cup {c}
  BY <1>3, <1>4 DEF queued
<1>6. c \notin queued
  BY <1>1 DEF OwnInv, OneOwner
<1>7. \A i, j \in 1..Len(queue') : i # j => queue'[i] # queue'[j]
  <2>1. \A i \in 1..n : queue[i] # c
    BY <1>6 DEF queued
  <2>2. \A i, j \in 1..n : i # j => queue[i] # queue[j]
    BY DEF OwnInv, OneOwner
  <2> QED BY <1>3, <1>4, <2>1, <2>2
<1> QED BY <1>1, <1>2, <1>3, <1>5, <1>6, <1>7

\* takeFirst: the first of the queue is the worker's, and no longer queued.
LEMMA TakeFirstMoves ==
  ASSUME OwnInv, NEW w \in Workers, takeFirst(w)
  PROVE  \E c \in queued :
            /\ wconn' = [wconn EXCEPT ![w] = c] /\ wpc' = [wpc EXCEPT ![w] = "read"]
            /\ wpc[w] \in {"take", "wait"} /\ wconn[w] = NoConn /\ c \in Conns
            /\ queue' \in Seq(Conns) /\ Len(queue') = Len(queue) - 1
            /\ \A i, j \in 1..Len(queue') : i # j => queue'[i] # queue'[j]
            /\ queued' = queued \ {c} /\ held' = held \cup {c} /\ c \notin held
            /\ UNCHANGED <<idle, returned, life>> /\ open' = open
<1> DEFINE n == Len(queue)
           c == queue[1]
<1>1. /\ queue \in Seq(Conns) /\ n > 0 /\ queue' = Tail(queue)
      /\ wconn' = [wconn EXCEPT ![w] = c] /\ wpc' = [wpc EXCEPT ![w] = "read"]
      /\ wpc[w] \in {"take", "wait"}
  BY DEF takeFirst, wgo, atTake, OwnInv, OwnershipTypes
<1>2. UNCHANGED <<idle, returned, life>> /\ open' = open
  BY DEF takeFirst, poller, wire, open
<1>3. /\ c \in Conns /\ queue' \in Seq(Conns) /\ n \in Nat /\ Len(queue') = n - 1
      /\ \A i \in 1..(n - 1) : queue'[i] = queue[i + 1]
  BY <1>1, TakeHead
<1>4. wconn[w] = NoConn
  BY <1>1 DEF OwnInv, HoldsWhileServing, Serving
<1>5. /\ wconn'[w] = c
      /\ \A v \in Workers : v # w => wconn'[v] = wconn[v]
  BY <1>1, <1>3 DEF OwnInv, OwnershipTypes
<1>6. \A i, j \in 1..n : i # j => queue[i] # queue[j]
  BY DEF OwnInv, OneOwner
<1>7. \A i \in 1..Len(queue') : i + 1 \in 1..n /\ i + 1 # 1 /\ queue'[i] = queue[i + 1]
  BY <1>3
<1>8. \A i, j \in 1..Len(queue') : i # j => queue'[i] # queue'[j]
  BY <1>3, <1>6, <1>7
<1>9. c \in queued /\ queued' = queued \ {c}
  <2>1. 1 \in 1..n
    BY <1>1, <1>3
  <2>2. \A i \in 1..n : i # 1 => i - 1 \in 1..Len(queue') /\ queue'[i - 1] = queue[i]
    BY <1>3
  <2>3. \A x \in queued' : x \in queued /\ x # c
    BY <2>1, <1>6, <1>7 DEF queued
  <2>4. \A x \in queued : x # c => x \in queued'
    BY <2>2 DEF queued
  <2>5. c \in queued
    BY <2>1 DEF queued
  <2> QED BY <2>3, <2>4, <2>5
<1>10. held' = held \cup {c} /\ c \notin held
  BY <1>3, <1>4, <1>5, <1>9, ServerAssumption DEF held, OwnInv, OneOwner
<1> QED BY <1>1, <1>2, <1>3, <1>4, <1>8, <1>9, <1>10

\* giveBack: the worker's connection is returned.
LEMMA GiveBackMoves ==
  ASSUME OwnInv, NEW w \in Workers, giveBack(w)
  PROVE  \E c \in held :
            /\ c = wconn[w] /\ c \in Conns /\ wpc[w] = "return"
            /\ wconn' = [wconn EXCEPT ![w] = NoConn] /\ wpc' = [wpc EXCEPT ![w] = "take"]
            /\ returned' = returned \cup {c} /\ held' = held \ {c}
            /\ UNCHANGED <<queue, idle, life>> /\ open' = open /\ queued' = queued
<1> DEFINE c == wconn[w]
<1>1. /\ wpc[w] = "return" /\ returned' = returned \cup {c}
      /\ wconn' = [wconn EXCEPT ![w] = NoConn] /\ wpc' = [wpc EXCEPT ![w] = "take"]
  BY DEF giveBack, wgo
<1>2. UNCHANGED <<queue, idle, life>> /\ open' = open /\ queued' = queued
  BY DEF giveBack, poller, wire, open, queued
<1>3. c \in Conns
  BY <1>1 DEF OwnInv, OwnershipTypes, HoldsWhileServing, Serving
<1>4. /\ wconn'[w] = NoConn
      /\ \A v \in Workers : v # w => wconn'[v] = wconn[v]
  BY <1>1 DEF OwnInv, OwnershipTypes
<1>5. c \in held /\ held' = held \ {c}
  BY <1>3, <1>4, ServerAssumption DEF held, OwnInv, OneOwner
<1> QED BY <1>1, <1>2, <1>3, <1>5

\* drop(w): the worker's connection is closed, and nobody's.
LEMMA DropMoves ==
  ASSUME OwnInv, NEW w \in Workers, wpc[w] \in Serving, drop(w)
  PROVE  \E c \in held :
            /\ c = wconn[w] /\ c \in Conns
            /\ wconn' = [wconn EXCEPT ![w] = NoConn] /\ wpc' = [wpc EXCEPT ![w] = "take"]
            /\ life' = [life EXCEPT ![c] = "closed"]
            /\ held' = held \ {c} /\ open' = open \ {c}
<1> USE DEF OwnInv, OwnershipTypes
<1> DEFINE c == wconn[w]
<1>1. c \in Conns /\ wconn'[w] = NoConn
      /\ \A v \in Workers : v # w => wconn'[v] = wconn[v]
  BY DEF HoldsWhileServing, drop
<1>2. life' = [life EXCEPT ![c] = "closed"]
  BY <1>1 DEF drop, closeAll
<1>3. open' = open \ {c}
  BY <1>1, <1>2 DEF open, Lives
<1>4. held' = held \ {c} /\ c \in held
  BY <1>1, ServerAssumption DEF held, OneOwner
<1> QED BY <1>1, <1>2, <1>3, <1>4 DEF drop, wgo

\* A worker that closes its connection leaves the others to their owners.
LEMMA DropOwn ==
  ASSUME OwnInv, NEW w \in Workers, wpc[w] \in Serving, drop(w),
         UNCHANGED <<queue, idle, returned>>
  PROVE  OwnInv'
<1> USE DEF OwnInv, OwnershipTypes
<1>1. PICK c \in held :
            /\ c = wconn[w] /\ c \in Conns
            /\ wconn' = [wconn EXCEPT ![w] = NoConn] /\ wpc' = [wpc EXCEPT ![w] = "take"]
            /\ life' = [life EXCEPT ![c] = "closed"]
            /\ held' = held \ {c} /\ open' = open \ {c}
  BY DropMoves
<1>2. wconn'[w] = NoConn /\ \A v \in Workers : v # w => wconn'[v] = wconn[v]
  BY <1>1
<1>3. queued' = queued
  BY DEF queued
<1>4. OneOwner'
  BY <1>1, <1>2, <1>3 DEF OneOwner
<1>5. OwnershipTypes'
  BY <1>1 DEF Lives, WorkerPlaces
<1>6. HoldsWhileServing'
  BY <1>1, <1>2 DEF HoldsWhileServing, Serving
<1> QED BY <1>4, <1>5, <1>6
-----------------------------------------------------------------------------
\* One step of any thread keeps the owners apart.
LEMMA OwnStep == OwnInv /\ [Next]_vars => OwnInv'
<1> SUFFICES ASSUME OwnInv, [Next]_vars PROVE OwnInv'
  OBVIOUS
<1> USE ServerAssumption
<1>0. CASE UNCHANGED vars
  BY <1>0, OwnersUnchanged DEF vars, shared, poller, workers, wire, OwnInv, OwnershipTypes
<1>1. ASSUME \/ start \/ spawned \/ check \/ poll \/ polled \/ given \/ readWake
             \/ acceptNothing \/ stop \/ serveFailed \/ pollFailed
             \/ shutdown \/ \E c \in Conns : send(c) \/ hangUp(c)
      PROVE OwnInv'
  <2>1. UNCHANGED <<queue, idle, returned, wconn, life, wpc>>
    BY <1>1 DEF start, spawned, check, poll, polled, given, readWake, acceptNothing, stop,
                serveFailed, pollFailed, shutdown, send, hangUp, shared, poller, workers, wire
  <2> QED BY <2>1, OwnersUnchanged DEF OwnInv, OwnershipTypes
<1>2. CASE spawn
  BY <1>2, OwnersUnchanged
     DEF spawn, unborn, shared, poller, wire, OwnInv, OwnershipTypes, WorkerPlaces, Serving
<1>3. ASSUME NEW c \in Conns, connect(c) PROVE OwnInv'
  <2>1. open' = open /\ life' \in [Conns -> Lives]
    BY <1>3 DEF connect, open, OwnInv, OwnershipTypes, Lives
  <2>2. UNCHANGED <<queue, idle, returned, wconn, wpc>> /\ queued' = queued /\ held' = held
    BY <1>3 DEF connect, shared, poller, workers, queued, held
  <2> QED BY <2>1, <2>2 DEF OwnInv, OwnershipTypes, HoldsWhileServing, OneOwner
<1>4. CASE closeListener
  <2>1. open' = open /\ life' \in [Conns -> Lives]
    BY <1>4 DEF closeListener, closeAll, open, OwnInv, OwnershipTypes, Lives
  <2>2. UNCHANGED <<queue, idle, returned, wconn, wpc>> /\ queued' = queued /\ held' = held
    BY <1>4 DEF closeListener, poller, workers, queued, held
  <2> QED BY <2>1, <2>2 DEF OwnInv, OwnershipTypes, HoldsWhileServing, OneOwner
<1>5. CASE accept
  <2>1. PICK c \in Conns : /\ life[c] = "backlog"
                           /\ life' = [life EXCEPT ![c] = "open"]
                           /\ idle' = idle \cup {c}
    BY <1>5 DEF accept
  <2>2. UNCHANGED <<queue, returned, wconn, wpc>> /\ queued' = queued /\ held' = held
    BY <1>5 DEF accept, shared, workers, queued, held
  <2>3. open' = open \cup {c} /\ c \notin open /\ life' \in [Conns -> Lives]
    BY <2>1 DEF open, OwnInv, OwnershipTypes, Lives
  <2>4. OneOwner'
    BY <2>1, <2>2, <2>3 DEF OwnInv, OneOwner
  <2> QED BY <2>1, <2>2, <2>3, <2>4 DEF OwnInv, OwnershipTypes, HoldsWhileServing
<1>6. CASE expire
  <2>1. PICK C \in SUBSET (idle \ fresh) : closeAll(C) /\ idle' = idle \ C
    BY <1>6 DEF expire
  <2>2. UNCHANGED <<queue, returned, wconn, wpc>>
    BY <1>6 DEF expire, shared, workers
  <2>3. returned' = returned \ C
    BY <2>1, <2>2 DEF OwnInv, OneOwner
  <2> QED BY <2>1, <2>2, <2>3, CloseOwn
<1>7. CASE finish
  <2>1. /\ idle' = idle \ (idle \cup returned) /\ returned' = returned \ (idle \cup returned)
        /\ closeAll(idle \cup returned)
        /\ UNCHANGED <<queue, wconn, wpc>>
    BY <1>7 DEF finish, workers
  <2> QED BY <2>1, CloseOwn
<1>8. CASE collect
  <2>1. /\ idle' = idle \cup returned /\ returned' = {}
        /\ UNCHANGED <<queue, wconn, wpc, life>> /\ queued' = queued /\ held' = held
        /\ open' = open
    BY <1>8 DEF collect, workers, wire, queued, held, open
  <2> QED BY <2>1 DEF OwnInv, OwnershipTypes, HoldsWhileServing, OneOwner
<1>9. CASE giveReady
  <2>1. PICK c \in idle :
            /\ idle' = idle \ {c} /\ c \notin queued /\ queued' = queued \cup {c}
            /\ queue' = Append(queue, c) /\ queue' \in Seq(Conns) /\ Len(queue') = Len(queue) + 1
            /\ \A i, j \in 1..Len(queue') : i # j => queue'[i] # queue'[j]
            /\ UNCHANGED <<returned, wconn, wpc, life>> /\ held' = held /\ open' = open
    BY <1>9, GiveReadyMoves
  <2>2. OneOwner'
    BY <2>1 DEF OwnInv, OneOwner
  <2> QED BY <2>1, <2>2 DEF OwnInv, OwnershipTypes, HoldsWhileServing
<1>10. ASSUME NEW w \in Workers, takeFirst(w) PROVE OwnInv'
  <2>1. PICK c \in queued :
            /\ wconn' = [wconn EXCEPT ![w] = c] /\ wpc' = [wpc EXCEPT ![w] = "read"]
            /\ wpc[w] \in {"take", "wait"} /\ wconn[w] = NoConn /\ c \in Conns
            /\ queue' \in Seq(Conns) /\ Len(queue') = Len(queue) - 1
            /\ \A i, j \in 1..Len(queue') : i # j => queue'[i] # queue'[j]
            /\ queued' = queued \ {c} /\ held' = held \cup {c} /\ c \notin held
            /\ UNCHANGED <<idle, returned, life>> /\ open' = open
    BY <1>10, TakeFirstMoves
  <2>2. /\ wconn'[w] = c /\ wconn' \in [Workers -> Conns \cup {NoConn}]
        /\ \A v \in Workers : v # w => wconn'[v] = wconn[v]
    BY <2>1 DEF OwnInv, OwnershipTypes
  <2>3. \A u, v \in Workers : u # v /\ wconn'[u] = wconn'[v] => wconn'[u] = NoConn
    BY <2>1, <2>2 DEF held, OwnInv, OneOwner
  <2>4. OneOwner'
    BY <2>1, <2>3 DEF OwnInv, OneOwner
  <2>5. HoldsWhileServing'
    BY <2>1, <2>2 DEF OwnInv, OwnershipTypes, HoldsWhileServing, Serving
  <2> QED BY <2>1, <2>2, <2>4, <2>5 DEF OwnInv, OwnershipTypes, WorkerPlaces
<1>11. ASSUME NEW w \in Workers, takeWait(w) \/ takeEnd(w) \/ takeSpurious(w) PROVE OwnInv'
  BY <1>11, OwnersUnchanged
     DEF takeWait, takeEnd, takeSpurious, atTake, wgo, shared, poller, workers, wire,
         OwnInv, OwnershipTypes, WorkerPlaces, Serving
<1>12. ASSUME NEW w \in Workers,
              \/ read(w) \/ handle(w) \/ writeKeep(w) \/ next(w) \/ soon(w)
       PROVE OwnInv'
  <2>1. UNCHANGED <<queue, idle, returned, wconn, life>>
    BY <1>12 DEF read, handle, writeKeep, next, soon, shared, poller, workers, wire
  <2>2. wpc[w] \in Serving /\ (wpc' = wpc \/ \E p \in Serving : wpc' = [wpc EXCEPT ![w] = p])
    BY <1>12 DEF read, handle, writeKeep, next, soon, nextPlace, wgo, workers, Serving
  <2> QED BY <2>1, <2>2, OwnersUnchanged DEF OwnInv, OwnershipTypes, Serving, WorkerPlaces
<1>13. ASSUME NEW w \in Workers, badRequest(w) \/ gone(w) \/ writeClose(w) \/ writeFailed(w)
       PROVE OwnInv'
  BY <1>13, DropOwn DEF badRequest, gone, writeClose, writeFailed, shared, poller, Serving
<1>14. ASSUME NEW w \in Workers, giveBack(w) PROVE OwnInv'
  <2>1. PICK c \in held :
            /\ c = wconn[w] /\ c \in Conns /\ wpc[w] = "return"
            /\ wconn' = [wconn EXCEPT ![w] = NoConn] /\ wpc' = [wpc EXCEPT ![w] = "take"]
            /\ returned' = returned \cup {c} /\ held' = held \ {c}
            /\ UNCHANGED <<queue, idle, life>> /\ open' = open /\ queued' = queued
    BY <1>14, GiveBackMoves
  <2>2. /\ wconn'[w] = NoConn /\ wconn' \in [Workers -> Conns \cup {NoConn}]
        /\ \A v \in Workers : v # w => wconn'[v] = wconn[v]
    BY <2>1 DEF OwnInv, OwnershipTypes
  <2>3. OneOwner'
    BY <2>1, <2>2 DEF OwnInv, OneOwner
  <2>4. HoldsWhileServing'
    BY <2>1, <2>2 DEF OwnInv, OwnershipTypes, HoldsWhileServing, Serving
  <2> QED BY <2>1, <2>2, <2>3, <2>4 DEF OwnInv, OwnershipTypes, WorkerPlaces
<1> QED
  BY <1>0, <1>1, <1>2, <1>3, <1>4, <1>5, <1>6, <1>7, <1>8, <1>9, <1>10, <1>11, <1>12,
     <1>13, <1>14 DEF Next, Poller, Worker, Client

\* Before the server starts there is nothing to own.
LEMMA InitOwn == Init => OwnInv
  BY ServerAssumption
     DEF Init, OwnInv, OwnershipTypes, HoldsWhileServing, OneOwner, queued, held, open,
         WorkerPlaces, Lives, Serving

\* Every open connection has exactly one owner and a closed one has none, so no
\* thread uses a Connection that another thread uses or has freed, however many
\* workers there are and whenever shutdown() comes.
THEOREM OneOwnerAlways == Spec => []OneOwner
<1>1. Init => OwnInv
  BY InitOwn
<1>2. OwnInv => OneOwner
  BY DEF OwnInv
<1> QED BY <1>1, <1>2, OwnStep, PTL DEF Spec
-----------------------------------------------------------------------------
(* The poller is woken for what was returned *)

\* Before the wake connection is made no worker runs, so nothing is returned
WakeInv == /\ wakeBytes \in Nat
           /\ ppc = "start" => returned = {} /\ \A w \in Workers : wpc[w] = "unborn"
           /\ NoForgottenReturn

\* Only giveBack adds a returned connection, and it writes the byte unless one
\* is on its way; only readWake takes the byte, and collect follows it.
LEMMA WakeStep == OwnInv /\ WakeInv /\ [Next]_vars => WakeInv'
<1> SUFFICES ASSUME OwnInv, WakeInv, [Next]_vars PROVE WakeInv'
  OBVIOUS
<1> USE DEF WakeInv, NoForgottenReturn
<1>0. CASE UNCHANGED vars
  BY <1>0 DEF vars, shared, poller, workers
<1>1. CASE start
  BY <1>1 DEF start, goto, workers
<1>2. CASE spawn \/ spawned \/ check \/ poll \/ polled \/ given \/ serveFailed \/ pollFailed
  <2>1. UNCHANGED shared
    BY <1>2 DEF spawn, spawned, check, poll, polled, given, serveFailed, pollFailed
  <2>2. ppc' # "start" /\ ppc \notin {"collect", "over"}
    BY <1>2 DEF spawn, spawned, check, poll, polled, given, serveFailed, pollFailed, goto, poller
  <2> QED BY <2>1, <2>2 DEF shared
<1>3. CASE giveReady
  BY <1>3 DEF giveReady, workers
<1>4. CASE readWake
  BY <1>4 DEF readWake, goto, ScratchBytes
<1>5. CASE collect
  BY <1>5 DEF collect, goto
<1>6. CASE accept \/ acceptNothing \/ expire
  BY <1>6 DEF accept, acceptNothing, expire, goto, shared
<1>7. CASE stop
  BY <1>7 DEF stop, goto
<1>8. CASE finish
  BY <1>8 DEF finish, goto
<1>9. CASE shutdown
  BY <1>9 DEF shutdown, poller, workers
<1>10. CASE closeListener
  BY <1>10 DEF closeListener, poller, workers
<1>11. ASSUME NEW c \in Conns, Client(c) PROVE WakeInv'
  BY <1>11 DEF Client, connect, send, hangUp, shared, poller, workers
<1>12. ASSUME NEW w \in Workers, giveBack(w) PROVE WakeInv'
  <2>1. ppc # "start" /\ ppc' = ppc
    BY <1>12 DEF giveBack, poller
  <2>2. CASE wake /\ ~woke
    BY <1>12, <2>1, <2>2 DEF giveBack
  <2>3. CASE ~(wake /\ ~woke)
    BY <1>12, <2>1, <2>3 DEF giveBack
  <2> QED BY <2>2, <2>3
<1>13. ASSUME NEW w \in Workers,
              \/ takeFirst(w) \/ takeWait(w) \/ takeEnd(w) \/ takeSpurious(w)
              \/ read(w) \/ handle(w) \/ badRequest(w) \/ gone(w)
              \/ writeKeep(w) \/ writeClose(w) \/ writeFailed(w) \/ next(w) \/ soon(w)
       PROVE WakeInv'
  <2>1. UNCHANGED <<returned, woke, wake, wakeBytes, ppc>>
    BY <1>13 DEF takeFirst, takeWait, takeEnd, takeSpurious, read, handle, badRequest, gone,
                 writeKeep, writeClose, writeFailed, next, soon, shared, poller
  <2>2. wpc' = wpc \/ wpc[w] # "unborn"
    BY <1>13 DEF takeFirst, takeWait, takeEnd, takeSpurious, atTake, read, handle, badRequest, gone,
                 writeKeep, writeClose, writeFailed, next, soon, workers
  <2> QED BY <2>1, <2>2
<1> QED
  BY <1>0, <1>1, <1>2, <1>3, <1>4, <1>5, <1>6, <1>7, <1>8, <1>9, <1>10, <1>11, <1>12, <1>13
     DEF Next, Poller, Worker

\* No connection that a worker gave back waits for a byte nobody writes: while
\* something is returned, a byte is in the wake socket or the poller is about
\* to collect, for any number of workers and any interleaving with shutdown().
THEOREM ReturnNotForgotten == Spec => []NoForgottenReturn
<1>1. Init => OwnInv /\ WakeInv
  BY InitOwn DEF Init, WakeInv, NoForgottenReturn
<1>2. WakeInv => NoForgottenReturn
  BY DEF WakeInv
<1> QED BY <1>1, <1>2, OwnStep, WakeStep, PTL DEF Spec
-----------------------------------------------------------------------------
(* No worker sleeps over queued connections *)

\* Workers that will look at the queue before they wait
takers == {w \in Workers : atTake(w)}

\* Who is in the condition's queue is inside ready.wait()
SleepInv == /\ waiting \subseteq {w \in Workers : wpc[w] = "wait"}
            /\ NoWorkerSleepsOverWork

\* Workers are finitely many, so they can be counted.
LEMMA WorkersCounted ==
  ASSUME NEW S, S \subseteq Workers
  PROVE  /\ IsFiniteSet(S) /\ Cardinality(S) \in Nat
         /\ \A w : w \notin S => Cardinality(S \cup {w}) = Cardinality(S) + 1
         /\ \A w \in S : Cardinality(S \ {w}) = Cardinality(S) - 1
<1>1. IsFiniteSet(S)
  BY ServerAssumption, FS_Subset
<1> QED
  BY <1>1, FS_CardinalityType, FS_AddElement, FS_RemoveElement

\* giveReady puts one connection in the queue and wakes one worker; a worker
\* that comes to the queue takes one, or waits when it is empty; and a server
\* that stops wakes everybody.
LEMMA SleepStep == OwnInv /\ SleepInv /\ [Next]_vars => SleepInv'
<1> SUFFICES ASSUME OwnInv, SleepInv, [Next]_vars PROVE SleepInv'
  OBVIOUS
<1>0. /\ takers \subseteq Workers /\ Cardinality(takers) \in Nat /\ Len(queue) \in Nat
      /\ queue \in Seq(Conns) /\ wpc \in [Workers -> WorkerPlaces]
      /\ waiting \subseteq Workers /\ \A w \in waiting : wpc[w] = "wait"
      /\ waiting # {} => Len(queue) <= Cardinality(takers) /\ ~stopping
  BY WorkersCounted
     DEF takers, OwnInv, OwnershipTypes, SleepInv, NoWorkerSleepsOverWork
\* Enough to show: the sleepers sleep, and the takers keep up with the queue
<1>1. ASSUME waiting' \subseteq {w \in Workers : wpc'[w] = "wait"},
             waiting' # {} => Len(queue') <= Cardinality(takers') /\ ~stopping'
      PROVE  SleepInv'
  BY <1>1 DEF SleepInv, NoWorkerSleepsOverWork, takers
<1>2. ASSUME UNCHANGED <<waiting, wpc, queue, stopping>> PROVE SleepInv'
  <2>1. takers' = takers
    BY <1>2 DEF takers, atTake
  <2> QED BY <1>0, <1>1, <1>2, <2>1
<1>3. CASE UNCHANGED vars
  BY <1>2, <1>3 DEF vars, shared, workers
<1>4. CASE \/ start \/ spawned \/ check \/ poll \/ polled \/ given \/ readWake \/ collect
           \/ accept \/ acceptNothing \/ expire \/ finish \/ serveFailed \/ pollFailed
           \/ closeListener \/ \E c \in Conns : Client(c)
  BY <1>2, <1>4
     DEF start, spawned, check, poll, polled, given, readWake, collect, accept, acceptNothing,
         expire, finish, serveFailed, pollFailed, closeListener, Client, connect, send, hangUp,
         shared, workers
<1>5. CASE spawn
  <2>1. PICK w \in unborn : wpc' = [wpc EXCEPT ![w] = "take"]
    BY <1>5 DEF spawn
  <2>2. UNCHANGED <<waiting, queue, stopping>>
    BY <1>5 DEF spawn, shared
  <2>3. w \in Workers /\ w \notin takers /\ w \notin waiting /\ takers' = takers \cup {w}
    BY <1>0, <2>1, <2>2 DEF unborn, takers, atTake
  <2>4. Cardinality(takers') = Cardinality(takers) + 1
    BY <1>0, <2>3, WorkersCounted
  <2>5. waiting' \subseteq {v \in Workers : wpc'[v] = "wait"}
    BY <1>0, <2>1, <2>2, <2>3
  <2> QED BY <1>0, <1>1, <2>2, <2>4, <2>5
<1>6. CASE giveReady
  <2>1. UNCHANGED <<wpc, stopping>> /\ signal
    BY <1>6 DEF giveReady, give, workers
  <2>2. Len(queue') = Len(queue) + 1
    BY <1>6, GiveReadyMoves
  <2>3. CASE waiting = {}
    BY <1>1, <2>1, <2>3 DEF signal
  <2>4. CASE waiting # {}
    <3>1. PICK w \in waiting : waiting' = waiting \ {w}
      BY <2>1, <2>4 DEF signal
    <3>2. w \notin takers /\ takers' = takers \cup {w}
      BY <1>0, <2>1, <3>1 DEF takers, atTake
    <3>3. Cardinality(takers') = Cardinality(takers) + 1
      BY <1>0, <3>2, WorkersCounted
    <3>4. waiting' \subseteq {v \in Workers : wpc'[v] = "wait"}
      BY <1>0, <2>1, <3>1
    <3> QED BY <1>0, <1>1, <2>1, <2>2, <2>4, <3>3, <3>4
  <2> QED BY <2>3, <2>4
<1>7. CASE stop \/ shutdown
  BY <1>1, <1>7 DEF stop, shutdown, broadcast
<1>8. ASSUME NEW w \in Workers, takeFirst(w) PROVE SleepInv'
  <2>1. /\ wpc' = [wpc EXCEPT ![w] = "read"] /\ Len(queue') = Len(queue) - 1
    BY <1>8, TakeFirstMoves
  <2>2. atTake(w) /\ UNCHANGED <<waiting, stopping>>
    BY <1>8 DEF takeFirst
  <2>3. w \in takers /\ w \notin waiting /\ takers' = takers \ {w}
    BY <1>0, <2>1, <2>2 DEF takers, atTake
  <2>4. Cardinality(takers') = Cardinality(takers) - 1
    BY <1>0, <2>3, WorkersCounted
  <2>5. waiting' \subseteq {v \in Workers : wpc'[v] = "wait"}
    BY <1>0, <2>1, <2>2, <2>3
  <2> QED BY <1>0, <1>1, <2>1, <2>2, <2>4, <2>5
<1>9. ASSUME NEW w \in Workers, takeWait(w) PROVE SleepInv'
  <2>1. /\ Len(queue) = 0 /\ ~stopping /\ UNCHANGED <<queue, stopping>>
        /\ waiting' = waiting \cup {w} /\ wpc' = [wpc EXCEPT ![w] = "wait"]
    BY <1>9 DEF takeWait, shared, wgo
  <2>2. waiting' \subseteq {v \in Workers : wpc'[v] = "wait"}
    BY <1>0, <2>1
  <2>3. Cardinality(takers') \in Nat
    BY WorkersCounted DEF takers
  <2> QED BY <1>1, <2>1, <2>2, <2>3
<1>10. ASSUME NEW w \in Workers, takeEnd(w) PROVE SleepInv'
  <2>1. waiting' = {}
    BY <1>0, <1>10 DEF takeEnd
  <2> QED BY <1>1, <2>1
<1>11. ASSUME NEW w \in Workers, takeSpurious(w) PROVE SleepInv'
  <2>1. w \in waiting /\ waiting' = waiting \ {w} /\ UNCHANGED <<wpc, queue, stopping>>
    BY <1>11 DEF takeSpurious, wakeWithoutReason, shared, workers
  <2>2. w \notin takers /\ takers' = takers \cup {w}
    BY <1>0, <2>1 DEF takers, atTake
  <2>3. Cardinality(takers') = Cardinality(takers) + 1
    BY <1>0, <2>2, WorkersCounted
  <2>4. waiting' \subseteq {v \in Workers : wpc'[v] = "wait"}
    BY <1>0, <2>1
  <2> QED BY <1>0, <1>1, <2>1, <2>3, <2>4
\* A worker in serveRequests goes on, or comes back to the queue
<1>12. ASSUME NEW w \in Workers, wpc[w] \in Serving, UNCHANGED <<waiting, queue, stopping>>,
              \E p \in Serving \cup {"take"} : wpc' = [wpc EXCEPT ![w] = p]
       PROVE  SleepInv'
  <2>1. w \notin waiting /\ w \notin takers
    BY <1>0, <1>12 DEF Serving, takers, atTake
  <2>2. takers' = takers \/ takers' = takers \cup {w}
    BY <1>0, <1>12, <2>1 DEF Serving, takers, atTake
  <2>3. Cardinality(takers') >= Cardinality(takers)
    BY <1>0, <2>1, <2>2, WorkersCounted
  <2>4. waiting' \subseteq {v \in Workers : wpc'[v] = "wait"}
    BY <1>0, <1>12, <2>1
  <2>5. Cardinality(takers') \in Nat
    BY <1>0, <2>1, <2>2, WorkersCounted
  <2> QED BY <1>0, <1>1, <1>12, <2>3, <2>4, <2>5
<1>13. ASSUME NEW w \in Workers,
              \/ handle(w) \/ badRequest(w) \/ gone(w)
              \/ writeKeep(w) \/ writeClose(w) \/ writeFailed(w) \/ next(w) \/ soon(w) \/ giveBack(w)
       PROVE  SleepInv'
  <2>1. UNCHANGED <<waiting, queue, stopping>>
    BY <1>13 DEF handle, badRequest, gone, writeKeep, writeClose, writeFailed, next, soon,
                 giveBack, shared
  <2>2. /\ wpc[w] \in Serving
        /\ \E p \in Serving \cup {"take"} : wpc' = [wpc EXCEPT ![w] = p]
    BY <1>13 DEF handle, badRequest, gone, writeKeep, writeClose, writeFailed, next, nextPlace,
                 soon, giveBack, drop, wgo, Serving
  <2> QED BY <1>12, <2>1, <2>2
<1>14. ASSUME NEW w \in Workers, read(w) PROVE SleepInv'
  BY <1>2, <1>14 DEF read, shared, workers
<1> QED
  BY <1>3, <1>4, <1>5, <1>6, <1>7, <1>8, <1>9, <1>10, <1>11, <1>13, <1>14
     DEF Next, Poller, Worker

\* No worker sleeps while a connection is queued that nobody is about to take,
\* and none sleeps when the server stops: one signal per connection is enough,
\* for any number of workers, with spurious wake-ups, and with workers that
\* come to the queue without having slept.
THEOREM WorkNotSleptOver == Spec => []NoWorkerSleepsOverWork
<1>1. Init => SleepInv
  BY DEF Init, SleepInv, NoWorkerSleepsOverWork
<1>2. SleepInv => NoWorkerSleepsOverWork
  BY DEF SleepInv
<1> QED BY <1>1, <1>2, InitOwn, OwnStep, SleepStep, PTL DEF Spec
-----------------------------------------------------------------------------
(* No request is lost or answered twice *)

\* The rest of TypeOK: what the threads decide by, and what is on the wire
ControlTypes == /\ waiting \subseteq Workers
                /\ woke \in BOOLEAN /\ stopping \in BOOLEAN /\ wake \in BOOLEAN
                /\ wakeBytes \in Nat /\ listening \in BOOLEAN
                /\ ppc \in PollerPlaces
                /\ seen \in [listener : BOOLEAN, woken : BOOLEAN, conns : SUBSET Conns]
                /\ fresh \subseteq Conns
                /\ wclose \in [Workers -> BOOLEAN]
                /\ spc \in {"before", "stopped", "over"}
WireTypes == /\ sent \in [Conns -> 0..MaxHalves] /\ sock \in [Conns -> 0..MaxHalves]
             /\ buf \in [Conns -> 0..MaxHalves] /\ answered \in [Conns -> 0..MaxHalves]
             /\ eof \in [Conns -> BOOLEAN]

writes(w, c) == wconn[w] = c /\ wpc[w] = "write"
beingWritten(c) == IF \E w \in Workers : writes(w, c) THEN 1 ELSE 0

\* Both halves of every request are accounted for until the connection is
\* closed. It bounds answered and buf by what was sent.
Conserved == \A c \in Conns : life[c] # "closed"
               => 2 * (answered[c] + beingWritten(c)) + buf[c] + sock[c] = sent[c]

\* The flags, places and lists that no connection's content depends on.
LEMMA ControlStep == OwnInv /\ ControlTypes /\ [Next]_vars => ControlTypes'
<1> SUFFICES ASSUME OwnInv, ControlTypes, [Next]_vars PROVE ControlTypes'
  OBVIOUS
<1> USE DEF ControlTypes, PollerPlaces, goto
<1>0. CASE UNCHANGED vars
  BY <1>0 DEF vars, shared, poller, workers
<1>1. CASE start \/ spawn \/ spawned \/ check \/ polled \/ serveFailed \/ pollFailed
  <2>1. /\ UNCHANGED <<waiting, woke, stopping, wakeBytes, listening, seen, fresh, wclose, spc>>
        /\ wake' \in BOOLEAN
    BY <1>1, Zenon DEF start, spawn, spawned, check, polled, serveFailed, pollFailed,
                       shared, poller, workers, ControlTypes
  <2>2. ppc' \in PollerPlaces
    BY <1>1 DEF start, spawn, spawned, check, polled, serveFailed, pollFailed, poller
  <2> QED BY <2>1, <2>2
<1>2. CASE poll
  <2>1. seen' \in [listener : BOOLEAN, woken : BOOLEAN, conns : SUBSET Conns]
    <3>1. {c \in idle : readable(c)} \subseteq Conns
      BY DEF OwnInv, OwnershipTypes
    <3>2. (listening /\ \E c \in Conns : life[c] = "backlog") \in BOOLEAN
          /\ (wakeBytes > 0) \in BOOLEAN
      OBVIOUS
    <3> QED BY <1>2, <3>1, <3>2, Zenon DEF poll
  <2> QED BY <1>2, <2>1 DEF poll, shared, workers
<1>3. CASE giveReady
  BY <1>3 DEF giveReady, give, signal, workers
<1>4. CASE given \/ acceptNothing \/ expire
  BY <1>4 DEF given, acceptNothing, expire, shared, workers
<1>5. CASE readWake
  BY <1>5 DEF readWake, ScratchBytes, workers
<1>6. CASE collect
  <2>1. woke' \in BOOLEAN
    BY <1>6, Zenon DEF collect
  <2> QED BY <1>6, <2>1 DEF collect, workers, OwnInv, OwnershipTypes
<1>7. CASE accept
  BY <1>7 DEF accept, shared, workers
<1>8. CASE stop
  <2>1. stopping' \in BOOLEAN
    BY <1>8, Zenon DEF stop
  <2> QED BY <1>8, <2>1 DEF stop, broadcast, workers
<1>9. CASE finish
  <2>1. wake' \in BOOLEAN
    BY <1>9, Zenon DEF finish
  <2> QED BY <1>9, <2>1 DEF finish, workers
<1>10. CASE shutdown
  <2>1. stopping' \in BOOLEAN
    BY <1>10, Zenon DEF shutdown
  <2> QED BY <1>10, <2>1 DEF shutdown, broadcast, poller, workers
<1>11. CASE closeListener
  <2>1. listening' \in BOOLEAN
    BY <1>11, Zenon DEF closeListener
  <2> QED BY <1>11, <2>1 DEF closeListener, poller, workers
<1>12. ASSUME NEW c \in Conns, Client(c) PROVE ControlTypes'
  BY <1>12 DEF Client, connect, send, hangUp, shared, poller, workers
<1>13. ASSUME NEW w \in Workers,
              \/ takeFirst(w) \/ takeWait(w) \/ takeEnd(w) \/ takeSpurious(w) \/ read(w)
              \/ badRequest(w) \/ gone(w) \/ writeKeep(w) \/ writeClose(w) \/ writeFailed(w)
              \/ next(w) \/ soon(w)
       PROVE ControlTypes'
  BY <1>13 DEF takeFirst, takeWait, takeEnd, takeSpurious, wakeWithoutReason, read, badRequest, gone,
               writeKeep, writeClose, writeFailed, next, soon, shared, poller, workers
<1>14. ASSUME NEW w \in Workers, handle(w) PROVE ControlTypes'
  <2>1. PICK wantsClose \in BOOLEAN : wclose' = [wclose EXCEPT ![w] = wantsClose \/ stopping]
    BY <1>14 DEF handle
  <2>2. wclose' \in [Workers -> BOOLEAN]
    BY <2>1, Zenon
  <2> QED BY <1>14, <2>2 DEF handle, shared, poller
<1>15. ASSUME NEW w \in Workers, giveBack(w) PROVE ControlTypes'
  <2>1. woke' \in BOOLEAN /\ wakeBytes' \in Nat
    <3>1. CASE wake /\ ~woke
      <4>1. woke' = TRUE /\ wakeBytes' = wakeBytes + 1
        BY <1>15, <3>1 DEF giveBack
      <4> QED BY <4>1
    <3>2. CASE ~(wake /\ ~woke)
      BY <1>15, <3>2 DEF giveBack
    <3> QED BY <3>1, <3>2
  <2> QED BY <1>15, <2>1 DEF giveBack, poller
<1> QED
  BY <1>0, <1>1, <1>2, <1>3, <1>4, <1>5, <1>6, <1>7, <1>8, <1>9, <1>10, <1>11, <1>12,
     <1>13, <1>14, <1>15 DEF Next, Poller, Worker

\* What is written, read or sent on other connections, and handing one on, does
\* not disturb what is known of this one.
LEMMA SameContent ==
  ASSUME Conserved, NEW c \in Conns, life[c] # "closed",
         sent'[c] = sent[c], sock'[c] = sock[c], buf'[c] = buf[c], answered'[c] = answered[c],
         \A w \in Workers : writes(w, c)' <=> writes(w, c)
  PROVE  2 * (answered[c] + beingWritten(c))' + buf'[c] + sock'[c] = sent'[c]
<1>1. beingWritten(c)' = beingWritten(c)
  BY DEF beingWritten
<1> QED BY <1>1 DEF Conserved

\* A worker writes on the connection it has, and on an open one only.
LEMMA WritesOwn ==
  ASSUME OwnInv, NEW w \in Workers, wpc[w] \in Serving
  PROVE  /\ wconn[w] \in Conns /\ life[wconn[w]] = "open"
         /\ \A v \in Workers : wconn[v] = wconn[w] => v = w
         /\ beingWritten(wconn[w]) = IF wpc[w] = "write" THEN 1 ELSE 0
<1>1. wconn[w] \in Conns /\ wconn[w] # NoConn
  BY DEF OwnInv, OwnershipTypes, HoldsWhileServing
<1>2. \A v \in Workers : wconn[v] = wconn[w] => v = w
  BY <1>1 DEF OwnInv, OneOwner
<1>3. wconn[w] \in open
  BY <1>1 DEF OwnInv, OneOwner, held
<1> QED BY <1>1, <1>2, <1>3 DEF open, beingWritten, writes

\* drop(w) closes the one connection, so the others stay as they are.
LEMMA DropConserves ==
  ASSUME OwnInv, Conserved, NEW w \in Workers, wpc[w] \in Serving, drop(w),
         UNCHANGED <<sent, sock, buf>>, answered \in [Conns -> 0..MaxHalves],
         \A c \in Conns : c # wconn[w] => answered'[c] = answered[c]
  PROVE  Conserved'
<1>1. PICK c \in held :
            /\ c = wconn[w] /\ c \in Conns
            /\ wconn' = [wconn EXCEPT ![w] = NoConn] /\ wpc' = [wpc EXCEPT ![w] = "take"]
            /\ life' = [life EXCEPT ![c] = "closed"]
            /\ held' = held \ {c} /\ open' = open \ {c}
  BY DropMoves
<1>2. SUFFICES ASSUME NEW d \in Conns, life'[d] # "closed"
               PROVE  2 * (answered[d] + beingWritten(d))' + buf'[d] + sock'[d] = sent'[d]
  BY DEF Conserved
<1>3. d # c /\ life[d] # "closed"
  BY <1>1, <1>2 DEF OwnInv, OwnershipTypes, Lives
<1>4. \A v \in Workers : writes(v, d)' <=> writes(v, d)
  BY <1>1, <1>3, ServerAssumption DEF writes, OwnInv, OwnershipTypes
<1> QED BY <1>1, <1>3, <1>4, SameContent

\* Reading moves halves from the socket to the buffer, handling takes two of
\* them for the response that writeKeep then counts; nothing else touches them.
LEMMA ConservedStep == OwnInv /\ WireTypes /\ Conserved /\ [Next]_vars => Conserved'
<1> SUFFICES ASSUME OwnInv, WireTypes, Conserved, [Next]_vars PROVE Conserved'
  OBVIOUS
<1> USE ServerAssumption
\* Enough to show: what was not closed stays the same
<1>1. ASSUME UNCHANGED <<sent, sock, buf, answered>>,
             \A c \in Conns : life'[c] # "closed" => life[c] # "closed",
             \A w \in Workers, c \in Conns : writes(w, c)' <=> writes(w, c)
      PROVE  Conserved'
  <2>1. SUFFICES ASSUME NEW d \in Conns, life'[d] # "closed"
                 PROVE  2 * (answered[d] + beingWritten(d))' + buf'[d] + sock'[d] = sent'[d]
    BY DEF Conserved
  <2> QED BY <1>1, <2>1, SameContent
<1>2. ASSUME UNCHANGED <<sent, sock, buf, answered, wconn, wpc>>,
             \A c \in Conns : life'[c] # "closed" => life[c] # "closed"
      PROVE  Conserved'
  BY <1>1, <1>2 DEF writes
<1>3. CASE UNCHANGED vars
  BY <1>2, <1>3 DEF vars, workers, wire
<1>4. CASE \/ start \/ spawned \/ check \/ poll \/ polled \/ giveReady \/ given \/ readWake
           \/ collect \/ acceptNothing \/ stop \/ serveFailed \/ pollFailed \/ shutdown
  BY <1>2, <1>4 DEF start, spawned, check, poll, polled, giveReady, given, readWake, collect,
     acceptNothing, stop, serveFailed, pollFailed, shutdown, workers, wire
<1>5. CASE spawn
  <2>1. PICK w \in unborn : wpc' = [wpc EXCEPT ![w] = "take"]
    BY <1>5 DEF spawn
  <2>2. UNCHANGED <<wconn, wire>>
    BY <1>5 DEF spawn
  <2>3. \A v \in Workers, c \in Conns : writes(v, c)' <=> writes(v, c)
    BY <2>1, <2>2 DEF writes, unborn, OwnInv, OwnershipTypes
  <2> QED BY <1>1, <2>2, <2>3 DEF wire
<1>6. CASE accept \/ expire \/ finish \/ closeListener
  BY <1>2, <1>6 DEF accept, expire, finish, closeListener, closeAll, workers, OwnInv, OwnershipTypes
<1>7. ASSUME NEW c \in Conns, connect(c) \/ hangUp(c) PROVE Conserved'
  BY <1>2, <1>7 DEF connect, hangUp, workers, OwnInv, OwnershipTypes
<1>8. ASSUME NEW c \in Conns, send(c) PROVE Conserved'
  <2>1. SUFFICES ASSUME NEW d \in Conns, life'[d] # "closed"
                 PROVE  2 * (answered[d] + beingWritten(d))' + buf'[d] + sock'[d] = sent'[d]
    BY DEF Conserved
  <2>2. /\ sent' = [sent EXCEPT ![c] = @ + 1] /\ sock' = [sock EXCEPT ![c] = @ + 1]
        /\ UNCHANGED <<wconn, wpc, life, buf, answered>>
    BY <1>8 DEF send, workers
  <2>3. beingWritten(d)' = beingWritten(d) /\ beingWritten(d) \in {0, 1}
    BY <2>2 DEF beingWritten, writes
  <2>4. 2 * (answered[d] + beingWritten(d)) + buf[d] + sock[d] = sent[d]
    BY <2>1, <2>2 DEF Conserved
  <2> QED BY <2>2, <2>3, <2>4 DEF WireTypes
<1>9. ASSUME NEW w \in Workers, takeFirst(w) PROVE Conserved'
  <2>1. PICK c \in queued : /\ wconn' = [wconn EXCEPT ![w] = c] /\ wpc' = [wpc EXCEPT ![w] = "read"]
                            /\ wpc[w] \in {"take", "wait"} /\ UNCHANGED life
    BY <1>9, TakeFirstMoves
  <2>2. \A v \in Workers, d \in Conns : writes(v, d)' <=> writes(v, d)
    BY <2>1 DEF writes, OwnInv, OwnershipTypes
  <2>3. UNCHANGED <<sent, sock, buf, answered>>
    BY <1>9 DEF takeFirst, wire
  <2> QED BY <1>1, <2>1, <2>2, <2>3
<1>10. ASSUME NEW w \in Workers, takeWait(w) \/ takeEnd(w) \/ takeSpurious(w) \/ next(w) \/ soon(w)
       PROVE Conserved'
  <2>1. UNCHANGED <<wconn, wire>>
    BY <1>10 DEF takeWait, takeEnd, takeSpurious, next, soon, workers
  <2>2. \/ UNCHANGED wpc
        \/ wpc[w] # "write" /\ \E p \in WorkerPlaces \ {"write"} : wpc' = [wpc EXCEPT ![w] = p]
    BY <1>10 DEF takeWait, takeEnd, takeSpurious, atTake, next, nextPlace, soon, wgo, workers,
                 WorkerPlaces
  <2>3. \A v \in Workers, d \in Conns : writes(v, d)' <=> writes(v, d)
    BY <2>1, <2>2 DEF writes, OwnInv, OwnershipTypes
  <2> QED BY <1>1, <2>1, <2>3 DEF wire
<1>11. ASSUME NEW w \in Workers, giveBack(w) PROVE Conserved'
  <2>1. PICK c \in held : /\ wpc[w] = "return" /\ wpc' = [wpc EXCEPT ![w] = "take"]
                          /\ wconn' = [wconn EXCEPT ![w] = NoConn] /\ UNCHANGED life
    BY <1>11, GiveBackMoves
  <2>2. \A v \in Workers, d \in Conns : writes(v, d)' <=> writes(v, d)
    BY <2>1 DEF writes, OwnInv, OwnershipTypes
  <2>3. UNCHANGED <<sent, sock, buf, answered>>
    BY <1>11 DEF giveBack, wire
  <2> QED BY <1>1, <2>1, <2>2, <2>3
<1>12. ASSUME NEW w \in Workers, gone(w) \/ writeFailed(w) \/ badRequest(w) \/ writeClose(w)
       PROVE Conserved'
  <2>1. /\ wpc[w] \in Serving /\ drop(w) /\ UNCHANGED <<sent, sock, buf>>
        /\ answered' = answered \/ answered' = [answered EXCEPT ![wconn[w]] = @ + 1]
    BY <1>12 DEF gone, writeFailed, badRequest, writeClose, Serving
  <2>2. \A c \in Conns : c # wconn[w] => answered'[c] = answered[c]
    BY <2>1 DEF WireTypes
  <2> QED BY <2>1, <2>2, DropConserves DEF WireTypes
\* The steps of a worker on the requests of its connection
<1>13. ASSUME NEW w \in Workers, read(w) \/ handle(w) \/ writeKeep(w) PROVE Conserved'
  <2>1. PICK c \in Conns :
           /\ c = wconn[w] /\ life[c] # "closed" /\ \A v \in Workers : wconn[v] = c => v = w
           /\ beingWritten(c) = IF wpc[w] = "write" THEN 1 ELSE 0
    BY <1>13, WritesOwn DEF read, handle, writeKeep, Serving
  <2>2. UNCHANGED <<wconn, life, sent>>
    BY <1>13 DEF read, handle, writeKeep, workers
  <2>3. wpc' = wpc \/ \E p \in WorkerPlaces : wpc' = [wpc EXCEPT ![w] = p]
    BY <1>13 DEF read, handle, writeKeep, wgo, workers, WorkerPlaces
  <2>4. beingWritten(c)' = IF wpc'[w] = "write" THEN 1 ELSE 0
    BY <2>1, <2>2 DEF beingWritten, writes
  <2>5. 2 * (answered[c] + beingWritten(c)) + buf[c] + sock[c] = sent[c]
    BY <2>1 DEF Conserved
  <2>6. /\ answered[c] \in Nat /\ buf[c] \in Nat /\ sock[c] \in Nat /\ sent[c] \in Nat
    BY <2>1 DEF WireTypes
  <2>7. 2 * (answered[c] + beingWritten(c))' + buf'[c] + sock'[c] = sent'[c]
    <3>1. CASE read(w)
      <4>1. PICK n \in 1..sock[c] : /\ sock' = [sock EXCEPT ![c] = @ - n]
                                    /\ buf' = [buf EXCEPT ![c] = @ + n]
        BY <2>1, <3>1 DEF read
      <4>2. answered'[c] = answered[c] /\ wpc' = wpc
        BY <3>1 DEF read, workers
      <4>3. sock'[c] = sock[c] - n /\ buf'[c] = buf[c] + n /\ sent'[c] = sent[c] /\ n \in Int
        BY <4>1, <2>1, <2>2, <2>6 DEF WireTypes
      <4> QED BY <2>1, <2>4, <2>5, <2>6, <4>2, <4>3
    <3>2. CASE handle(w)
      <4>1. /\ answered'[c] = answered[c] /\ sock'[c] = sock[c] /\ sent'[c] = sent[c]
            /\ buf'[c] = buf[c] - 2 /\ wpc[w] = "read" /\ wpc'[w] = "write"
        BY <3>2, <2>1, <2>2 DEF handle, wgo, WireTypes, OwnInv, OwnershipTypes
      <4> QED BY <2>1, <2>4, <2>5, <2>6, <4>1
    <3>3. CASE writeKeep(w)
      <4>1. /\ answered'[c] = answered[c] + 1 /\ sock'[c] = sock[c] /\ sent'[c] = sent[c]
            /\ buf'[c] = buf[c] /\ wpc[w] = "write" /\ wpc'[w] = "next"
        BY <3>3, <2>1, <2>2 DEF writeKeep, wgo, WireTypes, OwnInv, OwnershipTypes
      <4> QED BY <2>1, <2>4, <2>5, <2>6, <4>1
    <3> QED BY <1>13, <3>1, <3>2, <3>3
  <2>8. SUFFICES ASSUME NEW d \in Conns, life'[d] # "closed", d # c
                 PROVE  2 * (answered[d] + beingWritten(d))' + buf'[d] + sock'[d] = sent'[d]
    BY <2>7 DEF Conserved
  <2>9. /\ sent'[d] = sent[d] /\ sock'[d] = sock[d] /\ buf'[d] = buf[d] /\ answered'[d] = answered[d]
    BY <1>13, <2>1, <2>8 DEF read, handle, writeKeep, WireTypes
  <2>10. \A v \in Workers : writes(v, d)' <=> writes(v, d)
    BY <2>1, <2>2, <2>3, <2>8 DEF writes, OwnInv, OwnershipTypes
  <2> QED BY <2>2, <2>8, <2>9, <2>10, SameContent
<1> QED
  BY <1>3, <1>4, <1>5, <1>6, <1>7, <1>8, <1>9, <1>10, <1>11, <1>12, <1>13
     DEF Next, Poller, Worker, Client

\* The counters stay within what was sent: that they do follows from Conserved.
LEMMA WireStep == OwnInv /\ WireTypes /\ Conserved /\ [Next]_vars => WireTypes'
<1> SUFFICES ASSUME OwnInv, WireTypes, Conserved, [Next]_vars PROVE WireTypes'
  OBVIOUS
<1> USE ServerAssumption
<1>1. CASE UNCHANGED wire
  BY <1>1 DEF wire, WireTypes
<1>2. ASSUME NEW c \in Conns, send(c) PROVE WireTypes'
  <2>1. life[c] # "closed" /\ beingWritten(c) \in {0, 1}
    BY <1>2 DEF send, beingWritten
  <2>2. 2 * (answered[c] + beingWritten(c)) + buf[c] + sock[c] = sent[c]
    BY <2>1 DEF Conserved
  <2>3. sent[c] + 1 \in 0..MaxHalves /\ sock[c] + 1 \in 0..MaxHalves
    BY <1>2, <2>1, <2>2 DEF send, WireTypes
  <2> QED BY <1>2, <2>3 DEF send, WireTypes
<1>3. ASSUME NEW c \in Conns, connect(c) \/ hangUp(c) PROVE WireTypes'
  BY <1>3 DEF connect, hangUp, WireTypes
<1>4. CASE accept \/ expire \/ finish \/ closeListener
  BY <1>4 DEF accept, expire, finish, closeListener, WireTypes
<1>5. ASSUME NEW w \in Workers, gone(w) \/ writeFailed(w) PROVE WireTypes'
  BY <1>5 DEF gone, writeFailed, WireTypes
<1>6. ASSUME NEW w \in Workers,
             read(w) \/ handle(w) \/ badRequest(w) \/ writeKeep(w) \/ writeClose(w)
      PROVE WireTypes'
  <2>1. PICK c \in Conns : /\ c = wconn[w] /\ life[c] # "closed"
                           /\ beingWritten(c) = IF wpc[w] = "write" THEN 1 ELSE 0
    BY <1>6, WritesOwn DEF read, handle, badRequest, writeKeep, writeClose, Serving
  <2>2. 2 * (answered[c] + beingWritten(c)) + buf[c] + sock[c] = sent[c]
    BY <2>1 DEF Conserved
  <2>3. /\ answered[c] \in 0..MaxHalves /\ buf[c] \in 0..MaxHalves
        /\ sock[c] \in 0..MaxHalves /\ sent[c] \in 0..MaxHalves
    BY DEF WireTypes
  <2>4. CASE read(w)
    <3>1. PICK n \in 1..sock[c] : /\ sock' = [sock EXCEPT ![c] = @ - n]
                                  /\ buf' = [buf EXCEPT ![c] = @ + n]
      BY <2>1, <2>4 DEF read
    <3>2. n \in Int /\ beingWritten(c) \in {0, 1}
      BY <2>1
    <3>3. sock[c] - n \in 0..MaxHalves /\ buf[c] + n \in 0..MaxHalves
      BY <2>2, <2>3, <3>2
    <3> QED BY <2>4, <3>1, <3>3 DEF read, WireTypes
  <2>5. CASE handle(w)
    <3>1. buf' = [buf EXCEPT ![c] = @ - 2] /\ buf[c] - 2 \in 0..MaxHalves
      BY <2>1, <2>3, <2>5 DEF handle
    <3> QED BY <2>5, <3>1 DEF handle, WireTypes
  <2>6. CASE badRequest(w) \/ writeKeep(w) \/ writeClose(w)
    <3>1. answered' = [answered EXCEPT ![c] = @ + 1] /\ UNCHANGED <<sent, sock, buf, eof>>
      BY <2>1, <2>6 DEF badRequest, writeKeep, writeClose
    <3>2. buf[c] > 0 \/ beingWritten(c) = 1
      BY <2>1, <2>6 DEF badRequest, writeKeep, writeClose
    <3>3. beingWritten(c) \in {0, 1}
      BY <2>1
    <3>4. answered[c] + 1 \in 0..MaxHalves
      BY <2>2, <2>3, <3>2, <3>3
    <3> QED BY <3>1, <3>4 DEF WireTypes
  <2> QED BY <1>6, <2>4, <2>5, <2>6
<1>7. ASSUME NEW w \in Workers,
             \/ takeFirst(w) \/ takeWait(w) \/ takeEnd(w) \/ takeSpurious(w) \/ next(w) \/ soon(w)
             \/ giveBack(w)
      PROVE WireTypes'
  BY <1>1, <1>7 DEF takeFirst, takeWait, takeEnd, takeSpurious, next, soon, giveBack
<1>8. CASE \/ start \/ spawn \/ spawned \/ check \/ poll \/ polled \/ giveReady \/ given \/ readWake
           \/ collect \/ acceptNothing \/ stop \/ serveFailed \/ pollFailed \/ shutdown
           \/ UNCHANGED vars
  BY <1>1, <1>8 DEF start, spawn, spawned, check, poll, polled, giveReady, given, readWake, collect,
     acceptNothing, stop, serveFailed, pollFailed, shutdown, vars
<1> QED
  BY <1>2, <1>3, <1>4, <1>5, <1>6, <1>7, <1>8 DEF Next, Poller, Worker, Client

ContentInv == OwnInv /\ ControlTypes /\ WireTypes /\ Conserved

\* All that is known of places, owners, types and content, in every state.
LEMMA ContentAlways == Spec => []ContentInv
<1>1. Init => ContentInv
  <2> SUFFICES ASSUME Init PROVE ContentInv
    OBVIOUS
  <2>1. OwnInv
    BY InitOwn
  <2>2. ControlTypes
    <3>1. seen \in [listener : BOOLEAN, woken : BOOLEAN, conns : SUBSET Conns]
      BY DEF Init, NothingSeen
    <3>2. /\ woke \in BOOLEAN /\ stopping \in BOOLEAN /\ wake \in BOOLEAN /\ listening \in BOOLEAN
          /\ wclose \in [Workers -> BOOLEAN]
      BY Zenon DEF Init
    <3> QED BY <3>1, <3>2 DEF Init, ControlTypes, PollerPlaces
  <2>3. WireTypes
    <3>1. eof \in [Conns -> BOOLEAN]
      BY Zenon DEF Init
    <3>2. 0 \in 0..MaxHalves
      BY ServerAssumption
    <3> QED BY <3>1, <3>2 DEF Init, WireTypes
  <2>4. Conserved
    BY DEF Init, Conserved, beingWritten, writes
  <2> QED BY <2>1, <2>2, <2>3, <2>4 DEF ContentInv
<1>2. ContentInv /\ [Next]_vars => ContentInv'
  BY OwnStep, ControlStep, WireStep, ConservedStep DEF ContentInv
<1> QED BY <1>1, <1>2, PTL DEF Spec

\* Every variable of the server and its wire keeps its type; in particular the
\* counters of a connection never go below zero or above what was sent.
THEOREM TypeCorrect == Spec => []TypeOK
<1>1. ContentInv => TypeOK
  BY DEF ContentInv, OwnInv, OwnershipTypes, ControlTypes, WireTypes, TypeOK
<1> QED BY <1>1, ContentAlways, PTL

\* What a client sent on an open connection is answered once, being answered, in
\* the buffer or in the socket, through any number of hand-overs between the
\* poller and the workers.
THEOREM NoRequestLost == Spec => []RequestsConserved
<1>1. ContentInv => RequestsConserved
  <2> SUFFICES ASSUME ContentInv, NEW c \in open
               PROVE  2 * (answered[c] + Cardinality({w \in Workers : wconn[w] = c /\ wpc[w] = "write"}))
                        + buf[c] + sock[c] = sent[c]
    BY DEF RequestsConserved
  <2> DEFINE writing == {w \in Workers : wconn[w] = c /\ wpc[w] = "write"}
  <2>1. c \in Conns /\ c # NoConn /\ life[c] # "closed"
    BY ServerAssumption DEF open
  <2>2. \A v, w \in writing : v = w
    BY <2>1 DEF ContentInv, OwnInv, OneOwner
  <2>3. Cardinality(writing) = beingWritten(c)
    <3>1. CASE writing = {}
      BY <3>1, FS_EmptySet DEF beingWritten, writes
    <3>2. ASSUME NEW w \in writing PROVE Cardinality(writing) = beingWritten(c)
      <4>1. writing = {w}
        BY <2>2
      <4>2. beingWritten(c) = 1
        BY DEF beingWritten, writes
      <4> QED BY <4>1, <4>2, FS_Singleton
    <3> QED BY <3>1, <3>2
  <2> QED BY <2>1, <2>3 DEF ContentInv, Conserved
<1> QED BY <1>1, ContentAlways, PTL
-----------------------------------------------------------------------------
(* Every hand-over is one that ConnectionLife allows *)

\* The abstract owner of a connection is the place it is in
OwnerIsPlace(c) ==
    /\ life[c] \in {"new", "backlog"} => ownerOf(c) = "client"
    /\ life[c] = "closed" => ownerOf(c) = "closed"
    /\ c \in held => ownerOf(c) = "worker" /\ life[c] = "open"
    /\ c \in queued => ownerOf(c) = "queue" /\ life[c] = "open"
    /\ c \in returned => ownerOf(c) = "returned" /\ life[c] = "open"
    /\ c \in idle => ownerOf(c) = "poller" /\ life[c] = "open"
    /\ life[c] = "open" => c \in held \cup queued \cup returned \cup idle

OwnersArePlaces == \A c \in Conns : OwnerIsPlace(c)

\* With one owner each, no place hides another in the mapping.
LEMMA OwnerPlaces == OwnInv => OwnersArePlaces
<1> SUFFICES ASSUME OwnInv, NEW c \in Conns PROVE OwnerIsPlace(c)
  BY DEF OwnersArePlaces
<1> USE DEF OwnerIsPlace
<1>1. c \in held \cup queued \cup returned \cup idle <=> life[c] = "open"
  BY DEF OwnInv, OneOwner, open
<1>2. /\ ~(c \in held /\ c \in queued) /\ ~(c \in held /\ c \in returned) /\ ~(c \in held /\ c \in idle)
      /\ ~(c \in queued /\ c \in returned) /\ ~(c \in queued /\ c \in idle)
      /\ ~(c \in returned /\ c \in idle)
  BY DEF OwnInv, OneOwner
<1>3. CASE life[c] = "open"
  BY <1>1, <1>2, <1>3 DEF ownerOf
<1>4. CASE life[c] # "open"
  BY <1>1, <1>4 DEF ownerOf
<1> QED BY <1>3, <1>4

\* Where a connection may go in one step, and who answers on it then.
LEMMA LifeStep ==
  ASSUME OwnInv, OwnInv', [Next]_vars
  PROVE  [Life!Next]_<<[c \in Conns |-> ownerOf(c)], answered>>
<1> DEFINE same(c) == ownerOf(c)' = ownerOf(c)
           handed(c) == <<ownerOf(c), ownerOf(c)'>> \in Life!HandsTo
<1>a. \A c \in Conns : ownerOf(c) \in Life!Owners
  BY DEF ownerOf, Life!Owners
<1>b. \A c \in Conns : ownerOf(c)' \in Life!Owners
  BY DEF ownerOf, Life!Owners
<1>c. OwnersArePlaces /\ OwnersArePlaces'
  <2>1. OwnInv' => OwnersArePlaces'
    BY OwnerPlaces, PTL
  <2> QED BY <2>1, OwnerPlaces
\* Enough to show: every connection stays or is handed on, and at most one is
\* answered on, by the worker that has it
<1>1. ASSUME \A c \in Conns : same(c) \/ handed(c),
             UNCHANGED answered \/ \E c \in Conns : /\ ownerOf(c) = "worker"
                                                    /\ answered' = [answered EXCEPT ![c] = @ + 1]
      PROVE  [Life!Next]_<<[c \in Conns |-> ownerOf(c)], answered>>
  BY <1>b, <1>1 DEF Life!Next, Life!handOn, Life!answer
<1> USE DEF OwnersArePlaces, OwnerIsPlace, Life!HandsTo
\* Nothing is handed on
<1>2. ASSUME UNCHANGED <<queue, returned, wconn, life, answered>>
      PROVE  [Life!Next]_<<[c \in Conns |-> ownerOf(c)], answered>>
  BY <1>2 DEF ownerOf, held, queued
<1>3. CASE \/ start \/ spawn \/ spawned \/ check \/ poll \/ polled \/ given \/ readWake \/ acceptNothing
           \/ stop \/ serveFailed \/ pollFailed \/ shutdown \/ UNCHANGED vars
  BY <1>2, <1>3 DEF start, spawn, spawned, check, poll, polled, given, readWake, acceptNothing,
     stop, serveFailed, pollFailed, shutdown, vars, shared, workers, wire
<1>4. ASSUME NEW c \in Conns, send(c) \/ hangUp(c)
      PROVE  [Life!Next]_<<[d \in Conns |-> ownerOf(d)], answered>>
  BY <1>2, <1>4 DEF send, hangUp, shared, workers
<1>5. ASSUME NEW w \in Workers,
             \/ takeWait(w) \/ takeEnd(w) \/ takeSpurious(w) \/ read(w) \/ handle(w) \/ next(w)
             \/ soon(w)
      PROVE  [Life!Next]_<<[d \in Conns |-> ownerOf(d)], answered>>
  BY <1>2, <1>5 DEF takeWait, takeEnd, takeSpurious, read, handle, next, soon, shared, workers, wire
\* The client connects: still the client's
<1>6. ASSUME NEW c \in Conns, connect(c)
      PROVE  [Life!Next]_<<[d \in Conns |-> ownerOf(d)], answered>>
  <2>1. UNCHANGED <<queue, returned, wconn, answered>> /\ life[c] = "new"
        /\ life' = [life EXCEPT ![c] = "backlog"]
    BY <1>6 DEF connect, shared, workers
  <2>2. held' = held /\ queued' = queued
    BY <2>1 DEF held, queued
  <2>3. \A d \in Conns : same(d)
    BY <1>c, <2>1, <2>2 DEF ownerOf, OwnInv, OwnershipTypes
  <2> QED BY <1>1, <2>1, <2>3
\* The poller takes a connection over, gives one to the queue, or closes some
<1>7. CASE accept
  <2>1. PICK c \in Conns : /\ life[c] = "backlog" /\ life' = [life EXCEPT ![c] = "open"]
                           /\ idle' = idle \cup {c}
    BY <1>7 DEF accept
  <2>2. UNCHANGED <<queue, returned, wconn, answered>> /\ held' = held /\ queued' = queued
    BY <1>7 DEF accept, shared, workers, held, queued
  <2>3. ownerOf(c) = "client" /\ ownerOf(c)' = "poller"
    BY <1>c, <2>1
  <2>4. \A d \in Conns : d # c => same(d)
    BY <2>1, <2>2 DEF ownerOf, OwnInv, OwnershipTypes
  <2> QED BY <1>1, <2>2, <2>3, <2>4
<1>8. CASE expire
  <2>1. PICK C \in SUBSET (idle \ fresh) : closeAll(C) /\ idle' = idle \ C
    BY <1>8 DEF expire
  <2>2. UNCHANGED <<queue, returned, wconn, answered>> /\ held' = held /\ queued' = queued
    BY <1>8 DEF expire, shared, workers, held, queued
  <2>3. \A d \in C : d \in Conns => ownerOf(d) = "poller" /\ ownerOf(d)' = "closed"
    BY <1>c, <2>1 DEF closeAll
  <2>4. \A d \in Conns : d \notin C => same(d)
    BY <2>1, <2>2 DEF ownerOf, closeAll
  <2> QED BY <1>1, <2>2, <2>3, <2>4
<1>9. CASE finish
  <2>1. closeAll(idle \cup returned) /\ returned' = {}
    BY <1>9 DEF finish
  <2>2. UNCHANGED <<queue, wconn, answered>> /\ held' = held /\ queued' = queued
    BY <1>9 DEF finish, workers, held, queued
  <2>3. \A d \in Conns : d \in idle \cup returned
                           => ownerOf(d) \in {"poller", "returned"} /\ ownerOf(d)' = "closed"
    BY <1>c, <2>1 DEF closeAll
  <2>4. \A d \in Conns : d \notin idle \cup returned => same(d)
    BY <2>1, <2>2 DEF ownerOf, closeAll
  <2> QED BY <1>1, <2>2, <2>3, <2>4
<1>10. CASE collect
  <2>1. /\ returned' = {} /\ idle' = idle \cup returned
        /\ UNCHANGED <<queue, wconn, life, answered>> /\ held' = held /\ queued' = queued
    BY <1>10 DEF collect, workers, wire, held, queued
  <2>2. \A d \in Conns : d \in returned => ownerOf(d) = "returned" /\ ownerOf(d)' = "poller"
    BY <1>c, <2>1
  <2>3. \A d \in Conns : d \notin returned => same(d)
    BY <2>1 DEF ownerOf
  <2> QED BY <1>1, <2>1, <2>2, <2>3
<1>11. CASE giveReady
  <2>1. PICK c \in idle : /\ queued' = queued \cup {c} /\ held' = held
                          /\ UNCHANGED <<returned, life>>
    BY <1>11, GiveReadyMoves
  <2>2. answered' = answered /\ c \in Conns
    BY <1>11 DEF giveReady, wire, OwnInv, OwnershipTypes
  <2>3. ownerOf(c) = "poller" /\ ownerOf(c)' = "queue"
    BY <1>c, <2>1, <2>2
  <2>4. \A d \in Conns : d # c => same(d)
    BY <2>1 DEF ownerOf
  <2> QED BY <1>1, <2>2, <2>3, <2>4
\* shutdown() resets what was not accepted
<1>12. CASE closeListener
  <2> DEFINE B == {c \in Conns : life[c] = "backlog"}
  <2>1. closeAll(B) /\ UNCHANGED <<queue, returned, wconn, answered>>
        /\ held' = held /\ queued' = queued
    BY <1>12 DEF closeListener, workers, held, queued
  <2>2. \A d \in B : ownerOf(d) = "client" /\ ownerOf(d)' = "closed"
    BY <1>c, <2>1 DEF closeAll
  <2>3. \A d \in Conns : d \notin B => same(d)
    BY <2>1 DEF ownerOf, closeAll
  <2> QED BY <1>1, <2>1, <2>2, <2>3
\* A worker takes a connection, answers on it, gives it back or closes it
<1>13. ASSUME NEW w \in Workers, takeFirst(w)
       PROVE  [Life!Next]_<<[d \in Conns |-> ownerOf(d)], answered>>
  <2>1. PICK c \in queued : /\ c \in Conns /\ queued' = queued \ {c} /\ held' = held \cup {c}
                            /\ UNCHANGED <<returned, life>>
    BY <1>13, TakeFirstMoves
  <2>2. answered' = answered
    BY <1>13 DEF takeFirst, wire
  <2>3. ownerOf(c) = "queue" /\ ownerOf(c)' = "worker"
    BY <1>c, <2>1
  <2>4. \A d \in Conns : d # c => same(d)
    BY <2>1 DEF ownerOf
  <2> QED BY <1>1, <2>1, <2>2, <2>3, <2>4
<1>14. ASSUME NEW w \in Workers, writeKeep(w)
       PROVE  [Life!Next]_<<[d \in Conns |-> ownerOf(d)], answered>>
  <2>1. /\ UNCHANGED <<queue, returned, wconn, life>>
        /\ answered' = [answered EXCEPT ![wconn[w]] = @ + 1]
    BY <1>14 DEF writeKeep, shared
  <2>2. \A d \in Conns : same(d)
    BY <2>1 DEF ownerOf, held, queued
  <2>3. wconn[w] \in Conns /\ wconn[w] \in held
    BY <1>14, ServerAssumption
       DEF writeKeep, OwnInv, OwnershipTypes, HoldsWhileServing, Serving, held
  <2> QED BY <1>1, <1>c, <2>1, <2>2, <2>3
<1>15. ASSUME NEW w \in Workers, badRequest(w) \/ gone(w) \/ writeClose(w) \/ writeFailed(w)
       PROVE  [Life!Next]_<<[d \in Conns |-> ownerOf(d)], answered>>
  <2>1. /\ wpc[w] \in Serving /\ drop(w) /\ UNCHANGED <<queue, returned>>
        /\ answered' = answered \/ answered' = [answered EXCEPT ![wconn[w]] = @ + 1]
    BY <1>15 DEF badRequest, gone, writeClose, writeFailed, shared, Serving
  <2>2. PICK c \in held : /\ c = wconn[w] /\ c \in Conns
                          /\ life' = [life EXCEPT ![c] = "closed"] /\ held' = held \ {c}
    BY <2>1, DropMoves
  <2>3. ownerOf(c) = "worker" /\ ownerOf(c)' = "closed"
    BY <1>c, <2>2 DEF OwnInv, OwnershipTypes
  <2>4. \A d \in Conns : d # c => same(d)
    BY <2>1, <2>2 DEF ownerOf, queued, OwnInv, OwnershipTypes
  <2> QED BY <1>1, <2>1, <2>2, <2>3, <2>4
<1>16. ASSUME NEW w \in Workers, giveBack(w)
       PROVE  [Life!Next]_<<[d \in Conns |-> ownerOf(d)], answered>>
  <2>1. PICK c \in held : /\ c \in Conns /\ returned' = returned \cup {c} /\ held' = held \ {c}
                          /\ UNCHANGED life /\ queued' = queued
    BY <1>16, GiveBackMoves
  <2>2. answered' = answered
    BY <1>16 DEF giveBack, wire
  <2>3. ownerOf(c) = "worker" /\ ownerOf(c)' = "returned"
    BY <1>c, <2>1
  <2>4. \A d \in Conns : d # c => same(d)
    BY <2>1 DEF ownerOf
  <2> QED BY <1>1, <2>1, <2>2, <2>3, <2>4
<1> QED
  BY <1>3, <1>4, <1>5, <1>6, <1>7, <1>8, <1>9, <1>10, <1>11, <1>12, <1>13, <1>14, <1>15, <1>16
     DEF Next, Poller, Worker, Client

\* The server implements ConnectionLife: whatever its threads do, a connection
\* is handed from owner to owner only as that specification allows, and a
\* response is written only by the worker that owns the connection.
THEOREM ImplementsLife == Spec => FollowsLife
<1>1. Init => Life!Init
  <2> SUFFICES ASSUME Init PROVE Life!Init
    OBVIOUS
  <2>1. \A c \in Conns : ownerOf(c) = "client"
    BY InitOwn, OwnerPlaces DEF OwnersArePlaces, OwnerIsPlace, Init
  <2> QED BY <2>1 DEF Init, Life!Init
<1>2. Spec => []OwnInv
  BY InitOwn, OwnStep, PTL DEF Spec
<1>3. OwnInv /\ OwnInv' /\ [Next]_vars => [Life!Next]_<<[c \in Conns |-> ownerOf(c)], answered>>
  BY LifeStep
<1> QED BY <1>1, <1>2, <1>3, PTL DEF Spec, FollowsLife, Life!Spec
=============================================================================
