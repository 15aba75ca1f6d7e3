----------------------------- MODULE HttpServer -----------------------------
(***************************************************************************)
(* net.http.Server (std/net/http/server.sd). The thread of serve() is the  *)
(* poller: it waits for the listener, the wake socket and the idle         *)
(* connections, and gives a connection to the workers when a request comes *)
(* on it. Workers answer what has come and give the connection back, or    *)
(* close it. shutdown() may come from another thread at any time.          *)
(*                                                                         *)
(* What runs under server.mutex never blocks in it, so a critical section  *)
(* is one step. A request is two halves on the wire, so it can come in     *)
(* parts, be pipelined, and be read in any portions.                       *)
(***************************************************************************)
EXTENDS Condition, Integers, Sequences, FiniteSets

CONSTANTS Workers, Conns, NoConn,
          MaxHalves,    \* bound: halves of requests a client sends
          MayShutdown,  \* shutdown() is called, or the server runs for ever
          MayFail       \* net.Poll.wait and thread.spawn can fail

ASSUME ServerAssumption == /\ IsFiniteSet(Workers)
                           /\ NoConn \notin Conns
                           /\ MaxHalves \in Nat
                           /\ MayShutdown \in BOOLEAN /\ MayFail \in BOOLEAN

VARIABLES
  \* Server: what the threads share
  queue, returned, woke, stopping, wake, wakeBytes, listening,
  \* the poller: its place, its idle list, what poll() saw, what it just added
  ppc, idle, seen, fresh,
  \* the workers: place, connection, if the response closes it
  wpc, wconn, wclose,
  \* shutdown()
  spc,
  \* per connection: life, halves sent, in the socket, in Connection.buffer,
  \* responses written, and if the client closed its end
  life, sent, sock, buf, answered, eof

shared  == <<queue, returned, woke, stopping, wake, wakeBytes, listening>>
poller  == <<ppc, idle, seen, fresh>>
workers == <<wpc, wconn, wclose>>
wire    == <<life, sent, sock, buf, answered, eof>>
vars    == <<waiting, shared, poller, workers, spc, wire>>

\* new -> backlog (connected, not accepted) -> open -> closed
Lives == {"new", "backlog", "open", "closed"}

PollerPlaces == {"start", "spawn", "check", "poll", "polled", "give", "wake", "collect",
                 "accept", "expire", "stop", "join", "over", "failed"}
WorkerPlaces == {"unborn", "take", "wait", "read", "write", "next",
                 "soon", "return", "done"}

NothingSeen == [listener |-> FALSE, woken |-> FALSE, conns |-> {}]

TypeOK == /\ waiting \subseteq Workers
          /\ queue \in Seq(Conns) /\ returned \subseteq Conns
          /\ woke \in BOOLEAN /\ stopping \in BOOLEAN /\ wake \in BOOLEAN
          /\ wakeBytes \in Nat /\ listening \in BOOLEAN
          /\ ppc \in PollerPlaces /\ idle \subseteq Conns
          /\ seen \in [listener : BOOLEAN, woken : BOOLEAN, conns : SUBSET Conns]
          /\ fresh \subseteq Conns
          /\ wpc \in [Workers -> WorkerPlaces]
          /\ wconn \in [Workers -> Conns \cup {NoConn}]
          /\ wclose \in [Workers -> BOOLEAN]
          /\ spc \in {"before", "stopped", "over"}
          /\ life \in [Conns -> Lives]
          /\ sent \in [Conns -> 0..MaxHalves] /\ sock \in [Conns -> 0..MaxHalves]
          /\ buf \in [Conns -> 0..MaxHalves] /\ answered \in [Conns -> 0..MaxHalves]
          /\ eof \in [Conns -> BOOLEAN]

Init == /\ waiting = {}
        /\ queue = <<>> /\ returned = {} /\ woke = FALSE
        /\ stopping = FALSE /\ wake = FALSE /\ wakeBytes = 0 /\ listening = TRUE
        /\ ppc = "start" /\ idle = {} /\ seen = NothingSeen /\ fresh = {}
        /\ wpc = [w \in Workers |-> "unborn"]
        /\ wconn = [w \in Workers |-> NoConn]
        /\ wclose = [w \in Workers |-> FALSE]
        /\ spc = "before"
        /\ life = [c \in Conns |-> "new"]
        /\ sent = [c \in Conns |-> 0] /\ sock = [c \in Conns |-> 0]
        /\ buf = [c \in Conns |-> 0] /\ answered = [c \in Conns |-> 0]
        /\ eof = [c \in Conns |-> FALSE]

\* poll() reports the socket: something to read, or the other end closed
readable(c) == sock[c] > 0 \/ eof[c]

\* closeConnection: the socket is closed and the Connection freed
closeAll(C) == life' = [c \in Conns |-> IF c \in C THEN "closed" ELSE life[c]]
-----------------------------------------------------------------------------
(* Clients *)

connect(c) == /\ life[c] = "new" /\ listening
              /\ life' = [life EXCEPT ![c] = "backlog"]
              /\ UNCHANGED <<waiting, shared, poller, workers, spc,
                             sent, sock, buf, answered, eof>>

send(c) == /\ life[c] \in {"backlog", "open"} /\ ~eof[c] /\ sent[c] < MaxHalves
           /\ sent' = [sent EXCEPT ![c] = @ + 1]
           /\ sock' = [sock EXCEPT ![c] = @ + 1]
           /\ UNCHANGED <<waiting, shared, poller, workers, spc, life, buf, answered, eof>>

hangUp(c) == /\ life[c] \in {"backlog", "open"} /\ ~eof[c]
             /\ eof' = [eof EXCEPT ![c] = TRUE]
             /\ UNCHANGED <<waiting, shared, poller, workers, spc,
                            life, sent, sock, buf, answered>>

Client(c) == connect(c) \/ send(c) \/ hangUp(c)
-----------------------------------------------------------------------------
(* serve(): the poller *)

goto(place) == ppc' = place

\* The wake connection is made
start == /\ ppc = "start"
         /\ wake' = TRUE
         /\ goto("spawn")
         /\ UNCHANGED <<waiting, queue, returned, woke, stopping, wakeBytes, listening,
                        idle, seen, fresh, workers, spc, wire>>

unborn == {w \in Workers : wpc[w] = "unborn"}

spawn == /\ ppc = "spawn"
         /\ \E w \in unborn : wpc' = [wpc EXCEPT ![w] = "take"]
         /\ UNCHANGED <<waiting, shared, poller, wconn, wclose, spc, wire>>

spawned == /\ ppc = "spawn" /\ unborn = {}
           /\ goto("check")
           /\ UNCHANGED <<waiting, shared, idle, seen, fresh, workers, spc, wire>>

\* The wake connection or a thread couldn't be made: serve() returns the error,
\* and leaves what it started
serveFailed == /\ MayFail
               /\ ppc = "start" \/ (ppc = "spawn" /\ unborn # {})
               /\ goto("failed")
               /\ UNCHANGED <<waiting, shared, idle, seen, fresh, workers, spc, wire>>

\* while !server.isStopping()
check == /\ ppc = "check"
         /\ goto(IF stopping THEN "stop" ELSE "poll")
         /\ UNCHANGED <<waiting, shared, idle, seen, fresh, workers, spc, wire>>

\* p.wait(1000) returns: at once when a socket can be read, else after a second
poll == /\ ppc = "poll"
        /\ seen' = [listener |-> listening /\ \E c \in Conns : life[c] = "backlog",
                    woken    |-> wakeBytes > 0,
                    conns    |-> {c \in idle : readable(c)}]
        /\ fresh' = {}
        /\ goto("polled")
        /\ UNCHANGED <<waiting, shared, idle, workers, spc, wire>>

pollFailed == /\ ppc = "poll" /\ MayFail
              /\ goto("stop")
              /\ UNCHANGED <<waiting, shared, idle, seen, fresh, workers, spc, wire>>

polled == /\ ppc = "polled"
          /\ goto(IF stopping THEN "stop" ELSE "give")
          /\ UNCHANGED <<waiting, shared, idle, seen, fresh, workers, spc, wire>>

giveUnheard(c) == queue' = Append(queue, c) /\ UNCHANGED waiting

\* Server.give: to a worker
give(c) == queue' = Append(queue, c) /\ signal

\* The next idle connection that poll() saw goes to the workers
giveReady == /\ ppc = "give"
             /\ \E c \in idle \cap seen.conns :
                   /\ give(c)
                   /\ idle' = idle \ {c}
             /\ UNCHANGED <<returned, woke, stopping, wake, wakeBytes, listening,
                            ppc, seen, fresh, workers, spc, wire>>

given == /\ ppc = "give" /\ idle \cap seen.conns = {}
         /\ goto(IF seen.woken THEN "wake" ELSE "accept")
         /\ UNCHANGED <<waiting, shared, idle, seen, fresh, workers, spc, wire>>

ScratchBytes == 64   \* scratch: [64]u8

readWake == /\ ppc = "wake"
            /\ wakeBytes' = IF wakeBytes > ScratchBytes THEN wakeBytes - ScratchBytes ELSE 0
            /\ goto("collect")
            /\ UNCHANGED <<waiting, queue, returned, woke, stopping, wake, listening,
                           idle, seen, fresh, workers, spc, wire>>

collectKept == /\ ppc = "collect"
               /\ woke' = FALSE
               /\ idle' = idle \cup returned
               /\ fresh' = returned
               /\ goto("accept")
               /\ UNCHANGED <<waiting, queue, returned, stopping, wake, wakeBytes, listening,
                              seen, workers, spc, wire>>

collectStillWoke == /\ ppc = "collect"
                    /\ idle' = idle \cup returned
                    /\ fresh' = returned
                    /\ returned' = {}
                    /\ goto("accept")
                    /\ UNCHANGED <<waiting, queue, woke, stopping, wake, wakeBytes, listening,
                                   seen, workers, spc, wire>>

\* Under the lock: takes all the connections the workers are done with
collect == /\ ppc = "collect"
           /\ woke' = FALSE
           /\ idle' = idle \cup returned
           /\ fresh' = returned
           /\ returned' = {}
           /\ goto("accept")
           /\ UNCHANGED <<waiting, queue, stopping, wake, wakeBytes, listening,
                          seen, workers, spc, wire>>

\* listener.accept(), when poll() saw it: an error when it was closed since
accept == /\ ppc = "accept" /\ seen.listener /\ listening
          /\ \E c \in Conns :
                /\ life[c] = "backlog"
                /\ life' = [life EXCEPT ![c] = "open"]
                /\ idle' = idle \cup {c}
                /\ fresh' = fresh \cup {c}
          /\ goto("expire")
          /\ UNCHANGED <<waiting, shared, seen, workers, spc, sent, sock, buf, answered, eof>>

acceptNothing == /\ ppc = "accept" /\ ~(seen.listener /\ listening)
                 /\ goto("expire")
                 /\ UNCHANGED <<waiting, shared, idle, seen, fresh, workers, spc, wire>>

\* Closes the connections that waited longer than idleTimeout: any that did not
\* get lastUsed = now in this round
expire == /\ ppc = "expire"
          /\ \E C \in SUBSET (idle \ fresh) :
                /\ closeAll(C)
                /\ idle' = idle \ C
          /\ goto("check")
          /\ UNCHANGED <<waiting, shared, seen, fresh, workers, spc, sent, sock, buf, answered, eof>>

stopUnheard == /\ ppc = "stop"
               /\ stopping' = TRUE
               /\ goto("join")
               /\ UNCHANGED <<waiting, queue, returned, woke, wake, wakeBytes, listening,
                              idle, seen, fresh, workers, spc, wire>>

\* After the loop: the workers are told to end when the queue is empty
stop == /\ ppc = "stop"
        /\ stopping' = TRUE
        /\ broadcast
        /\ goto("join")
        /\ UNCHANGED <<queue, returned, woke, wake, wakeBytes, listening,
                       idle, seen, fresh, workers, spc, wire>>

\* All threads are joined: closes the idle and the returned connections
finish == /\ ppc = "join" /\ \A w \in Workers : wpc[w] = "done"
          /\ closeAll(idle \cup returned)
          /\ idle' = {} /\ returned' = {}
          /\ wake' = FALSE
          /\ goto("over")
          /\ UNCHANGED <<waiting, queue, woke, stopping, wakeBytes, listening, seen, fresh,
                         workers, spc, sent, sock, buf, answered, eof>>

Poller == \/ start \/ spawn \/ spawned \/ check \/ poll \/ polled \/ giveReady \/ given
          \/ readWake \/ collect \/ accept \/ acceptNothing \/ expire \/ stop \/ finish
-----------------------------------------------------------------------------
(* work(): a worker *)

wgo(w, place) == wpc' = [wpc EXCEPT ![w] = place]

\* At the top of the loop, or woken in ready.wait(): the mutex is held (again)
atTake(w) == wpc[w] = "take" \/ (wpc[w] = "wait" /\ w \notin waiting)

takeFirst(w) == /\ atTake(w) /\ Len(queue) > 0
                /\ wconn' = [wconn EXCEPT ![w] = queue[1]]
                /\ queue' = Tail(queue)
                /\ wgo(w, "read")
                /\ UNCHANGED <<waiting, returned, woke, stopping, wake, wakeBytes, listening,
                               poller, wclose, spc, wire>>

takeWait(w) == /\ atTake(w) /\ Len(queue) = 0 /\ ~stopping
               /\ waiting' = waiting \cup {w}
               /\ wgo(w, "wait")
               /\ UNCHANGED <<shared, poller, wconn, wclose, spc, wire>>

takeEnd(w) == /\ atTake(w) /\ Len(queue) = 0 /\ stopping
              /\ wgo(w, "done")
              /\ UNCHANGED <<waiting, shared, poller, wconn, wclose, spc, wire>>

takeSpurious(w) == /\ wakeWithoutReason(w)
                   /\ UNCHANGED <<shared, poller, workers, spc, wire>>

\* closeConnection(c), and on to the next connection
drop(w) == /\ closeAll({wconn[w]})
           /\ wconn' = [wconn EXCEPT ![w] = NoConn]
           /\ wgo(w, "take")

\* conn.read() gives any part of what has come
read(w) == LET c == wconn[w] IN
           /\ wpc[w] = "read" /\ buf[c] < 2 /\ sock[c] > 0
           /\ \E n \in 1..sock[c] :
                 /\ sock' = [sock EXCEPT ![c] = @ - n]
                 /\ buf' = [buf EXCEPT ![c] = @ + n]
           /\ UNCHANGED <<waiting, shared, poller, workers, spc, life, sent, answered, eof>>

handleFresh(w) == LET c == wconn[w] IN
             /\ wpc[w] = "read" /\ buf[c] >= 2
             /\ buf' = [buf EXCEPT ![c] = 0]
             /\ \E wantsClose \in BOOLEAN :
                   wclose' = [wclose EXCEPT ![w] = wantsClose \/ stopping]
             /\ wgo(w, "write")
             /\ UNCHANGED <<waiting, shared, poller, wconn, spc, life, sent, sock, answered, eof>>

\* readRequest gives a request: the handler runs, and close is decided, from
\* what the client asked for (wantsClose) and if the server stops
handle(w) == LET c == wconn[w] IN
             /\ wpc[w] = "read" /\ buf[c] >= 2
             /\ buf' = [buf EXCEPT ![c] = @ - 2]
             /\ \E wantsClose \in BOOLEAN :
                   wclose' = [wclose EXCEPT ![w] = wantsClose \/ stopping]
             /\ wgo(w, "write")
             /\ UNCHANGED <<waiting, shared, poller, wconn, spc, life, sent, sock, answered, eof>>

\* What came is no request, or it didn't all come in readTimeout: an error
\* response (400, 408 ...), and the connection is closed
badRequest(w) == LET c == wconn[w] IN
                 /\ wpc[w] = "read" /\ buf[c] > 0
                 /\ answered' = [answered EXCEPT ![c] = @ + 1]
                 /\ drop(w)
                 /\ UNCHANGED <<waiting, shared, poller, wclose, spc, sent, sock, buf, eof>>

\* Gone: the client closed, or nothing came in readTimeout
gone(w) == LET c == wconn[w] IN
           /\ wpc[w] = "read" /\ buf[c] < 2 /\ sock[c] = 0
           /\ (buf[c] > 0 => eof[c])
           /\ drop(w)
           /\ UNCHANGED <<waiting, shared, poller, wclose, spc, sent, sock, buf, answered, eof>>

writeKeep(w) == LET c == wconn[w] IN
                /\ wpc[w] = "write" /\ ~wclose[w]
                /\ answered' = [answered EXCEPT ![c] = @ + 1]
                /\ wgo(w, "next")
                /\ UNCHANGED <<waiting, shared, poller, wconn, wclose, spc, life, sent, sock, buf, eof>>

writeClose(w) == LET c == wconn[w] IN
                 /\ wpc[w] = "write" /\ wclose[w]
                 /\ answered' = [answered EXCEPT ![c] = @ + 1]
                 /\ drop(w)
                 /\ UNCHANGED <<waiting, shared, poller, wclose, spc, sent, sock, buf, eof>>

\* conn.write() fails: the client is gone, or takes nothing in writeTimeout
writeFailed(w) == /\ wpc[w] = "write"
                  /\ drop(w)
                  /\ UNCHANGED <<waiting, shared, poller, wclose, spc, sent, sock, buf, answered, eof>>

nextPlaceUnread(w, headCame) == IF Len(queue) > 0 THEN "return" ELSE "soon"

\* Answered now: what is in the buffer when it holds the end of a head (the
\* first half of a request may). Else nextComesSoon looks if others wait
nextPlace(w, headCame) == IF buf[wconn[w]] >= 2 \/ (buf[wconn[w]] = 1 /\ headCame) THEN "read"
                          ELSE IF Len(queue) > 0 THEN "return" ELSE "soon"

next(w) == /\ wpc[w] = "next"
           /\ \E headCame \in BOOLEAN : wgo(w, nextPlace(w, headCame))
           /\ UNCHANGED <<waiting, shared, poller, wconn, wclose, spc, wire>>

\* nextComesSoon: p.wait(2) on this connection
soon(w) == /\ wpc[w] = "soon"
           /\ wgo(w, IF readable(wconn[w]) THEN "read" ELSE "return")
           /\ UNCHANGED <<waiting, shared, poller, wconn, wclose, spc, wire>>

giveBackToIdle(w) == /\ wpc[w] = "return"
                     /\ idle' = idle \cup {wconn[w]}
                     /\ wconn' = [wconn EXCEPT ![w] = NoConn]
                     /\ IF wake /\ ~woke THEN woke' = TRUE /\ wakeBytes' = wakeBytes + 1
                                         ELSE UNCHANGED <<woke, wakeBytes>>
                     /\ wgo(w, "take")
                     /\ UNCHANGED <<waiting, queue, returned, stopping, wake, listening, ppc, seen, fresh,
                                    wclose, spc, wire>>

\* Under the lock: back to the poller, which is woken unless a byte is on its way
giveBack(w) == /\ wpc[w] = "return"
               /\ returned' = returned \cup {wconn[w]}
               /\ wconn' = [wconn EXCEPT ![w] = NoConn]
               /\ IF wake /\ ~woke THEN woke' = TRUE /\ wakeBytes' = wakeBytes + 1
                                   ELSE UNCHANGED <<woke, wakeBytes>>
               /\ wgo(w, "take")
               /\ UNCHANGED <<waiting, queue, stopping, wake, listening, poller, wclose, spc, wire>>

Worker(w) == \/ takeFirst(w) \/ takeWait(w) \/ takeEnd(w)
             \/ read(w) \/ handle(w) \/ badRequest(w) \/ gone(w)
             \/ writeKeep(w) \/ writeClose(w) \/ writeFailed(w)
             \/ next(w) \/ soon(w) \/ giveBack(w)
-----------------------------------------------------------------------------
(* shutdown(), from another thread *)

shutdown == /\ spc = "before" /\ MayShutdown
            /\ stopping' = TRUE
            /\ broadcast
            /\ wakeBytes' = IF wake THEN wakeBytes + 1 ELSE wakeBytes
            /\ spc' = "stopped"
            /\ UNCHANGED <<queue, returned, woke, wake, listening, poller, workers, wire>>

\* listener.close(): the connections that were not accepted are reset
closeListener == /\ spc = "stopped"
                 /\ listening' = FALSE
                 /\ closeAll({c \in Conns : life[c] = "backlog"})
                 /\ spc' = "over"
                 /\ UNCHANGED <<waiting, queue, returned, woke, stopping, wake, wakeBytes,
                                poller, workers, sent, sock, buf, answered, eof>>
-----------------------------------------------------------------------------
Next == \/ Poller \/ serveFailed \/ pollFailed
        \/ \E w \in Workers : Worker(w) \/ takeSpurious(w)
        \/ \E c \in Conns : Client(c)
        \/ shutdown \/ closeListener

\* The threads of the server run; clients and shutdown() come when they like
Fairness == /\ WF_vars(Poller)
            /\ \A w \in Workers : WF_vars(Worker(w))

Spec == Init /\ [][Next]_vars
FairSpec == Spec /\ Fairness
-----------------------------------------------------------------------------
(* Properties *)

queued == {queue[i] : i \in 1..Len(queue)}
held   == {wconn[w] : w \in Workers} \ {NoConn}
open   == {c \in Conns : life[c] = "open"}

\* A Connection is not protected by a lock: every open one is in exactly one
\* place, the idle list, the queue, the returned list or one worker, and one
\* that was closed and freed is in none.
OneOwner == /\ \A i, j \in 1..Len(queue) : i # j => queue[i] # queue[j]
            /\ \A v, w \in Workers : v # w /\ wconn[v] = wconn[w] => wconn[v] = NoConn
            /\ queued \cap idle = {} /\ queued \cap returned = {} /\ queued \cap held = {}
            /\ idle \cap returned = {} /\ idle \cap held = {} /\ returned \cap held = {}
            /\ open = queued \cup idle \cup returned \cup held

\* "A byte is on its way to the poller, so no other is written": when woke is
\* set the byte is in the wake socket or the poller is about to take all that
\* was returned, so no returned connection waits for a byte nobody writes.
NoForgottenReturn == /\ woke => wakeBytes > 0 \/ ppc \in {"collect", "over"}
                     /\ returned # {} /\ wake => woke

\* No worker sleeps in ready.wait() while a connection is queued that no other
\* worker is on its way to take; and none sleeps when the server stops.
NoWorkerSleepsOverWork ==
    waiting # {} => /\ Len(queue) <= Cardinality({w \in Workers : atTake(w)})
                    /\ ~stopping

\* What a client sent on a connection that is open is answered once, is being
\* answered, or is still in the buffer or the socket: handing the connection
\* from thread to thread loses and repeats no request.
RequestsConserved ==
    \A c \in open :
        LET writing == {w \in Workers : wconn[w] = c /\ wpc[w] = "write"}
        IN  2 * (answered[c] + Cardinality(writing)) + buf[c] + sock[c] = sent[c]

\* A request that came whole is answered, or its connection is closed: it is
\* not forgotten in a buffer, a queue or a list of idle connections. (What
\* stopping may forget is said by NothingLeftOpen.)
Served == \A c \in Conns : \A n \in 1..(MaxHalves \div 2) :
            life[c] = "open" /\ sent[c] >= 2 * n
                ~> answered[c] >= n \/ life[c] = "closed" \/ stopping \/ ppc = "failed"

\* "Accepts connections and answers them, until shutdown()": once the server
\* stops, every worker ends and serve() returns.
Stops == stopping ~> ppc \in {"over", "failed"}

\* "serve() returns when the requests that came are answered. Idle connections
\* are closed" (shutdown): no connection is left open when serve() returned.
NothingLeftOpen == ppc = "over" => open = {}
-----------------------------------------------------------------------------
(* Implements ConnectionLife *)

ownerOf(c) == CASE life[c] \in {"new", "backlog"} -> "client"
                [] life[c] = "closed"  -> "closed"
                [] c \in held          -> "worker"
                [] c \in queued        -> "queue"
                [] c \in returned      -> "returned"
                [] OTHER               -> "poller"

Life == INSTANCE ConnectionLife WITH owner <- [c \in Conns |-> ownerOf(c)]

\* Every step of the threads hands a connection on the way ConnectionLife
\* allows: only a worker answers on it, only an owner closes it, and a closed
\* connection is touched by nobody.
FollowsLife == Life!Spec
=============================================================================
