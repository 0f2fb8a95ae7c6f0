---------------------------- MODULE BackendServer ----------------------------
(***************************************************************************)
(* One BackendServer of backend-responder.py: an acceptor thread puts the   *)
(* connections it accepts in a bounded queue, worker threads take them out  *)
(* and answer them, and stop() is called from the main thread while all of  *)
(* them run.  A step is what a thread does between two points where another *)
(* thread can see the difference; the sections under _active_lock and the   *)
(* methods of queue.Queue, which lock themselves, are single steps.         *)
(*                                                                          *)
(* What a handler reads and writes is left out: it holds its connection     *)
(* until it returns or raises.  Every recv has a timeout and the HTTP and   *)
(* SCGI handlers read a bounded number of bytes, so those end; the FastCGI  *)
(* loop goes on for as long as its peer keeps the connection and talks.     *)
(* Talkative names the connections of such peers.                           *)
(***************************************************************************)
EXTENDS Naturals, Sequences, FiniteSets

CONSTANTS
    Clients,     \* connections
    Talkative,   \* those whose peer never lets the handler finish
    Workers,     \* worker threads
    QueueSize,   \* maxsize of the queue
    None         \* no connection

ASSUME QueueAssumption == QueueSize \in Nat \ {0}
ASSUME WorkersAssumption == IsFiniteSet(Workers)
ASSUME ClientAssumption == Talkative \subseteq Clients /\ None \notin Clients

VARIABLES
    backlog,     \* connections the kernel holds for listener.accept
    listening,   \* the listener is open
    open,        \* accepted connections whose socket is open here
    stopping,    \* _stopping is set
    queue,       \* _queue
    unfinished,  \* unfinished_tasks of _queue
    active,      \* _active
    apc,         \* where the acceptor is
    accepted,    \* the connection it has accepted
    wpc,         \* where each worker is
    client,      \* the connection each worker has taken
    spc          \* where stop() is

acceptorVars == <<apc, accepted>>
workerVars   == <<wpc, client, active>>
vars == <<backlog, listening, open, stopping, queue, unfinished, acceptorVars,
          workerVars, spc>>

\* start() has returned: the listener and all the threads are up.
Init ==
    /\ backlog = {}
    /\ listening = TRUE
    /\ open = {}
    /\ stopping = FALSE
    /\ queue = <<>>
    /\ unfinished = 0
    /\ active = {}
    /\ apc = "check"
    /\ accepted = None
    /\ wpc = [w \in Workers |-> "check"]
    /\ client = [w \in Workers |-> None]
    /\ spc = "idle"

Queued == {queue[i] : i \in 1..Len(queue)}
Taken  == {client[w] : w \in Workers} \ {None}

\* A peer connects.  A name stands for a new connection once nothing here
\* refers to the former one.
Connect(c) ==
    /\ listening
    /\ c \notin backlog \cup open \cup Queued \cup Taken
    /\ backlog' = backlog \cup {c}
    /\ UNCHANGED <<listening, open, stopping, queue, unfinished, acceptorVars,
                   workerVars, spc>>

-----------------------------------------------------------------------------
(* _accept *)

AcceptorGoto(pc) == apc' = pc

AcceptorCheck ==
    /\ apc = "check"
    /\ AcceptorGoto(IF stopping THEN "done" ELSE "accept")
    /\ UNCHANGED <<backlog, listening, open, stopping, queue, unfinished,
                   accepted, workerVars, spc>>

\* accept() returns a connection, or times out when there is none.
Accept ==
    /\ apc = "accept"
    /\ \/ \E c \in backlog :
             /\ backlog' = backlog \ {c}
             /\ open' = open \cup {c}
             /\ accepted' = c
             /\ AcceptorGoto("put")
       \/ /\ listening /\ backlog = {}
          /\ AcceptorGoto("check")
          /\ UNCHANGED <<backlog, open, accepted>>
    /\ UNCHANGED <<listening, stopping, queue, unfinished, workerVars, spc>>

\* accept() raises OSError, because stop() closed the listener or because of
\* an error of its own, and the acceptor ends.
AcceptFails ==
    /\ apc = "accept"
    /\ AcceptorGoto("done")
    /\ UNCHANGED <<backlog, listening, open, stopping, queue, unfinished,
                   accepted, workerVars, spc>>

\* Mutant: a connection the queue has no room for is forgotten.
PutForgets ==
    /\ apc = "put"
    /\ \/ /\ Len(queue) < QueueSize
          /\ queue' = Append(queue, accepted)
          /\ unfinished' = unfinished + 1
       \/ /\ Len(queue) = QueueSize
          /\ UNCHANGED <<queue, unfinished>>
    /\ accepted' = None
    /\ AcceptorGoto("check")
    /\ UNCHANGED <<backlog, listening, open, stopping, workerVars, spc>>

\* put_nowait; a connection the queue has no room for is closed.
Put ==
    /\ apc = "put"
    /\ \/ /\ Len(queue) < QueueSize
          /\ queue' = Append(queue, accepted)
          /\ unfinished' = unfinished + 1
          /\ UNCHANGED open
       \/ /\ Len(queue) = QueueSize
          /\ open' = open \ {accepted}
          /\ UNCHANGED <<queue, unfinished>>
    /\ accepted' = None
    /\ AcceptorGoto("check")
    /\ UNCHANGED <<backlog, listening, stopping, workerVars, spc>>

-----------------------------------------------------------------------------
(* _worker *)

WorkerGoto(w, pc) == wpc' = [wpc EXCEPT ![w] = pc]

WorkerCheck(w) ==
    /\ wpc[w] = "check"
    /\ WorkerGoto(w, IF stopping THEN "done" ELSE "get")
    /\ UNCHANGED <<backlog, listening, open, stopping, queue, unfinished,
                   acceptorVars, client, active, spc>>

\* Mutant: the connection stays in the queue.
GetPeeks(w) ==
    /\ wpc[w] = "get"
    /\ \/ /\ queue # <<>>
          /\ client' = [client EXCEPT ![w] = Head(queue)]
          /\ WorkerGoto(w, "enter")
       \/ /\ queue = <<>>
          /\ WorkerGoto(w, "check")
          /\ UNCHANGED client
    /\ UNCHANGED <<backlog, listening, open, stopping, queue, unfinished,
                   acceptorVars, active, spc>>

\* get() returns the oldest connection, or times out when there is none.
Get(w) ==
    /\ wpc[w] = "get"
    /\ \/ /\ queue # <<>>
          /\ client' = [client EXCEPT ![w] = Head(queue)]
          /\ queue' = Tail(queue)
          /\ WorkerGoto(w, "enter")
       \/ /\ queue = <<>>
          /\ WorkerGoto(w, "check")
          /\ UNCHANGED <<client, queue>>
    /\ UNCHANGED <<backlog, listening, open, stopping, unfinished,
                   acceptorVars, active, spc>>

Enter(w) ==
    /\ wpc[w] = "enter"
    /\ active' = active \cup {client[w]}
    /\ WorkerGoto(w, "handle")
    /\ UNCHANGED <<backlog, listening, open, stopping, queue, unfinished,
                   acceptorVars, client, spc>>

\* The handler returns or raises, and "with client" closes the socket.
HandlerEnds(w) ==
    /\ wpc[w] = "handle"
    /\ open' = open \ {client[w]}
    /\ WorkerGoto(w, "leave")
    /\ UNCHANGED <<backlog, listening, stopping, queue, unfinished,
                   acceptorVars, client, active, spc>>

Leave(w) ==
    /\ wpc[w] = "leave"
    /\ active' = active \ {client[w]}
    /\ WorkerGoto(w, "taskDone")
    /\ UNCHANGED <<backlog, listening, open, stopping, queue, unfinished,
                   acceptorVars, client, spc>>

\* task_done raises ValueError, and so ends the worker, when it is called
\* more often than put was.
TaskDone(w) ==
    /\ wpc[w] = "taskDone"
    /\ \/ /\ unfinished > 0
          /\ unfinished' = unfinished - 1
          /\ WorkerGoto(w, "check")
       \/ /\ unfinished = 0
          /\ WorkerGoto(w, "dead")
          /\ UNCHANGED unfinished
    /\ client' = [client EXCEPT ![w] = None]
    /\ UNCHANGED <<backlog, listening, open, stopping, queue, acceptorVars,
                   active, spc>>

-----------------------------------------------------------------------------
(* stop() *)

StopSet ==
    /\ spc = "idle"
    /\ stopping' = TRUE
    /\ spc' = "listener"
    /\ UNCHANGED <<backlog, listening, open, queue, unfinished, acceptorVars,
                   workerVars>>

\* Closing the listener resets the connections that were not accepted.
StopListener ==
    /\ spc = "listener"
    /\ listening' = FALSE
    /\ backlog' = {}
    /\ spc' = "active"
    /\ UNCHANGED <<open, stopping, queue, unfinished, acceptorVars, workerVars>>

\* Mutant: the active connections are left alone.
StopActiveSkipped ==
    /\ spc = "active"
    /\ spc' = "drain"
    /\ UNCHANGED <<backlog, listening, open, stopping, queue, unfinished,
                   acceptorVars, workerVars>>

\* Under _active_lock: every active connection is shut down and closed, which
\* the worker that handles it notices.
StopActive ==
    /\ spc = "active"
    /\ open' = open \ active
    /\ spc' = "drain"
    /\ UNCHANGED <<backlog, listening, stopping, queue, unfinished,
                   acceptorVars, workerVars>>

\* Mutant: the drain does not call task_done.
StopDrainUncounted ==
    /\ spc = "drain"
    /\ \/ /\ queue # <<>>
          /\ open' = open \ {Head(queue)}
          /\ queue' = Tail(queue)
          /\ UNCHANGED <<spc, unfinished>>
       \/ /\ queue = <<>>
          /\ spc' = "join"
          /\ UNCHANGED <<open, queue, unfinished>>
    /\ UNCHANGED <<backlog, listening, stopping, acceptorVars, workerVars>>

\* Mutant: only one connection is taken out of the queue.
StopDrainOnce ==
    /\ spc = "drain"
    /\ spc' = "join"
    /\ \/ /\ queue # <<>>
          /\ open' = open \ {Head(queue)}
          /\ queue' = Tail(queue)
          /\ unfinished' = unfinished - 1
       \/ /\ queue = <<>>
          /\ UNCHANGED <<open, queue, unfinished>>
    /\ UNCHANGED <<backlog, listening, stopping, acceptorVars, workerVars>>

\* One turn of the loop that empties the queue.
StopDrain ==
    /\ spc = "drain"
    /\ \/ /\ queue # <<>>
          /\ open' = open \ {Head(queue)}
          /\ queue' = Tail(queue)
          /\ unfinished' = unfinished - 1
          /\ UNCHANGED spc
       \/ /\ queue = <<>>
          /\ spc' = "join"
          /\ UNCHANGED <<open, queue, unfinished>>
    /\ UNCHANGED <<backlog, listening, stopping, acceptorVars, workerVars>>

\* join(timeout=1) for each thread: stop() returns whether they ended or not.
StopJoin ==
    /\ spc = "join"
    /\ spc' = "done"
    /\ UNCHANGED <<backlog, listening, open, stopping, queue, unfinished,
                   acceptorVars, workerVars>>

-----------------------------------------------------------------------------
AcceptorNext == AcceptorCheck \/ Accept \/ AcceptFails \/ Put
WorkerStep(w) == WorkerCheck(w) \/ Get(w) \/ Enter(w) \/ Leave(w) \/ TaskDone(w)
StopStep == StopListener \/ StopActive \/ StopDrain \/ StopJoin

Next ==
    \/ \E c \in Clients : Connect(c)
    \/ AcceptorNext
    \/ \E w \in Workers : WorkerStep(w) \/ HandlerEnds(w)
    \/ StopSet
    \/ StopStep

\* The threads are scheduled; accept fails at once when the listener is closed,
\* and an error of its own is never something to count on.  A handler ends by
\* itself unless its peer is talkative, and in any case once its socket is
\* shut down.
Fairness ==
    /\ WF_vars(AcceptorCheck \/ Accept \/ Put \/ (AcceptFails /\ ~listening))
    /\ \A w \in Workers :
          /\ WF_vars(WorkerStep(w))
          /\ WF_vars(HandlerEnds(w) /\ (client[w] \in Talkative => client[w] \notin open))
    /\ WF_vars(StopStep)

Spec == Init /\ [][Next]_vars /\ Fairness

-----------------------------------------------------------------------------
(* Properties *)

Ended  == apc = "done" /\ \A w \in Workers : wpc[w] = "done"

\* Every variable has the shape the comments at its declaration give it, and
\* the queue keeps to its bound.
TypeOK ==
    /\ backlog \subseteq Clients /\ open \subseteq Clients
    /\ listening \in BOOLEAN /\ stopping \in BOOLEAN
    /\ queue \in Seq(Clients) /\ Len(queue) <= QueueSize
    /\ unfinished \in Nat
    /\ active \subseteq Clients
    /\ apc \in {"check", "accept", "put", "done"}
    /\ accepted \in Clients \cup {None}
    /\ wpc \in [Workers -> {"check", "get", "enter", "handle", "leave",
                            "taskDone", "done", "dead"}]
    /\ client \in [Workers -> Clients \cup {None}]
    /\ spc \in {"idle", "listener", "active", "drain", "join", "done"}

\* No socket is lost and none is shared: each open connection is in exactly one
\* place, with the acceptor, in one slot of the queue, or with one worker.  A
\* connection in two places would be answered by two threads, one in none
\* would stay open for as long as the process lives (backend-responder.py,
\* _accept, _worker, stop).
OneOwner ==
    \A c \in open :
        Cardinality({w \in Workers : client[w] = c})
          + Cardinality({i \in 1..Len(queue) : queue[i] = c})
          + (IF accepted = c THEN 1 ELSE 0) = 1

\* put and task_done stay balanced across the workers and the drain of stop(),
\* so that no worker is ever ended by the ValueError of a surplus task_done.
TasksBalanced ==
    unfinished = Len(queue)
                   + Cardinality({w \in Workers : client[w] # None})

\* stop() ran to its end and so did the threads: at most one socket is still
\* open, that of the connection the acceptor was handing over when stop()
\* had already emptied the queue.
StopLeavesAtMostOne ==
    spc = "done" /\ Ended => open \subseteq Queued /\ Cardinality(open) <= 1

\* While the server is not stopped and at least one worker is free of talkative
\* peers, every accepted connection is answered or refused, hence closed.
AcceptedIsClosed ==
    \A c \in Clients \ Talkative : c \in open ~> c \notin open \/ stopping

\* Once stop() was called it returns, whatever the peers and the workers do,
\* and every thread ends: also a worker whose talkative
\* peer would hold it for ever, provided it was handling that connection when
\* stop() began.  The exception is a worker that had taken such a connection
\* and not yet entered it in _active when stop() looked there.
ThreadsEnd ==
    /\ stopping ~> spc = "done"
    /\ stopping ~> apc = "done"
    /\ \A w \in Workers :
          /\ stopping ~> wpc[w] = "done" \/ client[w] \in Talkative \cap open
          /\ wpc[w] = "handle" /\ spc = "listener" ~> wpc[w] = "done"
=============================================================================
