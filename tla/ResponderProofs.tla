-------------------------- MODULE ResponderProofs --------------------------
(***************************************************************************)
(* Proofs about the two halves of backend-responder.py.  BackendServer,    *)
(* for any number of clients and workers and any size of the queue: the    *)
(* inductive invariant keeps the places a connection can be in apart,      *)
(* which are the backlog, the acceptor, a slot of the queue and a worker.  *)
(* Handlers, for any bytes and records received in any pieces and any      *)
(* limits: the inductive invariant says what an HTTP or SCGI handler has   *)
(* read and holds at each place, and that what a FastCGI handler has       *)
(* collected under an id is what the records of that id amount to since    *)
(* its begin.                                                              *)
(***************************************************************************)
EXTENDS BackendServer, Handlers, FiniteSetTheorems, SequenceTheorems, TLAPS

Busy == {w \in Workers : client[w] # None}
Holding == {"enter", "handle", "leave", "taskDone"}

\* A connection is in one place, and is open until a worker or stop() closes it.
PlacesOK ==
    /\ backlog \cap (open \cup Queued \cup Taken \cup {accepted}) = {}
    /\ accepted # None => accepted \in open /\ accepted \notin Queued \cup Taken
    /\ \A i, j \in 1 .. Len(queue) : queue[i] = queue[j] => i = j
    /\ Queued \subseteq open \ Taken
    /\ open \subseteq {accepted} \cup Queued \cup Taken

\* A worker holds a connection of its own from the queue to task_done, and
\* _active has only what a worker handles or has just handled.
WorkersOK ==
    /\ \A w \in Workers : client[w] # None <=> wpc[w] \in Holding
    /\ \A v, w \in Workers : client[v] = client[w] => v = w \/ client[v] = None
    /\ \A w \in Workers : wpc[w] \in {"leave", "taskDone"} => client[w] \notin open
    /\ \A c \in active : \E w \in Workers : client[w] = c /\ wpc[w] \in {"handle", "leave"}

\* After the drain of stop() one connection at most gets into the queue.
StopOK ==
    /\ apc = "put" <=> accepted # None
    /\ stopping <=> spc # "idle"
    /\ spc \notin {"idle", "listener"} => ~listening /\ backlog = {}
    /\ spc \in {"join", "done"} => Len(queue) <= 1 /\ (apc = "put" => Len(queue) = 0)

\* unfinished_tasks counts the queue and the busy workers.
Balanced == unfinished = Len(queue) + Cardinality(Busy)

IInv == TypeOK /\ PlacesOK /\ WorkersOK /\ StopOK /\ Balanced

-----------------------------------------------------------------------------
(* The queue, the connections that are taken and the busy workers *)

LEMMA AppendFacts ==
    ASSUME NEW q \in Seq(Clients), NEW c \in Clients
    PROVE  /\ Append(q, c) \in Seq(Clients) /\ Len(Append(q, c)) = Len(q) + 1
           /\ \A i \in 1 .. Len(q) : Append(q, c)[i] = q[i]
           /\ Append(q, c)[Len(q) + 1] = c
OBVIOUS

LEMMA TailFacts ==
    ASSUME NEW q \in Seq(Clients), q # <<>>
    PROVE  /\ Head(q) \in Clients /\ Head(q) = q[1] /\ Len(q) \in Nat \ {0}
           /\ Tail(q) \in Seq(Clients) /\ Len(Tail(q)) = Len(q) - 1
           /\ \A i \in 1 .. Len(q) - 1 : Tail(q)[i] = q[i + 1]
OBVIOUS

\* What put does to the queue.
LEMMA QueuePut ==
    ASSUME TypeOK, NEW c \in Clients, queue' = Append(queue, c), c \notin Queued,
           \A i, j \in 1 .. Len(queue) : queue[i] = queue[j] => i = j
    PROVE  /\ Queued' = Queued \cup {c}
           /\ \A i, j \in 1 .. Len(queue') : queue'[i] = queue'[j] => i = j
<1>1. /\ queue' \in Seq(Clients) /\ Len(queue') = Len(queue) + 1 /\ Len(queue) \in Nat
      /\ \A i \in 1 .. Len(queue) : queue'[i] = queue[i]
      /\ queue'[Len(queue) + 1] = c
    BY AppendFacts DEF TypeOK
<1>2. \A i \in 1 .. Len(queue) : queue[i] # c
    BY DEF Queued
<1>3. \A i \in 1 .. Len(queue') : i \in 1 .. Len(queue) \/ i = Len(queue) + 1
    BY <1>1
<1>4. 1 .. Len(queue') = (1 .. Len(queue)) \cup {Len(queue) + 1}
    BY <1>1
<1>5. Queued' = Queued \cup {c}
    BY <1>1, <1>4 DEF Queued
<1>6. \A i, j \in 1 .. Len(queue') : queue'[i] = queue'[j] => i = j
    BY <1>1, <1>2, <1>3
<1> QED
    BY <1>5, <1>6

\* What get does to the queue.
LEMMA QueueGet ==
    ASSUME TypeOK, queue # <<>>, queue' = Tail(queue),
           \A i, j \in 1 .. Len(queue) : queue[i] = queue[j] => i = j
    PROVE  /\ Head(queue) \in Queued /\ Head(queue) \in Clients
           /\ Queued' = Queued \ {Head(queue)}
           /\ \A i, j \in 1 .. Len(queue') : queue'[i] = queue'[j] => i = j
           /\ queue' \in Seq(Clients) /\ Len(queue) \in Nat \ {0}
           /\ Len(queue') = Len(queue) - 1
<1>1. /\ Head(queue) \in Clients /\ Head(queue) = queue[1] /\ Len(queue) \in Nat \ {0}
      /\ queue' \in Seq(Clients) /\ Len(queue') = Len(queue) - 1
      /\ \A i \in 1 .. Len(queue) - 1 : queue'[i] = queue[i + 1]
    BY TailFacts DEF TypeOK
<1>2. Head(queue) \in Queued
    BY <1>1 DEF Queued
<1>3. \A i, j \in 1 .. Len(queue') : queue'[i] = queue'[j] => i = j
    <2> SUFFICES ASSUME NEW i \in 1 .. Len(queue'), NEW j \in 1 .. Len(queue'),
                        queue'[i] = queue'[j]
                 PROVE  i = j
        OBVIOUS
    <2>1. queue[i + 1] = queue[j + 1] /\ i + 1 \in 1 .. Len(queue) /\ j + 1 \in 1 .. Len(queue)
        BY <1>1
    <2>2. i + 1 = j + 1
        BY <2>1
    <2> QED
        BY <2>2, <1>1
<1>4. ASSUME NEW c \in Queued' PROVE c \in Queued \ {Head(queue)}
    <2>1. PICK i \in 1 .. Len(queue') : c = queue'[i]
        BY DEF Queued
    <2>2. c = queue[i + 1] /\ i + 1 \in 1 .. Len(queue) /\ i + 1 # 1 /\ 1 \in 1 .. Len(queue)
        BY <1>1, <2>1
    <2>3. queue[i + 1] # queue[1]
        BY <2>2
    <2> QED
        BY <1>1, <2>2, <2>3 DEF Queued
<1>5. ASSUME NEW c \in Queued, c # Head(queue) PROVE c \in Queued'
    <2>1. PICK i \in 1 .. Len(queue) : c = queue[i]
        BY DEF Queued
    <2>2. i - 1 \in 1 .. Len(queue') /\ queue'[i - 1] = queue[i]
        BY <1>1, <1>5, <2>1
    <2> QED
        BY <2>1, <2>2 DEF Queued
<1> QED
    BY <1>1, <1>2, <1>3, <1>4, <1>5

\* A free worker takes the connection c.
LEMMA TakenAdd ==
    ASSUME TypeOK, NEW w \in Workers, NEW c \in Clients, client[w] = None,
           client' = [client EXCEPT ![w] = c]
    PROVE  /\ Taken' = Taken \cup {c} /\ Busy' = Busy \cup {w} /\ w \notin Busy
<1>1. /\ \A v \in Workers : client'[v] = IF v = w THEN c ELSE client[v]
      /\ c # None
    BY ClientAssumption DEF TypeOK
<1> QED
    BY <1>1 DEF Taken, Busy

\* A worker gives up its connection.
LEMMA TakenRemove ==
    ASSUME TypeOK, NEW w \in Workers, client[w] # None,
           client' = [client EXCEPT ![w] = None],
           \A u, v \in Workers : client[u] = client[v] => u = v \/ client[u] = None
    PROVE  /\ Taken' = Taken \ {client[w]} /\ Busy' = Busy \ {w} /\ w \in Busy
<1>1. \A v \in Workers : client'[v] = IF v = w THEN None ELSE client[v]
    BY DEF TypeOK
<1> QED
    BY <1>1 DEF Taken, Busy

LEMMA BusyFinite == IsFiniteSet(Busy) /\ Cardinality(Busy) \in Nat
<1>1. Busy \in SUBSET Workers
    BY DEF Busy
<1>2. IsFiniteSet(Busy)
    BY <1>1, FS_Subset, WorkersAssumption
<1> QED
    BY <1>2, FS_CardinalityType

-----------------------------------------------------------------------------
(* The invariant is inductive *)

LEMMA InvInit == Init => IInv
<1> SUFFICES ASSUME Init PROVE IInv
    OBVIOUS
<1> USE ClientAssumption, QueueAssumption DEF Init
<1>1. Queued = {} /\ Taken = {} /\ Busy = {}
    BY DEF Queued, Taken, Busy
<1>2. TypeOK
    <2>1. queue \in Seq(Clients) /\ Len(queue) = 0
        OBVIOUS
    <2>2. Len(queue) <= QueueSize
        BY <2>1
    <2>3. /\ wpc \in [Workers -> {"check", "get", "enter", "handle", "leave", "taskDone",
                               "done", "dead"}]
          /\ client \in [Workers -> Clients \cup {None}]
        OBVIOUS
    <2> QED
        BY <2>1, <2>2, <2>3 DEF TypeOK
<1>3. PlacesOK /\ WorkersOK /\ StopOK
    BY <1>1 DEF PlacesOK, WorkersOK, StopOK, Holding
<1>4. Balanced
    BY <1>1, FS_EmptySet DEF Balanced
<1> QED
    BY <1>2, <1>3, <1>4 DEF IInv

\* A peer connects.
LEMMA ConnectStep ==
    ASSUME IInv, NEW c \in Clients, Connect(c) PROVE IInv'
<1> USE ClientAssumption, QueueAssumption DEF IInv, Connect, acceptorVars, workerVars
<1>0. Queued' = Queued /\ Taken' = Taken /\ Busy' = Busy /\ queue' = queue
    BY DEF Queued, Taken, Busy
<1>1. TypeOK'
    BY DEF TypeOK
<1>2. PlacesOK'
    BY <1>0 DEF TypeOK, PlacesOK, WorkersOK, StopOK
<1>3. WorkersOK'
    BY <1>0 DEF TypeOK, WorkersOK, Holding
<1>4. StopOK'
    BY <1>0 DEF TypeOK, StopOK
<1>5. Balanced'
    BY <1>0 DEF Balanced
<1> QED
    BY <1>1, <1>2, <1>3, <1>4, <1>5

\* The acceptor looks at _stopping.
LEMMA AcceptorCheckStep ==
    ASSUME IInv, AcceptorCheck PROVE IInv'
<1> USE ClientAssumption, QueueAssumption DEF IInv, AcceptorCheck, AcceptorGoto, acceptorVars, workerVars
<1>0. Queued' = Queued /\ Taken' = Taken /\ Busy' = Busy /\ queue' = queue
    BY DEF Queued, Taken, Busy
<1>1. TypeOK'
    BY DEF TypeOK
<1>2. PlacesOK'
    BY <1>0 DEF TypeOK, PlacesOK, WorkersOK, StopOK
<1>3. WorkersOK'
    BY <1>0 DEF TypeOK, WorkersOK, Holding
<1>4. StopOK'
    BY <1>0 DEF TypeOK, StopOK
<1>5. Balanced'
    BY <1>0 DEF Balanced
<1> QED
    BY <1>1, <1>2, <1>3, <1>4, <1>5

\* A connection is accepted.
LEMMA AcceptStep ==
    ASSUME IInv, Accept PROVE IInv'
<1> USE ClientAssumption, QueueAssumption DEF IInv, Accept, AcceptorGoto, acceptorVars, workerVars
<1>0. Queued' = Queued /\ Taken' = Taken /\ Busy' = Busy /\ queue' = queue
    BY DEF Queued, Taken, Busy
<1>1. TypeOK'
    BY DEF TypeOK
<1>2. PlacesOK'
    BY <1>0 DEF TypeOK, PlacesOK, WorkersOK, StopOK
<1>3. WorkersOK'
    <2>1. \A v \in Workers : client[v] \notin backlog
        BY DEF PlacesOK, Taken, TypeOK
    <2>2. \A v \in Workers : client[v] \notin open => client[v] \notin open'
        BY <2>1
    <2> QED
        BY <2>2 DEF WorkersOK
<1>4. StopOK'
    BY <1>0 DEF TypeOK, StopOK
<1>5. Balanced'
    BY <1>0 DEF Balanced
<1> QED
    BY <1>1, <1>2, <1>3, <1>4, <1>5

\* The acceptor ends.
LEMMA AcceptFailsStep ==
    ASSUME IInv, AcceptFails PROVE IInv'
<1> USE ClientAssumption, QueueAssumption DEF IInv, AcceptFails, AcceptorGoto, acceptorVars, workerVars
<1>0. Queued' = Queued /\ Taken' = Taken /\ Busy' = Busy /\ queue' = queue
    BY DEF Queued, Taken, Busy
<1>1. TypeOK'
    BY DEF TypeOK
<1>2. PlacesOK'
    BY <1>0 DEF TypeOK, PlacesOK, WorkersOK, StopOK
<1>3. WorkersOK'
    BY <1>0 DEF TypeOK, WorkersOK, Holding
<1>4. StopOK'
    BY <1>0 DEF TypeOK, StopOK
<1>5. Balanced'
    BY <1>0 DEF Balanced
<1> QED
    BY <1>1, <1>2, <1>3, <1>4, <1>5

\* A connection goes to the queue or is refused.
LEMMA PutStep ==
    ASSUME IInv, Put PROVE IInv'
<1> USE ClientAssumption, QueueAssumption DEF IInv, Put, AcceptorGoto, acceptorVars, workerVars
<1>0. Taken' = Taken /\ Busy' = Busy /\ accepted \in Clients /\ Len(queue) \in Nat
      /\ accepted \in open /\ accepted \notin Queued \cup Taken
    BY DEF Taken, Busy, TypeOK, StopOK, PlacesOK
<1>a. CASE Len(queue) < QueueSize
    <2>1. /\ queue' \in Seq(Clients) /\ Len(queue') = Len(queue) + 1 /\ unfinished' = unfinished + 1
          /\ Queued' = Queued \cup {accepted} /\ open' = open
          /\ \A i, j \in 1 .. Len(queue') : queue'[i] = queue'[j] => i = j
        BY <1>0, <1>a, AppendFacts, QueuePut DEF TypeOK, PlacesOK
    <2>2. TypeOK'
        BY <1>a, <2>1 DEF TypeOK
    <2>3. PlacesOK'
        BY <1>0, <2>1 DEF PlacesOK, TypeOK
    <2>4. WorkersOK'
        BY <2>1 DEF WorkersOK
    <2>5. StopOK'
        BY <1>0, <2>1 DEF StopOK
    <2>6. Balanced'
        BY <1>0, <2>1, BusyFinite DEF Balanced
    <2> QED
        BY <2>2, <2>3, <2>4, <2>5, <2>6
<1>b. CASE Len(queue) = QueueSize
    <2>1. queue' = queue /\ Queued' = Queued /\ open' = open \ {accepted}
          /\ unfinished' = unfinished
        BY <1>b DEF Queued
    <2>2. TypeOK'
        BY <2>1 DEF TypeOK
    <2>3. PlacesOK'
        BY <1>0, <2>1 DEF PlacesOK, TypeOK
    <2>4. WorkersOK'
        BY <2>1 DEF WorkersOK
    <2>5. StopOK'
        BY <2>1 DEF StopOK
    <2>6. Balanced'
        BY <1>0, <2>1 DEF Balanced
    <2> QED
        BY <2>2, <2>3, <2>4, <2>5, <2>6
<1> QED
    BY <1>a, <1>b

\* A worker looks at _stopping.
LEMMA WorkerCheckStep ==
    ASSUME IInv, NEW w \in Workers, WorkerCheck(w) PROVE IInv'
<1> USE ClientAssumption, QueueAssumption DEF IInv, WorkerCheck, WorkerGoto, acceptorVars, workerVars
<1>0. Queued' = Queued /\ Taken' = Taken /\ Busy' = Busy /\ queue' = queue
    BY DEF Queued, Taken, Busy
<1>1. TypeOK'
    BY DEF TypeOK
<1>2. PlacesOK'
    BY <1>0 DEF TypeOK, PlacesOK, WorkersOK, StopOK
<1>3. WorkersOK'
    BY <1>0 DEF TypeOK, WorkersOK, Holding
<1>4. StopOK'
    BY <1>0 DEF TypeOK, StopOK
<1>5. Balanced'
    BY <1>0 DEF Balanced
<1> QED
    BY <1>1, <1>2, <1>3, <1>4, <1>5

\* A worker takes a connection.
LEMMA GetStep ==
    ASSUME IInv, NEW w \in Workers, Get(w) PROVE IInv'
<1> USE ClientAssumption, QueueAssumption DEF IInv, Get, WorkerGoto, acceptorVars, workerVars
<1>a. CASE queue # <<>> /\ queue' = Tail(queue) /\ client' = [client EXCEPT ![w] = Head(queue)]
           /\ wpc' = [wpc EXCEPT ![w] = "enter"]
    <2> DEFINE c == Head(queue)
    <2>1. /\ c \in Queued /\ c \in Clients /\ Queued' = Queued \ {c}
          /\ \A i, j \in 1 .. Len(queue') : queue'[i] = queue'[j] => i = j
          /\ queue' \in Seq(Clients) /\ Len(queue) \in Nat \ {0}
          /\ Len(queue') = Len(queue) - 1
        BY <1>a, QueueGet DEF PlacesOK
    <2>2. client[w] = None
        BY DEF WorkersOK, Holding
    <2>3. Taken' = Taken \cup {c} /\ Busy' = Busy \cup {w} /\ w \notin Busy
        BY <1>a, <2>1, <2>2, TakenAdd
    <2>4. TypeOK'
        <3>1. client' \in [Workers -> Clients \cup {None}]
            BY <1>a, <2>1 DEF TypeOK
        <3>2. Len(queue') <= QueueSize
            BY <2>1 DEF TypeOK
        <3> QED
            BY <1>a, <2>1, <3>1, <3>2 DEF TypeOK
    <2>5. PlacesOK'
        BY <2>1, <2>3 DEF PlacesOK, TypeOK
    <2>6. WorkersOK'
        <3>1. \A v \in Workers : client[v] # c
            BY <2>1 DEF PlacesOK, Taken
        <3>2. /\ \A v \in Workers : client'[v] = IF v = w THEN c ELSE client[v]
              /\ \A v \in Workers : wpc'[v] = IF v = w THEN "enter" ELSE wpc[v]
              /\ c # None /\ wpc[w] = "get"
            BY <1>a, <2>1 DEF TypeOK
        <3> HIDE DEF c, Get
        <3>3. UNCHANGED <<open, active>>
            BY DEF Get
        <3> QED
            BY <2>2, <3>1, <3>2, <3>3 DEF WorkersOK, Holding
    <2>7. StopOK'
        BY <2>1 DEF StopOK
    <2>8. Balanced'
        <3>1. Cardinality(Busy \cup {w}) = Cardinality(Busy) + 1
            BY <2>3, BusyFinite, FS_AddElement
        <3>2. unfinished' = unfinished /\ unfinished = Len(queue) + Cardinality(Busy)
            BY DEF Balanced
        <3> QED
            BY <2>1, <2>3, <3>1, <3>2, BusyFinite DEF Balanced
    <2> QED
        BY <2>4, <2>5, <2>6, <2>7, <2>8
<1>b. CASE queue' = queue /\ client' = client /\ wpc' = [wpc EXCEPT ![w] = "check"]
    <2>1. Queued' = Queued /\ Taken' = Taken /\ Busy' = Busy
        BY <1>b DEF Queued, Taken, Busy
    <2>2. TypeOK'
        BY <1>b DEF TypeOK
    <2>3. PlacesOK' /\ StopOK' /\ Balanced'
        BY <1>b, <2>1 DEF PlacesOK, StopOK, Balanced
    <2>4. WorkersOK'
        BY <1>b DEF WorkersOK, Holding, TypeOK
    <2> QED
        BY <2>2, <2>3, <2>4
<1> QED
    BY <1>a, <1>b

\* A worker enters its connection in _active.
LEMMA EnterStep ==
    ASSUME IInv, NEW w \in Workers, Enter(w) PROVE IInv'
<1> USE ClientAssumption, QueueAssumption DEF IInv, Enter, WorkerGoto, acceptorVars, workerVars
<1>0. Queued' = Queued /\ Taken' = Taken /\ Busy' = Busy /\ queue' = queue
    BY DEF Queued, Taken, Busy
<1>1. TypeOK'
    <2>1. client[w] \in Clients
        BY DEF TypeOK, WorkersOK, Holding
    <2> QED
        BY <2>1 DEF TypeOK
<1>2. PlacesOK'
    BY <1>0 DEF TypeOK, PlacesOK, WorkersOK, StopOK
<1>3. WorkersOK'
    BY <1>0 DEF TypeOK, WorkersOK, Holding
<1>4. StopOK'
    BY <1>0 DEF TypeOK, StopOK
<1>5. Balanced'
    BY <1>0 DEF Balanced
<1> QED
    BY <1>1, <1>2, <1>3, <1>4, <1>5

\* A handler ends.
LEMMA HandlerEndsStep ==
    ASSUME IInv, NEW w \in Workers, HandlerEnds(w) PROVE IInv'
<1> USE ClientAssumption, QueueAssumption DEF IInv, HandlerEnds, WorkerGoto, acceptorVars, workerVars
<1>0. Queued' = Queued /\ Taken' = Taken /\ Busy' = Busy /\ queue' = queue
    BY DEF Queued, Taken, Busy
<1>1. TypeOK'
    BY DEF TypeOK
<1>2. PlacesOK'
    <2>1. client[w] \in Taken
        BY DEF WorkersOK, Holding, Taken
    <2>2. open' = open \ {client[w]} /\ UNCHANGED <<backlog, accepted>>
        OBVIOUS
    <2> QED
        BY <1>0, <2>1, <2>2 DEF PlacesOK
<1>3. WorkersOK'
    BY <1>0 DEF TypeOK, WorkersOK, Holding
<1>4. StopOK'
    BY <1>0 DEF TypeOK, StopOK
<1>5. Balanced'
    BY <1>0 DEF Balanced
<1> QED
    BY <1>1, <1>2, <1>3, <1>4, <1>5

\* A worker takes its connection out of _active.
LEMMA LeaveStep ==
    ASSUME IInv, NEW w \in Workers, Leave(w) PROVE IInv'
<1> USE ClientAssumption, QueueAssumption DEF IInv, Leave, WorkerGoto, acceptorVars, workerVars
<1>0. Queued' = Queued /\ Taken' = Taken /\ Busy' = Busy /\ queue' = queue
    BY DEF Queued, Taken, Busy
<1>1. TypeOK'
    BY DEF TypeOK
<1>2. PlacesOK'
    BY <1>0 DEF TypeOK, PlacesOK, WorkersOK, StopOK
<1>3. WorkersOK'
    BY <1>0 DEF TypeOK, WorkersOK, Holding
<1>4. StopOK'
    BY <1>0 DEF TypeOK, StopOK
<1>5. Balanced'
    BY <1>0 DEF Balanced
<1> QED
    BY <1>1, <1>2, <1>3, <1>4, <1>5

\* A worker is done with its connection.
LEMMA TaskDoneStep ==
    ASSUME IInv, NEW w \in Workers, TaskDone(w) PROVE IInv'
<1> USE ClientAssumption, QueueAssumption DEF IInv, TaskDone, WorkerGoto, acceptorVars, workerVars
<1>1. client[w] # None /\ client[w] \in Clients /\ client[w] \notin open
    BY DEF WorkersOK, Holding, TypeOK
<1>2. Taken' = Taken \ {client[w]} /\ Busy' = Busy \ {w} /\ w \in Busy
    BY <1>1, TakenRemove DEF WorkersOK
<1>3. Queued' = Queued /\ Len(queue) \in Nat
    BY DEF Queued, TypeOK
<1>4. Cardinality(Busy') = Cardinality(Busy) - 1 /\ Cardinality(Busy') \in Nat
    <2>1. IsFiniteSet(Busy \ {w}) /\ Cardinality(Busy \ {w}) = Cardinality(Busy) - 1
        BY <1>2, BusyFinite, FS_RemoveElement
    <2>2. Cardinality(Busy \ {w}) \in Nat
        BY <2>1, FS_CardinalityType
    <2> QED
        BY <1>2, <2>1, <2>2
<1>5. unfinished > 0
    BY <1>3, <1>4, BusyFinite DEF Balanced
<1>6. unfinished' = unfinished - 1 /\ wpc' = [wpc EXCEPT ![w] = "check"]
    BY <1>5 DEF TypeOK
<1>7. TypeOK'
    BY <1>5, <1>6 DEF TypeOK
<1>8. PlacesOK'
    BY <1>1, <1>2, <1>3 DEF PlacesOK, TypeOK
<1>9. WorkersOK'
    <2>1. \A v \in Workers \ {w} : client[v] # client[w]
        BY <1>1 DEF WorkersOK
    <2> QED
        BY <1>1, <1>6, <2>1 DEF WorkersOK, Holding, TypeOK
<1>10. StopOK'
    BY DEF StopOK
<1>11. Balanced'
    BY <1>3, <1>4, <1>6, BusyFinite DEF Balanced
<1> QED
    BY <1>7, <1>8, <1>9, <1>10, <1>11

\* stop() begins.
LEMMA StopSetStep ==
    ASSUME IInv, StopSet PROVE IInv'
<1> USE ClientAssumption, QueueAssumption DEF IInv, StopSet, acceptorVars, workerVars
<1>0. Queued' = Queued /\ Taken' = Taken /\ Busy' = Busy /\ queue' = queue
    BY DEF Queued, Taken, Busy
<1>1. TypeOK'
    BY DEF TypeOK
<1>2. PlacesOK'
    BY <1>0 DEF TypeOK, PlacesOK, WorkersOK, StopOK
<1>3. WorkersOK'
    BY <1>0 DEF TypeOK, WorkersOK, Holding
<1>4. StopOK'
    BY <1>0 DEF TypeOK, StopOK
<1>5. Balanced'
    BY <1>0 DEF Balanced
<1> QED
    BY <1>1, <1>2, <1>3, <1>4, <1>5

\* The listener is closed.
LEMMA StopListenerStep ==
    ASSUME IInv, StopListener PROVE IInv'
<1> USE ClientAssumption, QueueAssumption DEF IInv, StopListener, acceptorVars, workerVars
<1>0. Queued' = Queued /\ Taken' = Taken /\ Busy' = Busy /\ queue' = queue
    BY DEF Queued, Taken, Busy
<1>1. TypeOK'
    BY DEF TypeOK
<1>2. PlacesOK'
    BY <1>0 DEF TypeOK, PlacesOK, WorkersOK, StopOK
<1>3. WorkersOK'
    BY <1>0 DEF TypeOK, WorkersOK, Holding
<1>4. StopOK'
    BY <1>0 DEF TypeOK, StopOK
<1>5. Balanced'
    BY <1>0 DEF Balanced
<1> QED
    BY <1>1, <1>2, <1>3, <1>4, <1>5

\* The active connections are closed.
LEMMA StopActiveStep ==
    ASSUME IInv, StopActive PROVE IInv'
<1> USE ClientAssumption, QueueAssumption DEF IInv, StopActive, acceptorVars, workerVars
<1>0. Queued' = Queued /\ Taken' = Taken /\ Busy' = Busy /\ queue' = queue
    BY DEF Queued, Taken, Busy
<1>1. TypeOK'
    BY DEF TypeOK
<1>2. PlacesOK'
    <2>1. active \subseteq Taken
        BY DEF WorkersOK, Holding, Taken, TypeOK
    <2>2. open' = open \ active /\ UNCHANGED <<backlog, accepted>>
        OBVIOUS
    <2> QED
        BY <1>0, <2>1, <2>2 DEF PlacesOK
<1>3. WorkersOK'
    BY <1>0 DEF TypeOK, WorkersOK, Holding
<1>4. StopOK'
    BY <1>0 DEF TypeOK, StopOK
<1>5. Balanced'
    BY <1>0 DEF Balanced
<1> QED
    BY <1>1, <1>2, <1>3, <1>4, <1>5

\* The queue is drained.
LEMMA StopDrainStep ==
    ASSUME IInv, StopDrain PROVE IInv'
<1> USE ClientAssumption, QueueAssumption DEF IInv, StopDrain, acceptorVars, workerVars
<1>0. Taken' = Taken /\ Busy' = Busy
    BY DEF Taken, Busy
<1>a. CASE queue # <<>>
    <2> DEFINE c == Head(queue)
    <2>1. /\ c \in Queued /\ c \in Clients /\ Queued' = Queued \ {c}
          /\ \A i, j \in 1 .. Len(queue') : queue'[i] = queue'[j] => i = j
          /\ queue' \in Seq(Clients) /\ Len(queue) \in Nat \ {0}
          /\ Len(queue') = Len(queue) - 1
        BY <1>a, QueueGet DEF PlacesOK
    <2>2. unfinished' = unfinished - 1 /\ open' = open \ {c} /\ spc' = spc
        BY <1>a
    <2>3. TypeOK'
        BY <2>1, <2>2, BusyFinite DEF TypeOK, Balanced
    <2>4. PlacesOK'
        BY <1>0, <2>1, <2>2 DEF PlacesOK, TypeOK
    <2>5. WorkersOK'
        BY <2>2 DEF WorkersOK
    <2>6. StopOK'
        BY <2>1, <2>2 DEF StopOK
    <2>7. Balanced'
        BY <1>0, <2>1, <2>2, BusyFinite DEF Balanced, TypeOK
    <2> QED
        BY <2>3, <2>4, <2>5, <2>6, <2>7
<1>b. CASE queue = <<>>
    <2>1. queue' = queue /\ Queued' = Queued /\ open' = open /\ unfinished' = unfinished
        BY <1>b DEF Queued
    <2>2. TypeOK' /\ PlacesOK' /\ WorkersOK' /\ Balanced'
        BY <1>0, <1>b, <2>1 DEF TypeOK, PlacesOK, WorkersOK, Balanced
    <2>3. Len(queue) = 0
        BY <1>b
    <2>4. StopOK'
        BY <1>b, <2>1, <2>3 DEF StopOK
    <2> QED
        BY <2>2, <2>4
<1> QED
    BY <1>a, <1>b

\* stop() ends.
LEMMA StopJoinStep ==
    ASSUME IInv, StopJoin PROVE IInv'
<1> USE ClientAssumption, QueueAssumption DEF IInv, StopJoin, acceptorVars, workerVars
<1>0. Queued' = Queued /\ Taken' = Taken /\ Busy' = Busy /\ queue' = queue
    BY DEF Queued, Taken, Busy
<1>1. TypeOK'
    BY DEF TypeOK
<1>2. PlacesOK'
    BY <1>0 DEF TypeOK, PlacesOK, WorkersOK, StopOK
<1>3. WorkersOK'
    BY <1>0 DEF TypeOK, WorkersOK, Holding
<1>4. StopOK'
    BY <1>0 DEF TypeOK, StopOK
<1>5. Balanced'
    BY <1>0 DEF Balanced
<1> QED
    BY <1>1, <1>2, <1>3, <1>4, <1>5

LEMMA InvStep == IInv /\ [Next]_vars => IInv'
<1> SUFFICES ASSUME IInv, [Next]_vars PROVE IInv'
    OBVIOUS
<1>1. CASE UNCHANGED vars
    BY <1>1 DEF vars, acceptorVars, workerVars, IInv, TypeOK, PlacesOK, WorkersOK, StopOK,
                Balanced, Queued, Taken, Busy
<1>2. ASSUME NEW c \in Clients, Connect(c) PROVE IInv'
    BY <1>2, ConnectStep
<1>3. CASE AcceptorNext
    BY <1>3, AcceptorCheckStep, AcceptStep, AcceptFailsStep, PutStep DEF AcceptorNext
<1>4. ASSUME NEW w \in Workers, WorkerStep(w) \/ HandlerEnds(w) PROVE IInv'
    BY <1>4, WorkerCheckStep, GetStep, EnterStep, LeaveStep, TaskDoneStep, HandlerEndsStep
       DEF WorkerStep
<1>5. CASE StopSet \/ StopStep
    BY <1>5, StopSetStep, StopListenerStep, StopActiveStep, StopDrainStep, StopJoinStep
       DEF StopStep
<1> QED
    BY <1>1, <1>2, <1>3, <1>4, <1>5 DEF Next

-----------------------------------------------------------------------------
(* The theorems *)

\* The invariant holds in every state of the server.
THEOREM Invariant == Spec => []IInv
BY InvInit, InvStep, PTL DEF Spec

\* Every variable keeps its type, and the queue its bound.
THEOREM TypeCorrect == Spec => []TypeOK
<1>1. IInv => TypeOK
    BY DEF IInv
<1> QED
    BY Invariant, <1>1, PTL

\* put and task_done are balanced, and no worker dies of a surplus task_done
\* (backend-responder.py, _accept, _worker and stop).
THEOREM NoSurplus == Spec => []TasksBalanced
<1>1. IInv => TasksBalanced
    BY DEF IInv, Balanced, Busy, TasksBalanced
<1> QED
    BY Invariant, <1>1, PTL

\* Each open connection is in exactly one place: with the acceptor, in one slot
\* of the queue, or with one worker (_accept, _worker, stop).
THEOREM OnePlace == Spec => []OneOwner
<1>1. ASSUME IInv, NEW c \in open
      PROVE  Cardinality({w \in Workers : client[w] = c})
                + Cardinality({i \in 1 .. Len(queue) : queue[i] = c})
                + (IF accepted = c THEN 1 ELSE 0) = 1
    <2> USE <1>1 DEF IInv
    <2> DEFINE W == {w \in Workers : client[w] = c}
               Q == {i \in 1 .. Len(queue) : queue[i] = c}
    <2>0. c # None
        BY ClientAssumption DEF TypeOK
    <2>1. Cardinality(W) = IF c \in Taken THEN 1 ELSE 0
        <3>1. CASE c \in Taken
            <4>1. PICK w \in Workers : client[w] = c
                BY <3>1 DEF Taken
            <4>2. W = {w}
                BY <4>1, <2>0 DEF WorkersOK
            <4> QED
                BY <3>1, <4>2, FS_Singleton
        <3>2. CASE c \notin Taken
            <4>1. W = {}
                BY <3>2, <2>0 DEF Taken
            <4> QED
                BY <3>2, <4>1, FS_EmptySet
        <3> QED
            BY <3>1, <3>2
    <2>2. Cardinality(Q) = IF c \in Queued THEN 1 ELSE 0
        <3>1. CASE c \in Queued
            <4>1. PICK i \in 1 .. Len(queue) : queue[i] = c
                BY <3>1 DEF Queued
            <4>2. Q = {i}
                BY <4>1 DEF PlacesOK
            <4> QED
                BY <3>1, <4>2, FS_Singleton
        <3>2. CASE c \notin Queued
            <4>1. Q = {}
                BY <3>2 DEF Queued
            <4> QED
                BY <3>2, <4>1, FS_EmptySet
        <3> QED
            BY <3>1, <3>2
    <2>3. \/ c \in Taken /\ c \notin Queued /\ c # accepted
          \/ c \notin Taken /\ c \in Queued /\ c # accepted
          \/ c \notin Taken /\ c \notin Queued /\ c = accepted
        BY <2>0 DEF PlacesOK
    <2> HIDE DEF W, Q
    <2>4. Cardinality(W) + Cardinality(Q) + (IF accepted = c THEN 1 ELSE 0) = 1
        BY <2>1, <2>2, <2>3
    <2> QED
        BY <2>4 DEF W, Q
<1>2. IInv => OneOwner
    BY <1>1 DEF OneOwner
<1> QED
    BY Invariant, <1>2, PTL

\* When stop() and the threads have ended at most one connection is left, the one
\* the acceptor put in the queue after the drain (stop, _accept).
THEOREM OneLeft == Spec => []StopLeavesAtMostOne
<1>1. ASSUME IInv, spc = "done", Ended
      PROVE  open \subseteq Queued /\ Cardinality(open) <= 1
    <2> USE <1>1 DEF IInv
    <2>1. accepted = None /\ Taken = {}
        BY DEF Ended, StopOK, WorkersOK, Holding, Taken
    <2>2. open \subseteq Queued
        BY <2>1, ClientAssumption DEF PlacesOK, TypeOK
    <2>3. Len(queue) \in {0, 1}
        BY DEF StopOK, TypeOK
    <2>4. Queued \subseteq {queue[1]}
        <3>1. \A i \in 1 .. Len(queue) : i = 1
            <4>1. CASE Len(queue) = 0
                BY <4>1
            <4>2. CASE Len(queue) = 1
                BY <4>2
            <4> QED
                BY <2>3, <4>1, <4>2
        <3> QED
            BY <3>1 DEF Queued
    <2>5. IsFiniteSet({queue[1]}) /\ Cardinality({queue[1]}) = 1
        BY FS_Singleton
    <2>6. open \in SUBSET {queue[1]}
        BY <2>2, <2>4
    <2> QED
        BY <2>2, <2>5, <2>6, FS_Subset
<1>2. IInv => StopLeavesAtMostOne
    BY <1>1 DEF StopLeavesAtMostOne
<1> QED
    BY Invariant, <1>2, PTL

-----------------------------------------------------------------------------
(* handle_http and handle_scgi *)

\* The header of HTTP ends at e, the length and the mode it selects.
EndsAt(s, i) == s[i].k = "eol" /\ s[i - 1].k = "eol"

IsEnd(s, e) == EndsAt(s, e) /\ \A i \in 2 .. e - 1 : ~EndsAt(s, i)

LengthOf(s, e) ==
    LET length == H!LastOf(SubSeq(s, 1, e), "length")
    IN IF length = <<>> THEN 0 ELSE IF length[1] = <<>> THEN 0 ELSE length[1][1]

ModeOf(s, e) == H!SelectMode(s[1].v, H!LastOf(SubSeq(s, 1, e), "mode"))

\* A whole header was received and is valid.
HeaderIs(e) ==
    /\ IsEnd(stream, e) /\ e <= MaxHeaders + 1
    /\ stream[1].k = "line" /\ LengthOf(stream, e) \in 0 .. MaxRequest
    /\ head = [mode |-> ModeOf(stream, e), length |-> LengthOf(stream, e)]

HttpBody(e) ==
    HeaderIs(e) /\ data = SubSeq(stream, e + 1, pos) /\ wire = <<>>

HttpTunnel(e) ==
    LET from == e + head.length IN
    /\ HeaderIs(e) /\ head.mode = "upgrade" /\ from <= pos
    /\ wire = <<[mode |-> "upgrade",
                 echo |-> SubSeq(stream, from + 1, H!Min({pos, from + MaxRequest}))]>>

\* What an HTTP handler holds is what it has received since its last step, and
\* what it has answered is what the request means.
HttpOK ==
    /\ pc \in {"header", "body", "tunnel", "closed", "failed", "gone"}
    /\ pc = "header" =>
          /\ \A i \in 2 .. pos : ~EndsAt(stream, i)
          /\ pos <= MaxHeaders /\ data = SubSeq(stream, 1, pos) /\ wire = <<>>
    /\ pc = "body" => \E e \in 2 .. pos : HttpBody(e)
    /\ pc = "tunnel" => \E e \in 2 .. pos : HttpTunnel(e)
    /\ pc \in {"closed", "failed", "gone"} => H!IsMeant(H!MeansHttp(H!Received))

\* The length of an SCGI netstring ends at d and announces Announced(s, d) units.
IsStop(s, d) ==
    /\ d <= MaxDigits /\ s[d].k = "colon"
    /\ \A i \in 1 .. d - 1 : s[i].k = "digit"

Announced(s, d) == H!Number(SubSeq(s, 1, d - 1))

BlockOf(s, d) == SubSeq(s, d + 1, d + Announced(s, d))

LengthIn(block) ==
    LET length == H!Field(block, "CONTENT_LENGTH")
    IN IF length = <<>> THEN [k |-> "number", v |-> 0] ELSE length[1]

ModeIn(block) ==
    LET uri == H!Field(block, "REQUEST_URI")
        mode == H!Field(block, "MODE")
    IN H!SelectMode(IF uri = <<>> THEN "normal" ELSE H!Word(uri[1]),
                    IF mode = <<>> THEN <<>> ELSE <<H!Word(mode[1])>>)

NetstringIs(d) == IsStop(stream, d) /\ Announced(stream, d) \in 1 .. MaxHeaders

ScgiHeaders(d) ==
    LET n == Announced(stream, d) IN
    /\ NetstringIs(d) /\ wire = <<>>
    /\ head.length = n /\ data = SubSeq(stream, d + 1, pos)
    /\ pc = "block" => pos < d + n
    /\ pc = "comma" => pos = d + n /\ n % 2 = 0

ScgiBody(d) ==
    LET n == Announced(stream, d)
        block == BlockOf(stream, d)
        end == d + n + 1
    IN
    /\ NetstringIs(d) /\ wire = <<>>
    /\ n % 2 = 0 /\ end <= pos /\ stream[end].k = "comma"
    /\ LengthIn(block).k = "number" /\ LengthIn(block).v \in 0 .. MaxRequest
    /\ head = [mode |-> ModeIn(block), length |-> LengthIn(block).v]
    /\ data = SubSeq(stream, end + 1, pos) /\ pos <= end + head.length

\* The same of SCGI.
ScgiOK ==
    /\ pc \in {"header", "block", "comma", "body", "closed", "failed", "gone"}
    /\ pc = "header" =>
          /\ \A i \in 1 .. pos : stream[i].k = "digit"
          /\ head = [mode |-> "normal", length |-> 0]
          /\ pos < MaxDigits /\ data = SubSeq(stream, 1, pos) /\ wire = <<>>
    /\ pc \in {"block", "comma"} => \E d \in 2 .. pos : ScgiHeaders(d)
    /\ pc = "body" => \E d \in 2 .. pos : ScgiBody(d)
    /\ pc \in {"closed", "failed", "gone"} => H!IsMeant(H!MeansScgi(H!Received))

StreamOK == stream \in Seq(Units) /\ pos \in 0 .. Len(stream)

-----------------------------------------------------------------------------
(* Parts of a stream *)

\* A set of numbers that is not empty has a least one.
LEMMA NatLeast ==
    ASSUME NEW T \in SUBSET Nat, T # {}
    PROVE  \E m \in T : \A n \in T : m <= n
<1> DEFINE I == {0 .. n : n \in T}
<1>1. I \subseteq FiniteSubsetsOf(Nat)
    <2> SUFFICES ASSUME NEW n \in T PROVE 0 .. n \in FiniteSubsetsOf(Nat)
        OBVIOUS
    <2>1. IsFiniteSet(0 .. n)
        BY FS_Interval
    <2> QED BY <2>1 DEF FiniteSubsetsOf
<1>2. IsWellFoundedOn(StrictSubsetOrdering(Nat), FiniteSubsetsOf(Nat))
    BY FS_StrictSubsetOrderingWellFounded
<1>3. PICK x \in I : \A y \in I : <<y, x>> \notin StrictSubsetOrdering(Nat)
    <2>1. I # {}
        OBVIOUS
    <2> HIDE DEF I
    <2> QED BY <1>1, <1>2, <2>1, WFMin
<1>4. PICK m \in T : x = 0 .. m
    OBVIOUS
<1>5. ASSUME NEW n \in T, n < m PROVE FALSE
    <2>1. 0 .. n \in I /\ 0 .. n \subseteq 0 .. m /\ 0 .. n # 0 .. m
        BY <1>5
    <2>2. <<0 .. n, 0 .. m>> \in StrictSubsetOrdering(Nat)
        BY <2>1 DEF StrictSubsetOrdering
    <2> QED BY <2>1, <2>2, <1>3, <1>4
<1> QED BY <1>5

\* Induction: the numbers that something is true of are all numbers.
LEMMA NatRule ==
    ASSUME NEW T \in SUBSET Nat, 0 \in T, \A n \in T : n + 1 \in T
    PROVE  \A n \in Nat : n \in T
<1> SUFFICES ASSUME Nat \ T # {} PROVE FALSE
    OBVIOUS
<1>1. PICK m \in Nat \ T : \A n \in Nat \ T : m <= n
    BY NatLeast
<1>2. m - 1 \in T
    BY <1>1
<1> QED BY <1>1, <1>2

LEMMA MinIs ==
    ASSUME NEW S \in SUBSET Nat, S # {}
    PROVE  H!Min(S) \in S /\ \A x \in S : H!Min(S) <= x
<1>1. PICK m \in S : \A x \in S : m <= x
    BY NatLeast
<1> QED BY <1>1 DEF H!Min

LEMMA MinOf ==
    ASSUME NEW S \in SUBSET Nat, NEW m \in S, \A x \in S : m <= x
    PROVE  H!Min(S) = m
<1>1. H!Min(S) \in S /\ \A x \in S : H!Min(S) <= x
    BY MinIs
<1>2. H!Min(S) <= m /\ m <= H!Min(S) /\ H!Min(S) \in Nat
    BY <1>1
<1> QED BY <1>2

LEMMA MinOfTwo ==
    ASSUME NEW a \in Nat, NEW b \in Nat
    PROVE  H!Min({a, b}) = IF a <= b THEN a ELSE b
<1>1. CASE a <= b
    <2>1. H!Min({a, b}) = a
        BY <1>1, MinOf
    <2> QED BY <1>1, <2>1
<1>2. CASE ~(a <= b)
    <2>1. H!Min({a, b}) = b
        BY <1>2, MinOf
    <2> QED BY <1>2, <2>1
<1> QED BY <1>1, <1>2

LEMMA MaxIs ==
    ASSUME NEW n \in Nat, NEW S \in SUBSET (1 .. n), S # {}
    PROVE  H!Max(S) \in S /\ \A x \in S : x <= H!Max(S)
<1> DEFINE U == {n - x : x \in S}
<1>1. U \in SUBSET Nat /\ U # {}
    <2>1. ASSUME NEW x \in S PROVE n - x \in Nat
        <3>1. x \in 1 .. n
            OBVIOUS
        <3> QED BY <3>1
    <2> QED BY <2>1
<1>2. PICK m \in U : \A y \in U : m <= y
    <2> HIDE DEF U
    <2> QED BY <1>1, NatLeast
<1>3. PICK x \in S : m = n - x
    BY <1>2
<1>4. \A y \in S : x >= y
    <2> TAKE y \in S
    <2>1. n - x <= n - y
        BY <1>2, <1>3
    <2> QED BY <2>1
<1> QED BY <1>3, <1>4 DEF H!Max

LEMMA SliceIs ==
    ASSUME NEW s \in Seq(Units), NEW i \in Nat \ {0}, NEW j \in 0 .. Len(s), i <= j + 1
    PROVE  /\ SubSeq(s, i, j) \in Seq(Units)
           /\ Len(SubSeq(s, i, j)) = j - i + 1
           /\ DOMAIN SubSeq(s, i, j) = 1 .. j - i + 1
           /\ \A x \in 1 .. j - i + 1 : SubSeq(s, i, j)[x] = s[i + x - 1]
<1>1. \A x \in i .. j : s[x] \in Units
    OBVIOUS
<1>2. /\ SubSeq(s, i, j) \in Seq(Units)
      /\ Len(SubSeq(s, i, j)) = IF i <= j THEN j - i + 1 ELSE 0
      /\ \A x \in 1 .. j - i + 1 : SubSeq(s, i, j)[x] = s[i + x - 1]
    <2>1. i \in Int /\ j \in Int
        OBVIOUS
    <2>2. \A x \in 1 .. j - i + 1 : SubSeq(s, i, j)[x] = s[i + x - 1]
        BY <1>1, <2>1, SubSeqProperties
    <2>3. /\ SubSeq(s, i, j) \in Seq(Units)
          /\ Len(SubSeq(s, i, j)) = IF i <= j THEN j - i + 1 ELSE 0
        BY <1>1, <2>1, SubSeqProperties
    <2> QED BY <2>2, <2>3
<1>3. Len(SubSeq(s, i, j)) = j - i + 1
    BY <1>2
<1> QED BY <1>2, <1>3

LEMMA SliceOfSlice ==
    ASSUME NEW s \in Seq(Units), NEW i \in Nat \ {0}, NEW j \in 0 .. Len(s), i <= j + 1,
           NEW m \in Nat \ {0}, NEW n \in 0 .. j - i + 1
    PROVE  SubSeq(SubSeq(s, i, j), m, n) = SubSeq(s, i + m - 1, i + n - 1)
<1> DEFINE t == SubSeq(s, i, j)
<1>1. t \in Seq(Units) /\ Len(t) = j - i + 1
    BY SliceIs
<1>2. CASE n < m
    <2>1. SubSeq(t, m, n) = <<>>
        <3> HIDE DEF t
        <3> QED BY <1>2, SubSeqEmpty
    <2>2. SubSeq(s, i + m - 1, i + n - 1) = <<>>
        <3> DEFINE a == i + m - 1
                   b == i + n - 1
        <3>1. a \in Int /\ b \in Int /\ b < a
            BY <1>2
        <3> HIDE DEF a, b
        <3>2. SubSeq(s, a, b) = <<>>
            BY <3>1, SubSeqEmpty
        <3> QED BY <3>2 DEF a, b
    <2> QED BY <2>1, <2>2
<1>3. CASE m <= n
    <2>1. i \in 1 .. Len(s) /\ j \in 1 .. Len(s) /\ m \in 1 .. j - i + 1 /\ n \in 1 .. j - i + 1
        BY <1>3
    <2> QED BY <2>1, SubSeqOfSubSeq
<1> QED BY <1>2, <1>3

LEMMA SliceJoin ==
    ASSUME NEW s \in Seq(Units), NEW i \in Nat \ {0}, NEW j \in Nat, NEW k \in Nat,
           i <= j + 1, j <= k, k <= Len(s)
    PROVE  SubSeq(s, i, j) \o SubSeq(s, j + 1, k) = SubSeq(s, i, k)
<1>1. i \in 1 .. Len(s) + 1 /\ j \in i - 1 .. Len(s) /\ k \in j .. Len(s)
    OBVIOUS
<1> QED BY <1>1, ConcatAdjacentSubSeq

\* A recv returns what comes next.
LEMMA BlockIs ==
    ASSUME StreamOK, NEW n \in Int, NEW block \in H!Blocks(n)
    PROVE  \E q \in pos + 1 .. Len(stream) :
              /\ q - pos <= n
              /\ block = SubSeq(stream, pos + 1, q) /\ Len(block) = q - pos
<1> DEFINE S == {n, MaxBlock, Len(stream) - pos}
           m == H!Min(S)
<1>1. PICK k \in 1 .. m : block = SubSeq(stream, pos + 1, pos + k)
    BY DEF H!Blocks
<1>2. MaxBlock \in Int /\ Len(stream) - pos \in Int
    BY LimitAssumption DEF StreamOK
<1>3. m \in Int /\ m <= n /\ m <= Len(stream) - pos
    <2>1. \E x \in S : \A y \in S : x <= y
        BY <1>2
    <2> QED BY <1>2, <2>1 DEF H!Min
<1>4. pos + k \in pos + 1 .. Len(stream) /\ k <= n
    BY <1>1, <1>3 DEF StreamOK
<1> DEFINE q == pos + k
<1>5. q \in pos + 1 .. Len(stream) /\ q - pos <= n
    BY <1>1, <1>3, <1>4 DEF StreamOK
<1>6. block = SubSeq(stream, pos + 1, q)
    BY <1>1
<1> HIDE DEF q
<1>7. Len(block) = q - pos
    <2>1. pos + 1 \in Nat \ {0} /\ q \in 0 .. Len(stream) /\ pos + 1 <= q + 1
          /\ q - (pos + 1) + 1 = q - pos
        BY <1>5 DEF StreamOK
    <2> QED BY <1>6, <2>1, SliceIs DEF StreamOK
<1> QED BY <1>5, <1>6, <1>7

\* A part of what was received is a part of the stream.
LEMMA PartIs ==
    ASSUME NEW s \in Seq(Units), NEW q \in 0 .. Len(s), NEW a \in 0 .. q, NEW k \in Nat
    PROVE  H!Part(SubSeq(s, 1, q), a, k) = SubSeq(s, a + 1, H!Min({q, a + k}))
<1> DEFINE r == SubSeq(s, 1, q)
           x == a + 1
           b == a + k
           m == H!Min({q, b})
<1>1. Len(r) = q
    <2>1. Len(r) = q - 1 + 1
        BY SliceIs
    <2> HIDE DEF r
    <2> QED BY <2>1
<1>2. H!Part(r, a, k) = SubSeq(r, x, m)
    <2> HIDE DEF r
    <2> QED BY <1>1 DEF H!Part
<1>3. b \in Nat /\ x \in Nat \ {0}
    OBVIOUS
<1> HIDE DEF b
<1>4. m \in 0 .. q - 1 + 1
    <2>1. m = IF q <= b THEN q ELSE b
        BY <1>3, MinOfTwo
    <2> HIDE DEF m
    <2> QED BY <1>3, <2>1
<1> HIDE DEF m, x
<1>5. SubSeq(r, x, m) = SubSeq(s, 1 + x - 1, 1 + m - 1)
    BY <1>3, <1>4, SliceOfSlice
<1>6. 1 + x - 1 = x /\ 1 + m - 1 = m
    BY <1>3, <1>4
<1> HIDE DEF r
<1>7. H!Part(r, a, k) = SubSeq(s, x, m)
    BY <1>2, <1>5, <1>6
<1> QED BY <1>7 DEF r, x, m, b

-----------------------------------------------------------------------------
(* The last header of a kind *)

\* The fold of LastOf, as a function on sets of places.
LastAt(f, s, k, S) ==
    IF S = {} THEN <<>>
    ELSE IF s[H!Max(S)].k = k THEN <<s[H!Max(S)].v>> ELSE f[S \ {H!Max(S)}]

IsLast(f, s, k) == f = [S \in SUBSET DOMAIN s |-> LastAt(f, s, k, S)]

Last(s, k) == CHOOSE f : IsLast(f, s, k)

LEMMA LastOfIs == \A s, k : H!LastOf(s, k) = Last(s, k)[DOMAIN s]
BY DEF H!LastOf, H!FoldLeft, H!MapThenFoldSet, Last, IsLast, LastAt

\* What LastOf is meant to be.
LastIn(s, k, S) ==
    LET at == {i \in S : s[i].k = k}
    IN IF at = {} THEN <<>> ELSE <<s[H!Max(at)].v>>

LEMMA LastStep ==
    ASSUME NEW s, NEW k, NEW n \in Nat, NEW S \in SUBSET (1 .. n), NEW f,
           S # {} => f[S \ {H!Max(S)}] = LastIn(s, k, S \ {H!Max(S)})
    PROVE  LastAt(f, s, k, S) = LastIn(s, k, S)
<1>1. CASE S = {}
    BY <1>1 DEF LastAt, LastIn
<1>2. CASE S # {}
    <2> DEFINE m == H!Max(S)
               at == {i \in S : s[i].k = k}
    <2>1. m \in S /\ \A y \in S : y <= m
        BY <1>2, MaxIs
    <2>2. CASE s[m].k = k
        <3>1. m \in at /\ at \in SUBSET (1 .. n)
            BY <2>1, <2>2
        <3>2. H!Max(at) = m
            <4>1. H!Max(at) \in at /\ \A y \in at : y <= H!Max(at)
                <5> HIDE DEF at
                <5> QED BY <3>1, MaxIs
            <4> DEFINE t == H!Max(at)
            <4>2. t <= m /\ m <= t /\ t \in 1 .. n /\ m \in 1 .. n
                BY <4>1, <2>1, <3>1
            <4> HIDE DEF t, m
            <4>3. t = m
                BY <4>2
            <4> QED BY <4>3 DEF t
        <3> HIDE DEF m
        <3> QED BY <3>1, <3>2, <1>2, <2>2 DEF LastAt, LastIn, m
    <2>3. CASE s[m].k # k
        <3>1. at = {i \in S \ {m} : s[i].k = k}
            BY <2>3
        <3>2. LastAt(f, s, k, S) = LastIn(s, k, S \ {m})
            BY <1>2, <2>3 DEF LastAt
        <3> HIDE DEF m
        <3> QED BY <3>1, <3>2 DEF LastIn
    <2> QED BY <2>2, <2>3
<1> QED BY <1>1, <1>2

LEMMA LastIs ==
    ASSUME NEW s, NEW k, NEW n \in Nat, DOMAIN s = 1 .. n
    PROVE  H!LastOf(s, k) = LastIn(s, k, 1 .. n)
<1> DEFINE h == [S \in SUBSET (1 .. n) |-> LastIn(s, k, S)]
           f == Last(s, k)
           T == {i \in Nat : i <= n => f[1 .. i] = LastIn(s, k, 1 .. i)}
<1>1. IsLast(h, s, k)
    <2>1. ASSUME NEW S \in SUBSET (1 .. n)
          PROVE  LastIn(s, k, S) = LastAt(h, s, k, S)
        <3>1. h[S \ {H!Max(S)}] = LastIn(s, k, S \ {H!Max(S)})
            OBVIOUS
        <3> HIDE DEF h
        <3> QED BY <3>1, LastStep
    <2>2. h = [S \in SUBSET (1 .. n) |-> LastAt(h, s, k, S)]
        <3> DEFINE g == [S \in SUBSET (1 .. n) |-> LastAt(h, s, k, S)]
        <3>1. \A S \in SUBSET (1 .. n) : h[S] = g[S]
            BY <2>1
        <3>2. DOMAIN h = SUBSET (1 .. n) /\ DOMAIN g = SUBSET (1 .. n)
              /\ h = [S \in SUBSET (1 .. n) |-> h[S]] /\ g = [S \in SUBSET (1 .. n) |-> g[S]]
            OBVIOUS
        <3> HIDE DEF h, g
        <3>3. h = g
            BY <3>1, <3>2
        <3> QED BY <3>3 DEF g
    <2> HIDE DEF h
    <2> QED BY <2>2 DEF IsLast
<1>2. \A S \in SUBSET (1 .. n) : f[S] = LastAt(f, s, k, S)
    <2>1. IsLast(f, s, k)
        <3> HIDE DEF h
        <3> QED BY <1>1 DEF Last
    <2> HIDE DEF f
    <2> QED BY <2>1 DEF IsLast
<1>3. 0 \in T
    <2>1. 1 .. 0 = {} /\ {} \in SUBSET (1 .. n)
        OBVIOUS
    <2>2. f[{}] = LastIn(s, k, {})
        <3> HIDE DEF f
        <3> QED BY <1>2, <2>1, LastStep
    <2> HIDE DEF f
    <2> QED BY <2>1, <2>2
<1>4. ASSUME NEW i \in T PROVE i + 1 \in T
    <2> HIDE DEF f
    <2> SUFFICES ASSUME i + 1 <= n PROVE f[1 .. i + 1] = LastIn(s, k, 1 .. i + 1)
        OBVIOUS
    <2> DEFINE S == 1 .. i + 1
    <2>1. i \in Nat /\ S \in SUBSET (1 .. n) /\ S # {} /\ i + 1 \in S
        <3>1. i \in Nat
            BY DEF T
        <3> HIDE DEF T, h
        <3>2. i + 1 \in S
            BY <3>1
        <3>3. S \in SUBSET (1 .. n)
            BY <3>1
        <3> QED BY <3>1, <3>2, <3>3
    <2>2. H!Max(S) \in S /\ \A y \in S : y <= H!Max(S)
        BY <2>1, MaxIs
    <2>3. H!Max(S) = i + 1
        BY <2>1, <2>2
    <2>4. S \ {H!Max(S)} = 1 .. i
        BY <2>1, <2>3
    <2>5. f[1 .. i] = LastIn(s, k, 1 .. i)
        OBVIOUS
    <2> HIDE DEF S
    <2>6. f[S] = LastIn(s, k, S)
        BY <1>2, <2>1, <2>4, <2>5, LastStep
    <2> QED BY <2>6 DEF S
<1>5. n \in T
    <2>1. T \in SUBSET Nat
        OBVIOUS
    <2> HIDE DEF T
    <2> QED BY <1>3, <1>4, <2>1, NatRule
<1>6. H!LastOf(s, k) = f[1 .. n]
    BY LastOfIs
<1> HIDE DEF f
<1> QED BY <1>5, <1>6

-----------------------------------------------------------------------------
(* What a part of an HTTP stream means *)

LEMMA EndsOf ==
    ASSUME NEW s \in Seq(Units), NEW q \in 0 .. Len(s)
    PROVE  LET r == SubSeq(s, 1, q) IN
           {i \in 2 .. Len(r) : r[i].k = "eol" /\ r[i - 1].k = "eol"}
               = {i \in 2 .. q : EndsAt(s, i)}
<1> DEFINE r == SubSeq(s, 1, q)
<1>1. Len(r) = q /\ \A i \in 1 .. q : r[i] = s[i]
    <2>1. 1 \in Nat \ {0} /\ 1 <= q + 1
        OBVIOUS
    <2>2. Len(r) = q - 1 + 1 /\ \A i \in 1 .. q - 1 + 1 : r[i] = s[1 + i - 1]
        BY <2>1, SliceIs
    <2> HIDE DEF r
    <2> QED BY <2>2
<1> HIDE DEF r
<1>2. \A i \in 2 .. q : r[i] = s[i] /\ r[i - 1] = s[i - 1]
    BY <1>1
<1> QED BY <1>1, <1>2 DEF EndsAt, r

LEMMA MeansNone ==
    ASSUME NEW s \in Seq(Units), NEW q \in 0 .. Len(s), \A i \in 2 .. q : ~EndsAt(s, i)
    PROVE  H!MeansHttp(SubSeq(s, 1, q)) =
               IF q > MaxHeaders THEN <<"fail">> ELSE <<"more">>
<1> DEFINE r == SubSeq(s, 1, q)
<1>1. {i \in 2 .. Len(r) : r[i].k = "eol" /\ r[i - 1].k = "eol"} = {}
    BY EndsOf
<1>2. Len(r) = q
    BY SliceIs
<1> HIDE DEF r
<1>3. H!MeansHttp(r) = IF q > MaxHeaders THEN <<"fail">> ELSE <<"more">>
    BY <1>1, <1>2 DEF H!MeansHttp
<1> QED BY <1>3 DEF r

\* The mode an HTTP request names.
Named(s, e) ==
    LET mode == H!LastOf(SubSeq(s, 1, e), "mode") IN IF mode = <<>> THEN s[1].v ELSE mode[1]

LEMMA HeaderLasts ==
    ASSUME NEW s \in Seq(Units), NEW q \in 0 .. Len(s), NEW e \in 1 .. q, NEW k
    PROVE  H!LastOf(SubSeq(s, 1, e), k) = LastIn(SubSeq(s, 1, q), k, 1 .. e)
<1> DEFINE r == SubSeq(s, 1, q)
           t == SubSeq(s, 1, e)
           at == {i \in 1 .. e : r[i].k = k}
<1>1. /\ \A i \in 1 .. e : r[i] = s[i] /\ t[i] = s[i]
      /\ DOMAIN t = 1 .. e
    <2>1. \A i \in 1 .. q - 1 + 1 : r[i] = s[1 + i - 1]
        BY SliceIs
    <2>2. (\A i \in 1 .. e - 1 + 1 : t[i] = s[1 + i - 1]) /\ DOMAIN t = 1 .. e - 1 + 1
        BY SliceIs
    <2> HIDE DEF r, t
    <2> QED BY <2>1, <2>2
<1>2. H!LastOf(t, k) = LastIn(t, k, 1 .. e)
    <2> HIDE DEF t
    <2> QED BY <1>1, LastIs
<1>3. {i \in 1 .. e : t[i].k = k} = at
    <2> HIDE DEF r, t
    <2> QED BY <1>1
<1>4. CASE at = {}
    BY <1>2, <1>3, <1>4 DEF LastIn
<1>5. CASE at # {}
    <2>1. H!Max(at) \in at /\ at \in SUBSET (1 .. e)
        <3>1. at \in SUBSET (1 .. e) /\ e \in Nat
            OBVIOUS
        <3> HIDE DEF at
        <3> QED BY <3>1, <1>5, MaxIs
    <2>2. t[H!Max(at)] = r[H!Max(at)]
        <3> HIDE DEF r, t, at
        <3> QED BY <2>1, <1>1 DEF at
    <2>3. LastIn(t, k, 1 .. e) = <<t[H!Max(at)].v>>
        <3> HIDE DEF at, r, t
        <3> QED BY <1>3, <1>5 DEF LastIn
    <2>4. LastIn(r, k, 1 .. e) = <<r[H!Max(at)].v>>
        <3> HIDE DEF r, t
        <3> QED BY <1>5 DEF LastIn
    <2> HIDE DEF at, r, t
    <2>5. H!LastOf(t, k) = LastIn(r, k, 1 .. e)
        BY <2>2, <2>3, <2>4, <1>2
    <2> QED BY <2>5 DEF r, t
<1> QED BY <1>4, <1>5

LEMMA MeansEnd ==
    ASSUME NEW s \in Seq(Units), NEW q \in 0 .. Len(s), NEW e \in 2 .. q, IsEnd(s, e),
           e <= MaxHeaders + 1
    PROVE  LET n == LengthOf(s, e) IN
           H!MeansHttp(SubSeq(s, 1, q)) =
               IF s[1].k # "line" \/ n \notin 0 .. MaxRequest THEN <<"fail">>
               ELSE IF q < e + n THEN <<"more">>
               ELSE <<"answer", Named(s, e),
                      SubSeq(s, e + n + 1, H!Min({q, e + n + MaxRequest}))>>
<1> DEFINE r == SubSeq(s, 1, q)
           ends == {i \in 2 .. Len(r) : r[i].k = "eol" /\ r[i - 1].k = "eol"}
           fields == {i \in 1 .. e : r[i].k = "length"}
           modes == {i \in 1 .. e : r[i].k = "mode"}
           length == IF fields = {} THEN 0
                     ELSE IF r[H!Max(fields)].v = <<>> THEN 0 ELSE r[H!Max(fields)].v[1]
           name == IF modes = {} THEN r[1].v ELSE r[H!Max(modes)].v
           n == LengthOf(s, e)
<1>1. Len(r) = q /\ r[1] = s[1]
    <2>1. Len(r) = q - 1 + 1 /\ \A i \in 1 .. q - 1 + 1 : r[i] = s[1 + i - 1]
        BY SliceIs
    <2> HIDE DEF r
    <2> QED BY <2>1
<1>2. ends # {} /\ H!Min(ends) = e
    <2>1. ends = {i \in 2 .. q : EndsAt(s, i)}
        BY EndsOf
    <2>2. e \in ends /\ ends \in SUBSET Nat
        <3> HIDE DEF ends
        <3> QED BY <2>1 DEF IsEnd
    <2>3. \A x \in ends : e <= x
        <3> HIDE DEF ends
        <3> QED BY <2>1 DEF IsEnd
    <2> HIDE DEF ends
    <2> QED BY <2>2, <2>3, MinOf
<1>3. length = n
    <2>1. H!LastOf(SubSeq(s, 1, e), "length") = LastIn(r, "length", 1 .. e)
        BY HeaderLasts
    <2>2. LastIn(r, "length", 1 .. e) = IF fields = {} THEN <<>> ELSE <<r[H!Max(fields)].v>>
        <3> HIDE DEF r
        <3> QED BY DEF LastIn
    <2> HIDE DEF r, fields
    <2>3. CASE fields = {}
        <3>1. H!LastOf(SubSeq(s, 1, e), "length") = <<>>
            BY <2>1, <2>2, <2>3
        <3> QED BY <3>1, <2>3 DEF LengthOf
    <2>4. CASE fields # {}
        <3>1. H!LastOf(SubSeq(s, 1, e), "length") = <<r[H!Max(fields)].v>>
            BY <2>1, <2>2, <2>4
        <3> QED BY <3>1, <2>4 DEF LengthOf
    <2> QED BY <2>3, <2>4
<1>4. name = Named(s, e)
    <2>1. H!LastOf(SubSeq(s, 1, e), "mode") = LastIn(r, "mode", 1 .. e)
        BY HeaderLasts
    <2>2. LastIn(r, "mode", 1 .. e) = IF modes = {} THEN <<>> ELSE <<r[H!Max(modes)].v>>
        <3> HIDE DEF r
        <3> QED BY DEF LastIn
    <2> HIDE DEF r, modes
    <2>3. CASE modes = {}
        <3>1. H!LastOf(SubSeq(s, 1, e), "mode") = <<>>
            BY <2>1, <2>2, <2>3
        <3> QED BY <3>1, <2>3, <1>1 DEF Named
    <2>4. CASE modes # {}
        <3>1. H!LastOf(SubSeq(s, 1, e), "mode") = <<r[H!Max(modes)].v>>
            BY <2>1, <2>2, <2>4
        <3> DEFINE last == H!LastOf(SubSeq(s, 1, e), "mode")
                   v == r[H!Max(modes)].v
        <3>3. Named(s, e) = IF last = <<>> THEN s[1].v ELSE last[1]
            BY DEF Named
        <3> HIDE DEF last, v
        <3>4. last = <<v>>
            BY <3>1 DEF last, v
        <3>5. last # <<>> /\ last[1] = v
            BY <3>4
        <3>2. Named(s, e) = r[H!Max(modes)].v
            BY <3>3, <3>5 DEF v
        <3> QED BY <3>2, <2>4
    <2> QED BY <2>3, <2>4
<1>5. H!MeansHttp(r) =
          IF ends = {} \/ H!Min(ends) > MaxHeaders + 1
          THEN IF Len(r) > MaxHeaders THEN <<"fail">> ELSE <<"more">>
          ELSE IF r[1].k # "line" \/ length \notin 0 .. MaxRequest THEN <<"fail">>
          ELSE IF Len(r) < e + length THEN <<"more">>
          ELSE <<"answer", name, H!Part(r, e + length, MaxRequest)>>
    <2> HIDE DEF r
    <2>1. H!Min(ends) = e
        BY <1>2
    <2> QED BY <2>1 DEF H!MeansHttp
<1>6. ASSUME n \in 0 .. MaxRequest, ~(q < e + n)
      PROVE  H!Part(r, e + n, MaxRequest) =
                 SubSeq(s, e + n + 1, H!Min({q, e + n + MaxRequest}))
    <2> DEFINE a == e + n
    <2>1. a \in 0 .. q /\ MaxRequest \in Nat
        <3> HIDE DEF n
        <3> QED BY <1>6, LimitAssumption
    <2> HIDE DEF a
    <2>2. H!Part(r, a, MaxRequest) = SubSeq(s, a + 1, H!Min({q, a + MaxRequest}))
        BY <2>1, PartIs
    <2> QED BY <2>2 DEF a
<1> HIDE DEF ends, length, name, n, r
<1>7. ~(H!Min(ends) > MaxHeaders + 1)
    BY <1>2, LimitAssumption
<1>8. H!MeansHttp(r) =
          IF s[1].k # "line" \/ n \notin 0 .. MaxRequest THEN <<"fail">>
          ELSE IF q < e + n THEN <<"more">>
          ELSE <<"answer", Named(s, e), H!Part(r, e + n, MaxRequest)>>
    BY <1>1, <1>2, <1>3, <1>4, <1>5, <1>7
<1> QED BY <1>8, <1>6 DEF r, n

LEMMA MeansRefused ==
    ASSUME NEW s \in Seq(Units), NEW q \in 0 .. Len(s), NEW e \in 2 .. q, IsEnd(s, e),
           e <= MaxHeaders + 1,
           s[1].k # "line" \/ LengthOf(s, e) \notin 0 .. MaxRequest
    PROVE  H!MeansHttp(SubSeq(s, 1, q)) = <<"fail">>
<1> DEFINE n == LengthOf(s, e)
<1>1. H!MeansHttp(SubSeq(s, 1, q)) =
          IF s[1].k # "line" \/ n \notin 0 .. MaxRequest THEN <<"fail">>
          ELSE IF q < e + n THEN <<"more">>
          ELSE <<"answer", Named(s, e), SubSeq(s, e + n + 1, H!Min({q, e + n + MaxRequest}))>>
    BY MeansEnd
<1> QED BY <1>1

LEMMA MeansAnswer ==
    ASSUME NEW s \in Seq(Units), NEW q \in 0 .. Len(s), NEW e \in 2 .. q, IsEnd(s, e),
           e <= MaxHeaders + 1,
           s[1].k = "line", LengthOf(s, e) \in 0 .. MaxRequest
    PROVE  LET n == LengthOf(s, e) IN
           H!MeansHttp(SubSeq(s, 1, q)) =
               IF q < e + n THEN <<"more">>
               ELSE <<"answer", Named(s, e),
                      SubSeq(s, e + n + 1, H!Min({q, e + n + MaxRequest}))>>
<1> DEFINE n == LengthOf(s, e)
<1>1. H!MeansHttp(SubSeq(s, 1, q)) =
          IF s[1].k # "line" \/ n \notin 0 .. MaxRequest THEN <<"fail">>
          ELSE IF q < e + n THEN <<"more">>
          ELSE <<"answer", Named(s, e), SubSeq(s, e + n + 1, H!Min({q, e + n + MaxRequest}))>>
    BY MeansEnd
<1> QED BY <1>1

LEMMA ModeNamed ==
    \A s, e : ModeOf(s, e) =
                  IF Named(s, e) \in {"upgrade", "truncated"} THEN Named(s, e) ELSE "normal"
<1> SUFFICES ASSUME NEW s, NEW e
             PROVE  ModeOf(s, e) =
                  IF Named(s, e) \in {"upgrade", "truncated"} THEN Named(s, e) ELSE "normal"
    OBVIOUS
<1> DEFINE last == H!LastOf(SubSeq(s, 1, e), "mode")
<1>1. ModeOf(s, e) = H!SelectMode(s[1].v, last)
    BY DEF ModeOf
<1>2. Named(s, e) = IF last = <<>> THEN s[1].v ELSE last[1]
    BY DEF Named
<1> HIDE DEF last
<1> QED BY <1>1, <1>2 DEF H!SelectMode

LEMMA LengthInt ==
    ASSUME NEW s \in Seq(Units), NEW e \in 1 .. Len(s)
    PROVE  LengthOf(s, e) \in Int
<1> DEFINE t == SubSeq(s, 1, e)
           at == {i \in 1 .. e : t[i].k = "length"}
           last == H!LastOf(t, "length")
<1>1. t \in Seq(Units) /\ DOMAIN t = 1 .. e /\ \A i \in 1 .. e : t[i] \in Units
    <2>1. t \in Seq(Units) /\ Len(t) = e - 1 + 1 /\ DOMAIN t = 1 .. e - 1 + 1
        BY SliceIs
    <2> HIDE DEF t
    <2> QED BY <2>1
<1>2. last = IF at = {} THEN <<>> ELSE <<t[H!Max(at)].v>>
    <2>1. last = LastIn(t, "length", 1 .. e)
        <3> HIDE DEF t
        <3> QED BY <1>1, LastIs
    <2> HIDE DEF t, last
    <2> QED BY <2>1 DEF LastIn
<1>3. LengthOf(s, e) = IF last = <<>> THEN 0 ELSE IF last[1] = <<>> THEN 0 ELSE last[1][1]
    BY DEF LengthOf
<1>4. CASE at = {}
    <2> HIDE DEF last, at
    <2> QED BY <1>2, <1>3, <1>4
<1>5. CASE at # {}
    <2>1. H!Max(at) \in at
        <3>1. at \in SUBSET (1 .. e) /\ e \in Nat
            OBVIOUS
        <3> HIDE DEF at
        <3> QED BY <3>1, <1>5, MaxIs
    <2> DEFINE u == t[H!Max(at)]
    <2>2. u \in Units /\ u.k = "length"
        <3> HIDE DEF t
        <3> QED BY <2>1, <1>1
    <2>3. last = <<u.v>>
        <3> HIDE DEF t, at, last
        <3> QED BY <1>2, <1>5
    <2> HIDE DEF u, last
    <2>4. LengthOf(s, e) = IF u.v = <<>> THEN 0 ELSE u.v[1]
        BY <1>3, <2>3
    <2> QED BY <2>2, <2>4, UnitAssumption
<1> QED BY <1>4, <1>5

-----------------------------------------------------------------------------
(* The steps of handle_http *)

LEMMA ReceivedNext ==
    ASSUME stream' = stream, NEW q, pos' = q
    PROVE  H!Received' = SubSeq(stream, 1, q)
BY DEF H!Received

\* A handler that has failed, or whose peer has gone.
LEMMA HttpFailed ==
    ASSUME pc' = "failed", wire' = <<>>, H!MeansHttp(H!Received)' = <<"fail">>
    PROVE  HttpOK'
<1>1. H!IsMeant(H!MeansHttp(H!Received))'
    BY DEF H!IsMeant
<1> QED BY <1>1 DEF HttpOK

LEMMA MarkerIs ==
    ASSUME NEW q \in 0 .. Len(stream), stream \in Seq(Units),
           NEW before, NEW block, before \o block = SubSeq(stream, 1, q)
    PROVE  LET e == H!Marker(before, block) IN
           \/ e = 0 /\ \A i \in 2 .. q : ~EndsAt(stream, i)
           \/ e \in 2 .. q /\ IsEnd(stream, e)
<1> DEFINE r == SubSeq(stream, 1, q)
           ends == {i \in 2 .. Len(r) : r[i].k = "eol" /\ r[i - 1].k = "eol"}
           e == H!Marker(before, block)
<1>1. ends = {i \in 2 .. q : EndsAt(stream, i)}
    BY EndsOf
<1>2. e = IF ends = {} THEN 0 ELSE H!Min(ends)
    BY DEF H!Marker
<1> HIDE DEF e, ends
<1>3. \/ e = 0 /\ \A i \in 2 .. q : ~EndsAt(stream, i)
      \/ e \in 2 .. q /\ IsEnd(stream, e)
    <2>1. CASE ends = {}
        BY <1>1, <1>2, <2>1
    <2>2. CASE ends # {}
        <3>1. ends \in SUBSET Nat
            BY <1>1
        <3>2. e \in ends /\ \A x \in ends : e <= x
            BY <1>2, <2>2, <3>1, MinIs
        <3>3. e \in 2 .. q /\ EndsAt(stream, e)
            BY <3>2, <1>1
        <3>4. \A i \in 2 .. e - 1 : ~EndsAt(stream, i)
            BY <3>2, <3>3, <1>1
        <3> QED BY <3>3, <3>4 DEF IsEnd
    <2> QED BY <2>1, <2>2
<1> QED BY <1>3 DEF e

LEMMA ParseIs ==
    ASSUME stream \in Seq(Units), NEW e \in 1 .. Len(stream), NEW extra,
           H!HttpParse(SubSeq(stream, 1, e), extra)
    PROVE  LET n == LengthOf(stream, e) IN
           \/ (stream[1].k # "line" \/ n \notin 0 .. MaxRequest) /\ H!Fail
           \/ /\ stream[1].k = "line" /\ n \in 0 .. MaxRequest
              /\ head' = [mode |-> ModeOf(stream, e), length |-> n]
              /\ data' = extra /\ pc' = "body" /\ wire' = wire
<1> DEFINE lines == SubSeq(stream, 1, e)
           last == H!LastOf(lines, "length")
           n == IF last = <<>> THEN 0 ELSE IF last[1] = <<>> THEN 0 ELSE last[1][1]
<1>1. lines[1] = stream[1]
    <2>1. \A i \in 1 .. e - 1 + 1 : lines[i] = stream[1 + i - 1]
        BY SliceIs
    <2> HIDE DEF lines
    <2> QED BY <2>1
<1>2. n = LengthOf(stream, e) /\ n \in Int
    <2>1. n = LengthOf(stream, e)
        BY DEF LengthOf
    <2> HIDE DEF n
    <2> QED BY <2>1, LengthInt
<1>3. ModeOf(stream, e) = H!SelectMode(stream[1].v, H!LastOf(lines, "mode"))
    BY DEF ModeOf
<1>4. \/ (lines[1].k # "line" \/ n < 0 \/ n > MaxRequest) /\ H!Fail
      \/ /\ lines[1].k = "line" /\ n >= 0 /\ n <= MaxRequest
         /\ head' = [mode |-> H!SelectMode(lines[1].v, H!LastOf(lines, "mode")),
                     length |-> n]
         /\ data' = extra /\ pc' = "body"
         /\ UNCHANGED wire
    <2> HIDE DEF H!Fail
    <2> QED BY DEF H!HttpParse
<1> HIDE DEF lines, n, H!Fail
<1>5. MaxRequest \in Int
    BY LimitAssumption
<1>6. CASE (lines[1].k # "line" \/ n < 0 \/ n > MaxRequest) /\ H!Fail
    BY <1>1, <1>2, <1>5, <1>6
<1>7. CASE /\ lines[1].k = "line" /\ n >= 0 /\ n <= MaxRequest
           /\ head' = [mode |-> H!SelectMode(lines[1].v, H!LastOf(lines, "mode")),
                       length |-> n]
           /\ data' = extra /\ pc' = "body"
           /\ UNCHANGED wire
    <2>1. n \in 0 .. MaxRequest
        BY <1>2, <1>5, <1>7
    <2> QED BY <1>1, <1>2, <1>3, <1>7, <2>1
<1> QED BY <1>4, <1>6, <1>7

LEMMA HttpHeaderKeeps ==
    ASSUME protocol = "http", StreamOK, HttpOK, H!HttpHeader
    PROVE  StreamOK' /\ HttpOK'
<1>1. /\ pc = "header" /\ wire = <<>> /\ data = SubSeq(stream, 1, pos)
      /\ pos <= MaxHeaders /\ stream \in Seq(Units) /\ pos \in 0 .. Len(stream)
    BY DEF H!HttpHeader, HttpOK, StreamOK
<1>2. PICK block \in H!Blocks(MaxHeaders + 1 - Len(data)) :
          LET all == data \o block
              end == H!Marker(data, block)
          IN /\ H!Recv(block)
             /\ \/ end # 0 /\ H!HttpParse(SubSeq(all, 1, end), SubSeq(all, end + 1, Len(all)))
                \/ end = 0 /\ Len(all) > MaxHeaders /\ H!Fail
                \/ /\ end = 0 /\ Len(all) <= MaxHeaders
                   /\ data' = all
                   /\ UNCHANGED <<pc, wire, head>>
    <2> HIDE DEF H!Recv, H!HttpParse, H!Fail
    <2> QED BY DEF H!HttpHeader
<1>3. Len(data) = pos /\ MaxHeaders \in Nat
    <2>1. Len(SubSeq(stream, 1, pos)) = pos - 1 + 1
        BY <1>1, SliceIs
    <2> QED BY <1>1, <2>1, LimitAssumption
<1>4. PICK q \in pos + 1 .. Len(stream) :
          /\ q - pos <= MaxHeaders + 1 - pos
          /\ block = SubSeq(stream, pos + 1, q) /\ Len(block) = q - pos
    <2>1. MaxHeaders + 1 - Len(data) \in Int
        BY <1>1, <1>3
    <2> QED BY <1>3, <2>1, BlockIs
<1>5. q \in 1 .. Len(stream) /\ q <= MaxHeaders + 1
    BY <1>1, <1>3, <1>4
<1>6. pos' = q /\ stream' = stream /\ StreamOK'
    <2>1. pos' = q /\ stream' = stream
        BY <1>1, <1>2, <1>4 DEF H!Recv
    <2> QED BY <2>1, <1>1, <1>5 DEF StreamOK
<1>7. data \o block = SubSeq(stream, 1, q)
    BY <1>1, <1>4, SliceJoin
<1>8. Len(SubSeq(stream, 1, q)) = q
    BY <1>1, <1>5, SliceIs
<1>14. PICK e \in Nat : e = H!Marker(data, block)
    <2>1. q \in 0 .. Len(stream)
        BY <1>5
    <2> DEFINE m == H!Marker(data, block)
    <2>2. m = 0 \/ m \in 2 .. q
        BY <1>1, <1>7, <2>1, MarkerIs
    <2> HIDE DEF m
    <2>3. m \in Nat
        BY <2>2
    <2> QED BY <2>3 DEF m
<1>9. \/ e = 0 /\ \A i \in 2 .. q : ~EndsAt(stream, i)
      \/ e \in 2 .. q /\ IsEnd(stream, e)
    <2>1. q \in 0 .. Len(stream)
        BY <1>5
    <2> QED BY <1>1, <1>7, <1>14, <2>1, MarkerIs
<1>10. \/ e # 0 /\ H!HttpParse(SubSeq(SubSeq(stream, 1, q), 1, e),
                               SubSeq(SubSeq(stream, 1, q), e + 1, q))
       \/ e = 0 /\ q > MaxHeaders /\ H!Fail
       \/ /\ e = 0 /\ q <= MaxHeaders
          /\ data' = SubSeq(stream, 1, q)
          /\ UNCHANGED <<pc, wire, head>>
    <2> HIDE DEF H!Recv, H!HttpParse, H!Fail, H!Marker
    <2> QED BY <1>2, <1>7, <1>8, <1>14
<1> HIDE DEF H!HttpParse
<1>11. CASE e # 0
    <2>1. e \in 2 .. q /\ IsEnd(stream, e) /\ e <= MaxHeaders + 1
        BY <1>5, <1>9, <1>11, <1>3
    <2> DEFINE n == LengthOf(stream, e)
               extra == SubSeq(SubSeq(stream, 1, q), e + 1, q)
    <2>2. SubSeq(SubSeq(stream, 1, q), 1, e) = SubSeq(stream, 1, e)
        <3>1. SubSeq(SubSeq(stream, 1, q), 1, e) = SubSeq(stream, 1 + 1 - 1, 1 + e - 1)
            BY <1>1, <1>5, <2>1, SliceOfSlice
        <3>2. 1 + 1 - 1 = 1 /\ 1 + e - 1 = e
            BY <2>1
        <3> QED BY <3>1, <3>2
    <2>3. extra = SubSeq(stream, e + 1, q)
        <3> DEFINE x == e + 1
        <3>1. x \in Nat \ {0} /\ q \in 0 .. q - 1 + 1 /\ 1 + x - 1 = x /\ 1 + q - 1 = q
            BY <1>5, <2>1
        <3> HIDE DEF x
        <3>2. SubSeq(SubSeq(stream, 1, q), x, q) = SubSeq(stream, 1 + x - 1, 1 + q - 1)
            BY <1>1, <1>5, <3>1, SliceOfSlice
        <3> QED BY <3>1, <3>2 DEF x
    <2>4. \/ (stream[1].k # "line" \/ n \notin 0 .. MaxRequest) /\ H!Fail
          \/ /\ stream[1].k = "line" /\ n \in 0 .. MaxRequest
             /\ head' = [mode |-> ModeOf(stream, e), length |-> n]
             /\ data' = extra /\ pc' = "body" /\ wire' = wire
        <3>1. e \in 1 .. Len(stream)
            BY <1>5, <2>1
        <3>2. H!HttpParse(SubSeq(stream, 1, e), extra)
            <4> HIDE DEF H!Fail
            <4> QED BY <1>10, <1>11, <2>2
        <3> HIDE DEF extra, H!Fail
        <3> QED BY <1>1, <3>1, <3>2, ParseIs
    <2> HIDE DEF n, extra
    <2>5. CASE (stream[1].k # "line" \/ n \notin 0 .. MaxRequest) /\ H!Fail
        <3>1. pc' = "failed" /\ wire' = <<>>
            BY <1>1, <2>5 DEF H!Fail
        <3>2. H!MeansHttp(SubSeq(stream, 1, q)) = <<"fail">>
            BY <1>1, <1>5, <2>1, <2>5, MeansRefused DEF n
        <3>3. H!MeansHttp(H!Received)' = <<"fail">>
            BY <1>6, <3>2 DEF H!Received
        <3> QED BY <1>6, <3>1, <3>3, HttpFailed
    <2>6. CASE /\ stream[1].k = "line" /\ n \in 0 .. MaxRequest
               /\ head' = [mode |-> ModeOf(stream, e), length |-> n]
               /\ data' = extra /\ pc' = "body" /\ wire' = wire
        <3>1. HttpBody(e)'
            BY <1>1, <1>6, <2>1, <2>3, <2>6 DEF HttpBody, HeaderIs, n
        <3> QED BY <1>6, <2>1, <2>6, <3>1 DEF HttpOK
    <2> QED BY <2>4, <2>5, <2>6
<1>12. CASE e = 0 /\ q > MaxHeaders /\ H!Fail
    <2>1. H!MeansHttp(SubSeq(stream, 1, q)) = <<"fail">>
        BY <1>1, <1>5, <1>9, <1>12, MeansNone
    <2>2. H!MeansHttp(H!Received)' = <<"fail">>
        BY <1>6, <2>1 DEF H!Received
    <2>3. pc' = "failed" /\ wire' = <<>>
        BY <1>1, <1>12 DEF H!Fail
    <2> QED BY <1>6, <2>2, <2>3, HttpFailed
<1>13. CASE /\ e = 0 /\ q <= MaxHeaders
            /\ data' = SubSeq(stream, 1, q)
            /\ UNCHANGED <<pc, wire, head>>
    <2>1. \A i \in 2 .. q : ~EndsAt(stream, i)
        BY <1>9, <1>13
    <2> QED BY <1>1, <1>6, <1>13, <2>1 DEF HttpOK
<1> QED BY <1>10, <1>11, <1>12, <1>13

LEMMA HttpBodyKeeps ==
    ASSUME protocol = "http", StreamOK, HttpOK, H!Body
    PROVE  StreamOK' /\ HttpOK'
<1>1. pc = "body" /\ stream \in Seq(Units) /\ pos \in 0 .. Len(stream)
    BY DEF H!Body, StreamOK
<1>2. PICK e \in 2 .. pos : HttpBody(e)
    BY <1>1 DEF HttpOK
<1>3. PICK block \in H!Blocks(H!Missing) :
          H!Recv(block) /\ data' = data \o block /\ UNCHANGED <<pc, wire, head>>
    BY DEF H!Body
<1>4. Len(data) = pos - e /\ data = SubSeq(stream, e + 1, pos)
    <2>1. data = SubSeq(stream, e + 1, pos)
        BY <1>2 DEF HttpBody
    <2>2. Len(SubSeq(stream, e + 1, pos)) = pos - (e + 1) + 1
        BY <1>1, SliceIs
    <2> QED BY <2>1, <2>2, <1>1
<1>5. H!Missing \in Int
    BY <1>1, <1>2, <1>4, LimitAssumption DEF H!Missing, HttpBody, HeaderIs
<1>6. PICK q \in pos + 1 .. Len(stream) :
          block = SubSeq(stream, pos + 1, q) /\ Len(block) = q - pos
    BY <1>3, <1>5, BlockIs
<1>7. pos' = q /\ stream' = stream /\ StreamOK' /\ e \in 2 .. q
    <2>1. pos' = q /\ stream' = stream
        BY <1>1, <1>3, <1>6 DEF H!Recv
    <2> QED BY <2>1, <1>1, <1>6 DEF StreamOK
<1>8. data' = SubSeq(stream, e + 1, q)
    <2>1. e + 1 \in Nat \ {0} /\ pos \in Nat /\ q \in Nat /\ e + 1 <= pos + 1
          /\ pos <= q /\ q <= Len(stream)
        BY <1>1, <1>6
    <2>2. SubSeq(stream, e + 1, pos) \o SubSeq(stream, pos + 1, q) = SubSeq(stream, e + 1, q)
        BY <1>1, <2>1, SliceJoin
    <2> QED BY <1>3, <1>4, <1>6, <2>2
<1>9. HttpBody(e)'
    BY <1>2, <1>3, <1>7, <1>8 DEF HttpBody, HeaderIs
<1> QED BY <1>1, <1>3, <1>7, <1>9 DEF HttpOK

\* What a header that was received makes of it.
LEMMA HeaderMeans ==
    ASSUME stream \in Seq(Units), pos \in 0 .. Len(stream), NEW e \in 2 .. pos, HeaderIs(e)
    PROVE  LET from == e + head.length IN
           /\ head.length \in 0 .. MaxRequest
           /\ head.mode = IF Named(stream, e) \in {"upgrade", "truncated"}
                          THEN Named(stream, e) ELSE "normal"
           /\ H!MeansHttp(H!Received) =
                  IF pos < from THEN <<"more">>
                  ELSE <<"answer", Named(stream, e),
                         SubSeq(stream, from + 1, H!Min({pos, from + MaxRequest}))>>
<1> DEFINE n == LengthOf(stream, e)
<1>1. /\ IsEnd(stream, e) /\ e <= MaxHeaders + 1
      /\ stream[1].k = "line" /\ n \in 0 .. MaxRequest
      /\ head.mode = ModeOf(stream, e) /\ head.length = n
    BY DEF HeaderIs
<1>2. H!MeansHttp(SubSeq(stream, 1, pos)) =
          IF pos < e + n THEN <<"more">>
          ELSE <<"answer", Named(stream, e),
                 SubSeq(stream, e + n + 1, H!Min({pos, e + n + MaxRequest}))>>
    BY <1>1, MeansAnswer
<1> HIDE DEF n
<1>3. H!MeansHttp(H!Received) =
          IF pos < e + head.length THEN <<"more">>
          ELSE <<"answer", Named(stream, e),
                 SubSeq(stream, e + head.length + 1, H!Min({pos, e + head.length + MaxRequest}))>>
    BY <1>1, <1>2 DEF H!Received
<1>4. head.mode = IF Named(stream, e) \in {"upgrade", "truncated"}
                  THEN Named(stream, e) ELSE "normal"
    BY <1>1, ModeNamed
<1> QED BY <1>1, <1>3, <1>4

\* The tunnel that is answered is the one that is meant.
LEMMA TunnelMeans ==
    ASSUME stream \in Seq(Units), pos \in 0 .. Len(stream), NEW e \in 2 .. pos, HttpTunnel(e)
    PROVE  \E echo : /\ H!MeansHttp(H!Received) = <<"answer", "upgrade", echo>>
                      /\ wire = <<[mode |-> "upgrade", echo |-> echo]>>
<1> DEFINE from == e + head.length
           echo == SubSeq(stream, from + 1, H!Min({pos, from + MaxRequest}))
<1>1. /\ HeaderIs(e) /\ head.mode = "upgrade" /\ from <= pos
      /\ wire = <<[mode |-> "upgrade", echo |-> echo]>>
    BY DEF HttpTunnel
<1>2. /\ head.length \in 0 .. MaxRequest
      /\ head.mode = IF Named(stream, e) \in {"upgrade", "truncated"}
                          THEN Named(stream, e) ELSE "normal"
      /\ H!MeansHttp(H!Received) =
             IF pos < from THEN <<"more">> ELSE <<"answer", Named(stream, e), echo>>
    BY <1>1, HeaderMeans
<1>3. from \in Int
    BY <1>2, LimitAssumption
<1> HIDE DEF from, echo
<1>4. Named(stream, e) = "upgrade"
    BY <1>1, <1>2
<1>5. H!MeansHttp(H!Received) = <<"answer", "upgrade", echo>>
    BY <1>1, <1>2, <1>3, <1>4
<1> QED BY <1>1, <1>5

LEMMA HttpRespondKeeps ==
    ASSUME protocol = "http", StreamOK, HttpOK, H!HttpRespond
    PROVE  StreamOK' /\ HttpOK'
<1>1. pc = "body" /\ stream \in Seq(Units) /\ pos \in 0 .. Len(stream)
    BY DEF H!HttpRespond, StreamOK
<1>2. PICK e \in 2 .. pos : HttpBody(e)
    BY <1>1 DEF HttpOK
<1> DEFINE n == head.length
           from == e + n
           m == H!Min({pos, from + MaxRequest})
           content == SubSeq(data, n + 1, Len(data))
           echo == IF head.mode = "upgrade"
                   THEN SubSeq(content, 1, H!Min({Len(content), MaxRequest}))
                   ELSE <<>>
<1>3. /\ HeaderIs(e) /\ data = SubSeq(stream, e + 1, pos)
    BY <1>2 DEF HttpBody
<1>4. /\ n \in 0 .. MaxRequest
      /\ head.mode = IF Named(stream, e) \in {"upgrade", "truncated"}
                          THEN Named(stream, e) ELSE "normal"
      /\ H!MeansHttp(H!Received) =
             IF pos < from THEN <<"more">>
             ELSE <<"answer", Named(stream, e), SubSeq(stream, from + 1, m)>>
    BY <1>1, <1>3, HeaderMeans
<1>5. /\ H!Missing <= 0
      /\ wire' = <<[mode |-> head.mode, echo |-> echo]>>
      /\ pc' = IF head.mode = "upgrade" THEN "tunnel" ELSE "closed"
      /\ head' = head /\ stream' = stream /\ pos' = pos
    BY DEF H!HttpRespond, H!Respond
<1>6. Len(data) = pos - e
    <2>1. Len(SubSeq(stream, e + 1, pos)) = pos - (e + 1) + 1
        BY <1>1, SliceIs
    <2> QED BY <2>1, <1>1, <1>3
<1>7. from <= pos /\ n \in Nat /\ from \in Nat /\ MaxRequest \in Nat
    <2>1. MaxRequest \in Nat
        BY LimitAssumption
    <2>2. n \in Nat
        <3> HIDE DEF n
        <3> QED BY <1>4, <2>1
    <2>3. n - (pos - e) <= 0
        BY <1>5, <1>6 DEF H!Missing
    <2> HIDE DEF n
    <2> QED BY <1>1, <2>1, <2>2, <2>3
<1>8. content = SubSeq(stream, from + 1, pos) /\ Len(content) = pos - from
    <2> DEFINE x == n + 1
               y == pos - e
               z == e + 1
    <2>1. /\ x \in Nat \ {0} /\ y \in 0 .. pos - z + 1 /\ z \in Nat \ {0} /\ z <= pos + 1
          /\ z + x - 1 = from + 1 /\ z + y - 1 = pos
        <3> HIDE DEF n
        <3> QED BY <1>1, <1>7
    <2> HIDE DEF x, y, z
    <2>2. SubSeq(SubSeq(stream, z, pos), x, y) = SubSeq(stream, z + x - 1, z + y - 1)
        BY <1>1, <2>1, SliceOfSlice
    <2>3. content = SubSeq(SubSeq(stream, z, pos), x, y)
        BY <1>3, <1>6 DEF x, y, z
    <2> DEFINE w == from + 1
    <2>4. w \in Nat \ {0} /\ w <= pos + 1 /\ pos - w + 1 = pos - from
        <3> HIDE DEF from
        <3> QED BY <1>1, <1>7
    <2>5. content = SubSeq(stream, w, pos)
        <3> HIDE DEF from, content
        <3> QED BY <2>1, <2>2, <2>3
    <2> HIDE DEF w, content, from
    <2>6. Len(content) = pos - from
        BY <1>1, <2>4, <2>5, SliceIs
    <2> QED BY <2>5, <2>6 DEF w
<1>9. CASE head.mode = "upgrade"
    <2> DEFINE k == H!Min({Len(content), MaxRequest})
    <2>1. k = (IF pos - from <= MaxRequest THEN pos - from ELSE MaxRequest)
          /\ m = (IF pos <= from + MaxRequest THEN pos ELSE from + MaxRequest)
        <3>1. pos - from \in Nat
            <4> HIDE DEF from
            <4> QED BY <1>1, <1>7
        <3> DEFINE a == pos - from
                   b == from + MaxRequest
        <3>2. a \in Nat /\ b \in Nat /\ pos \in Nat
            <4> HIDE DEF from
            <4> QED BY <1>1, <1>7
        <3> HIDE DEF a, b
        <3>3. H!Min({a, MaxRequest}) = (IF a <= MaxRequest THEN a ELSE MaxRequest)
              /\ H!Min({pos, b}) = (IF pos <= b THEN pos ELSE b)
            BY <1>7, <3>2, MinOfTwo
        <3>4. k = H!Min({a, MaxRequest})
            <4> HIDE DEF content
            <4> QED BY <1>8 DEF a
        <3> QED BY <3>3, <3>4 DEF a, b
    <2>2. k \in 0 .. pos - from /\ from + k = m
        <3> HIDE DEF k, m, from
        <3> QED BY <1>1, <1>7, <2>1
    <2>3. echo = SubSeq(stream, from + 1, m)
        <3> DEFINE w == from + 1
        <3>1. /\ w \in Nat \ {0} /\ w <= pos + 1 /\ 1 \in Nat \ {0} /\ k \in 0 .. pos - w + 1
              /\ w + 1 - 1 = w /\ w + k - 1 = m
            <4> HIDE DEF k, m, from
            <4> QED BY <1>1, <1>7, <2>2
        <3> HIDE DEF w, k, m
        <3>2. SubSeq(SubSeq(stream, w, pos), 1, k) = SubSeq(stream, w + 1 - 1, w + k - 1)
            BY <1>1, <3>1, SliceOfSlice
        <3>3. content = SubSeq(stream, w, pos)
            BY <1>8 DEF w
        <3>4. echo = SubSeq(content, 1, k)
            BY <1>9 DEF k
        <3> HIDE DEF echo, content
        <3>5. echo = SubSeq(stream, w, m)
            BY <3>1, <3>2, <3>3, <3>4
        <3> QED BY <3>5 DEF w
    <2>4. pc' = "tunnel" /\ StreamOK'
        BY <1>1, <1>5, <1>9 DEF StreamOK
    <2>5. HttpTunnel(e)'
        <3> HIDE DEF echo
        <3>1. HeaderIs(e)'
            BY <1>3, <1>5 DEF HeaderIs
        <3>2. wire' = <<[mode |-> "upgrade", echo |-> SubSeq(stream, from + 1, m)]>>
            BY <1>5, <1>9, <2>3
        <3> QED BY <1>5, <1>7, <1>9, <3>1, <3>2 DEF HttpTunnel
    <2> HIDE DEF echo, content, k, m, from
    <2> QED BY <1>5, <2>4, <2>5 DEF HttpOK
<1>10. CASE head.mode # "upgrade"
    <2>1. pc' = "closed" /\ wire' = <<[mode |-> head.mode, echo |-> <<>>]>> /\ StreamOK'
        <3>1. echo = <<>>
            BY <1>10
        <3> HIDE DEF echo
        <3> QED BY <1>1, <1>5, <1>10, <3>1 DEF StreamOK
    <2> DEFINE part == SubSeq(stream, from + 1, m)
    <2>2. H!MeansHttp(H!Received)' = <<"answer", Named(stream, e), part>>
        <3>1. H!Received' = H!Received
            BY <1>5 DEF H!Received
        <3>2. H!MeansHttp(H!Received) = <<"answer", Named(stream, e), part>>
            <4>1. ~(pos < from)
                <5> HIDE DEF from
                <5> QED BY <1>1, <1>7
            <4> HIDE DEF from, m
            <4> QED BY <1>4, <4>1, Zenon
        <3> HIDE DEF part
        <3> QED BY <3>1, <3>2
    <2> HIDE DEF part, from, m, echo, content, n
    <2>3. H!IsMeant(H!MeansHttp(H!Received))'
        BY <1>4, <1>10, <2>1, <2>2 DEF H!IsMeant
    <2> QED BY <2>1, <2>3 DEF HttpOK
<1> QED BY <1>9, <1>10

LEMMA TunnelKeeps ==
    ASSUME protocol = "http", StreamOK, HttpOK, H!Tunnel
    PROVE  StreamOK' /\ HttpOK'
<1>1. /\ pc = "tunnel" /\ H!Room > 0 /\ stream \in Seq(Units) /\ pos \in 0 .. Len(stream)
    BY DEF H!Tunnel, StreamOK
<1>2. PICK e \in 2 .. pos : HttpTunnel(e)
    BY <1>1 DEF HttpOK
<1>3. PICK block \in H!Blocks(H!Room) :
          /\ H!Recv(block)
          /\ wire' = <<[wire[1] EXCEPT !.echo = @ \o block]>>
          /\ UNCHANGED <<pc, data, head>>
    BY DEF H!Tunnel
<1> DEFINE from == e + head.length
           m == H!Min({pos, from + MaxRequest})
           echo == SubSeq(stream, from + 1, m)
<1>4. /\ HeaderIs(e) /\ head.mode = "upgrade" /\ from <= pos
      /\ wire = <<[mode |-> "upgrade", echo |-> echo]>>
    BY <1>2 DEF HttpTunnel
<1>5. head.length \in 0 .. MaxRequest
    BY <1>1, <1>4, HeaderMeans
<1>6. from \in Nat /\ MaxRequest \in Nat
    BY <1>1, <1>5, LimitAssumption
<1>7. m = IF pos <= from + MaxRequest THEN pos ELSE from + MaxRequest
    <2> DEFINE b == from + MaxRequest
    <2> HIDE DEF from
    <2>1. b \in Nat /\ pos \in Nat
        BY <1>1, <1>6
    <2> HIDE DEF b
    <2>2. H!Min({pos, b}) = IF pos <= b THEN pos ELSE b
        BY <2>1, MinOfTwo
    <2> QED BY <2>2 DEF b
<1> HIDE DEF from, m
<1>8. m \in from .. pos /\ m <= from + MaxRequest
    BY <1>1, <1>4, <1>6, <1>7
<1>9. Len(echo) = m - from
    <2> DEFINE w == from + 1
    <2>1. w \in Nat \ {0} /\ m \in 0 .. Len(stream) /\ w <= m + 1 /\ m - w + 1 = m - from
        BY <1>1, <1>6, <1>8
    <2> HIDE DEF w
    <2>2. Len(SubSeq(stream, w, m)) = m - from
        BY <1>1, <2>1, SliceIs
    <2> QED BY <2>2 DEF w
<1>10. H!Room = MaxRequest - (m - from)
    <2> HIDE DEF echo
    <2>1. wire[1].echo = echo
        BY <1>4
    <2> QED BY <2>1, <1>9 DEF H!Room
<1>11. m = pos /\ H!Room = MaxRequest - (pos - from) /\ H!Room \in Int
    BY <1>1, <1>6, <1>7, <1>8, <1>10
<1>12. PICK q \in pos + 1 .. Len(stream) :
          q - pos <= H!Room /\ block = SubSeq(stream, pos + 1, q) /\ Len(block) = q - pos
    BY <1>3, <1>11, BlockIs
<1>13. pos' = q /\ stream' = stream /\ StreamOK' /\ e \in 2 .. q
    <2>1. pos' = q /\ stream' = stream
        BY <1>1, <1>3, <1>12 DEF H!Recv
    <2> QED BY <2>1, <1>1, <1>12 DEF StreamOK
<1>14. echo \o block = SubSeq(stream, from + 1, q)
    <2> DEFINE w == from + 1
    <2>1. w \in Nat \ {0} /\ pos \in Nat /\ q \in Nat /\ w <= pos + 1 /\ pos <= q /\ q <= Len(stream)
        BY <1>1, <1>4, <1>6, <1>12
    <2> HIDE DEF w
    <2>2. SubSeq(stream, w, pos) \o SubSeq(stream, pos + 1, q) = SubSeq(stream, w, q)
        BY <1>1, <2>1, SliceJoin
    <2> QED BY <2>2, <1>11, <1>12 DEF w
<1>15. H!Min({q, from + MaxRequest}) = q
    <2> DEFINE b == from + MaxRequest
    <2>1. b \in Nat /\ q \in Nat /\ q <= b
        BY <1>1, <1>6, <1>11, <1>12
    <2> HIDE DEF b
    <2>2. H!Min({q, b}) = q
        BY <2>1, MinOfTwo
    <2> QED BY <2>2 DEF b
<1> HIDE DEF echo
<1>16. wire' = <<[mode |-> "upgrade", echo |-> SubSeq(stream, from + 1, q)]>>
    <2>1. wire[1] = [mode |-> "upgrade", echo |-> echo]
        BY <1>4
    <2> DEFINE x == wire[1]
    <2>3. wire' = <<[x EXCEPT !.echo = @ \o block]>>
        BY <1>3
    <2> HIDE DEF x
    <2>4. [x EXCEPT !.echo = @ \o block] = [mode |-> "upgrade", echo |-> echo \o block]
        <3>1. x = [mode |-> "upgrade", echo |-> echo]
            BY <2>1 DEF x
        <3> DEFINE longer == echo \o block
        <3>2. x.echo \o block = longer
            BY <3>1
        <3> HIDE DEF longer
        <3>3. [x EXCEPT !.echo = longer] = [mode |-> "upgrade", echo |-> longer]
            BY <3>1
        <3> QED BY <3>2, <3>3 DEF longer
    <2>2. wire' = <<[mode |-> "upgrade", echo |-> echo \o block]>>
        BY <2>3, <2>4
    <2> QED BY <2>2, <1>14
<1>17. HttpTunnel(e)'
    <2>1. HeaderIs(e)' /\ head' = head /\ from <= q
        BY <1>1, <1>3, <1>4, <1>6, <1>12, <1>13 DEF HeaderIs
    <2> QED BY <1>4, <1>13, <1>15, <1>16, <2>1 DEF HttpTunnel, from
<1>18. pc' = "tunnel"
    BY <1>1, <1>3
<1> QED BY <1>13, <1>17, <1>18 DEF HttpOK

LEMMA TunnelFullKeeps ==
    ASSUME protocol = "http", StreamOK, HttpOK, H!TunnelFull
    PROVE  StreamOK' /\ HttpOK'
<1>1. /\ pc = "tunnel" /\ pc' = "closed" /\ UNCHANGED <<wire, stream, pos, data, head>>
    BY DEF H!TunnelFull
<1>2. PICK e \in 2 .. pos : HttpTunnel(e)
    BY <1>1 DEF HttpOK
<1>3. StreamOK' /\ stream \in Seq(Units) /\ pos \in 0 .. Len(stream)
    BY <1>1 DEF StreamOK
<1>4. PICK echo : /\ H!MeansHttp(H!Received) = <<"answer", "upgrade", echo>>
                  /\ wire = <<[mode |-> "upgrade", echo |-> echo]>>
    BY <1>2, <1>3, TunnelMeans
<1>5. H!MeansHttp(H!Received)' = <<"answer", "upgrade", echo>>
    BY <1>1, <1>4 DEF H!Received
<1>6. H!IsMeant(H!MeansHttp(H!Received))'
    BY <1>1, <1>4, <1>5 DEF H!IsMeant
<1> QED BY <1>1, <1>3, <1>6 DEF HttpOK

LEMMA HttpPeerEndsKeeps ==
    ASSUME protocol = "http", StreamOK, HttpOK, H!PeerEnds
    PROVE  StreamOK' /\ HttpOK'
<1>1. /\ pc \in {"header", "body", "tunnel"} /\ UNCHANGED <<wire, stream, pos, data, head>>
      /\ pc = "body" => H!Missing > 0
      /\ pc' = IF pc = "tunnel" THEN "closed" ELSE "gone"
    BY DEF H!PeerEnds, HttpOK
<1>2. StreamOK' /\ stream \in Seq(Units) /\ pos \in 0 .. Len(stream)
    BY <1>1 DEF StreamOK
<1>3. H!MeansHttp(H!Received)' = H!MeansHttp(H!Received)
    BY <1>1 DEF H!Received
<1>4. CASE pc = "header"
    <2>1. wire = <<>> /\ pos <= MaxHeaders /\ \A i \in 2 .. pos : ~EndsAt(stream, i)
        BY <1>4 DEF HttpOK
    <2>2. H!MeansHttp(H!Received) = <<"more">>
        <3>1. H!MeansHttp(SubSeq(stream, 1, pos)) =
                  IF pos > MaxHeaders THEN <<"fail">> ELSE <<"more">>
            BY <1>2, <2>1, MeansNone
        <3>2. ~(pos > MaxHeaders)
            BY <1>2, <2>1, LimitAssumption
        <3> QED BY <3>1, <3>2 DEF H!Received
    <2>3. H!IsMeant(H!MeansHttp(H!Received))'
        BY <1>1, <1>3, <1>4, <2>1, <2>2 DEF H!IsMeant
    <2> QED BY <1>1, <1>2, <1>4, <2>3 DEF HttpOK
<1>5. CASE pc = "body"
    <2>1. PICK e \in 2 .. pos : HttpBody(e)
        BY <1>5 DEF HttpOK
    <2>2. pos < e + head.length /\ wire = <<>>
        <3>1. Len(SubSeq(stream, e + 1, pos)) = pos - (e + 1) + 1
            BY <1>2, SliceIs
        <3>2. data = SubSeq(stream, e + 1, pos) /\ wire = <<>> /\ HeaderIs(e)
            BY <2>1 DEF HttpBody
        <3>3. head.length \in Int
            BY <3>2 DEF HeaderIs
        <3>4. head.length - (pos - (e + 1) + 1) > 0
            BY <1>1, <1>5, <3>1, <3>2 DEF H!Missing
        <3> QED BY <1>2, <3>2, <3>3, <3>4
    <2>3. H!MeansHttp(H!Received) = <<"more">>
        <3>1. HeaderIs(e)
            BY <2>1 DEF HttpBody
        <3> QED BY <1>2, <2>2, <3>1, HeaderMeans
    <2>4. H!IsMeant(H!MeansHttp(H!Received))'
        BY <1>1, <1>3, <1>5, <2>2, <2>3 DEF H!IsMeant
    <2> QED BY <1>1, <1>2, <1>5, <2>4 DEF HttpOK
<1>6. CASE pc = "tunnel"
    <2>1. PICK e \in 2 .. pos : HttpTunnel(e)
        BY <1>6 DEF HttpOK
    <2>2. PICK echo : /\ H!MeansHttp(H!Received) = <<"answer", "upgrade", echo>>
                      /\ wire = <<[mode |-> "upgrade", echo |-> echo]>>
        BY <1>2, <2>1, TunnelMeans
    <2>3. H!IsMeant(H!MeansHttp(H!Received))'
        BY <1>1, <1>3, <1>6, <2>2 DEF H!IsMeant
    <2> QED BY <1>1, <1>2, <1>6, <2>3 DEF HttpOK
<1> QED BY <1>1, <1>4, <1>5, <1>6

\* Every step of a handler of HTTP keeps what is said of it.
LEMMA HttpKeeps ==
    ASSUME protocol = "http", StreamOK, HttpOK, H!Next
    PROVE  protocol' = protocol /\ StreamOK' /\ HttpOK'
<1> HIDE DEF StreamOK, HttpOK
<1>1. pc \notin {"block", "comma"}
    BY DEF HttpOK
<1>2. \/ H!HttpHeader \/ H!HttpRespond \/ H!Tunnel \/ H!TunnelFull \/ H!Body \/ H!PeerEnds
    <2>1. ~H!ScgiLength /\ ~H!ScgiRespond
        BY DEF H!ScgiLength, H!ScgiRespond
    <2>2. ~H!ScgiBlock /\ ~H!ScgiComma
        BY <1>1 DEF H!ScgiBlock, H!ScgiComma
    <2> QED BY <2>1, <2>2 DEF H!Next
<1>3. protocol' = protocol
    BY <1>2 DEF H!HttpHeader, H!HttpRespond, H!Tunnel, H!TunnelFull, H!Body, H!PeerEnds, H!Recv
<1>4. StreamOK' /\ HttpOK'
    BY <1>2, HttpHeaderKeeps, HttpBodyKeeps, HttpRespondKeeps, TunnelKeeps, TunnelFullKeeps,
       HttpPeerEndsKeeps
<1> QED BY <1>3, <1>4

LEMMA HttpSays ==
    ASSUME protocol = "http", StreamOK, HttpOK
    PROVE  H!IsMeant(H!MeansHttp(H!Received))
<1>1. stream \in Seq(Units) /\ pos \in 0 .. Len(stream)
    BY DEF StreamOK
<1>2. pc \in {"header", "body", "tunnel", "closed", "failed", "gone"}
    BY DEF HttpOK
<1>3. CASE pc = "header"
    <2>1. wire = <<>> /\ pos <= MaxHeaders /\ \A i \in 2 .. pos : ~EndsAt(stream, i)
        BY <1>3 DEF HttpOK
    <2>2. H!MeansHttp(H!Received) = <<"more">>
        <3>1. H!MeansHttp(SubSeq(stream, 1, pos)) =
                  IF pos > MaxHeaders THEN <<"fail">> ELSE <<"more">>
            BY <1>1, <2>1, MeansNone
        <3>2. ~(pos > MaxHeaders)
            BY <1>1, <2>1, LimitAssumption
        <3> QED BY <3>1, <3>2 DEF H!Received
    <2> QED BY <1>3, <2>1, <2>2 DEF H!IsMeant
<1>4. CASE pc = "body"
    <2>1. PICK e \in 2 .. pos : HttpBody(e)
        BY <1>4 DEF HttpOK
    <2>2. HeaderIs(e) /\ wire = <<>>
        BY <2>1 DEF HttpBody
    <2>3. \/ H!MeansHttp(H!Received) = <<"more">>
          \/ \E mode, echo : H!MeansHttp(H!Received) = <<"answer", mode, echo>>
        BY <1>1, <2>2, HeaderMeans
    <2> QED BY <1>4, <2>2, <2>3 DEF H!IsMeant
<1>5. CASE pc = "tunnel"
    <2>1. PICK e \in 2 .. pos : HttpTunnel(e)
        BY <1>5 DEF HttpOK
    <2>2. PICK echo : /\ H!MeansHttp(H!Received) = <<"answer", "upgrade", echo>>
                      /\ wire = <<[mode |-> "upgrade", echo |-> echo]>>
        BY <1>1, <2>1, TunnelMeans
    <2> QED BY <1>5, <2>2 DEF H!IsMeant
<1>6. CASE pc \in {"closed", "failed", "gone"}
    BY <1>6 DEF HttpOK
<1> QED BY <1>2, <1>3, <1>4, <1>5, <1>6

-----------------------------------------------------------------------------
(* What a part of an SCGI stream means *)

LEMMA MeansDigits ==
    ASSUME NEW s \in Seq(Units), NEW q \in 0 .. Len(s), \A i \in 1 .. q : s[i].k = "digit"
    PROVE  H!MeansScgi(SubSeq(s, 1, q)) = IF q < MaxDigits THEN <<"more">> ELSE <<"fail">>
<1> DEFINE r == SubSeq(s, 1, q)
<1>1. Len(r) = q /\ DOMAIN r = 1 .. q /\ \A i \in 1 .. q : r[i] = s[i]
    <2>1. Len(r) = q - 1 + 1 /\ DOMAIN r = 1 .. q - 1 + 1
          /\ \A i \in 1 .. q - 1 + 1 : r[i] = s[1 + i - 1]
        BY SliceIs
    <2> HIDE DEF r
    <2> QED BY <2>1
<1> HIDE DEF r
<1>2. {i \in DOMAIN r : r[i].k # "digit"} = {}
    BY <1>1
<1>3. H!MeansScgi(r) = IF q < MaxDigits THEN <<"more">> ELSE <<"fail">>
    BY <1>1, <1>2 DEF H!MeansScgi
<1> QED BY <1>3 DEF r

\* The first unit that is no digit is the d-th.
FirstStop(s, d) == s[d].k # "digit" /\ \A i \in 1 .. d - 1 : s[i].k = "digit"

LEMMA StopsOf ==
    ASSUME NEW s \in Seq(Units), NEW q \in 0 .. Len(s), NEW d \in 1 .. q, FirstStop(s, d)
    PROVE  LET r == SubSeq(s, 1, q)
               stops == {i \in DOMAIN r : r[i].k # "digit"}
           IN stops # {} /\ H!Min(stops) = d
<1> DEFINE r == SubSeq(s, 1, q)
           stops == {i \in DOMAIN r : r[i].k # "digit"}
<1>1. Len(r) = q /\ DOMAIN r = 1 .. q /\ \A i \in 1 .. q : r[i] = s[i]
    <2>1. Len(r) = q - 1 + 1 /\ DOMAIN r = 1 .. q - 1 + 1
          /\ \A i \in 1 .. q - 1 + 1 : r[i] = s[1 + i - 1]
        BY SliceIs
    <2> HIDE DEF r
    <2> QED BY <2>1
<1> HIDE DEF r
<1>2. stops \in SUBSET Nat /\ d \in stops
    BY <1>1 DEF FirstStop
<1>3. \A x \in stops : d <= x
    BY <1>1 DEF FirstStop
<1> HIDE DEF stops
<1>4. stops # {} /\ H!Min(stops) = d
    BY <1>2, <1>3, MinOf
<1> QED BY <1>4 DEF stops, r

\* The places of the values of a header, and what MeansScgi makes of them.
Values(block, name) ==
    {i \in DOMAIN block : i % 2 = 0 /\ block[i - 1].k = "name" /\ block[i - 1].v = name}

LengthMeant(block) ==
    IF Values(block, "CONTENT_LENGTH") = {} THEN [k |-> "number", v |-> 0]
    ELSE block[H!Max(Values(block, "CONTENT_LENGTH"))]

ModeMeant(block) ==
    LET modes == IF Values(block, "MODE") # {} THEN Values(block, "MODE")
                 ELSE Values(block, "REQUEST_URI")
    IN IF modes = {} THEN "normal"
       ELSE IF block[H!Max(modes)].k = "word" THEN block[H!Max(modes)].v ELSE "normal"

LEMMA FieldIs ==
    ASSUME NEW block \in Seq(Units), Len(block) % 2 = 0, NEW name
    PROVE  H!Field(block, name) =
               IF Values(block, name) = {} THEN <<>> ELSE <<block[H!Max(Values(block, name))]>>
<1> DEFINE at == {i \in DOMAIN block : i % 2 = 1 /\ block[i].k = "name" /\ block[i].v = name}
           val == Values(block, name)
           n == Len(block)
<1>1. n \in Nat /\ DOMAIN block = 1 .. n /\ n % 2 = 0
    OBVIOUS
<1>2. at \in SUBSET (1 .. n) /\ val \in SUBSET (1 .. n)
    BY <1>1 DEF Values
<1> HIDE DEF n
<1>3. ASSUME NEW i \in at PROVE i + 1 \in val
    <2>1. i \in 1 .. n /\ i % 2 = 1
        BY <1>1
    <2> DEFINE j == i + 1
    <2>2. j \in 1 .. n /\ j % 2 = 0 /\ j - 1 = i
        BY <1>1, <2>1
    <2> HIDE DEF j
    <2>3. block[j - 1].k = "name" /\ block[j - 1].v = name
        BY <2>2
    <2>4. j \in val
        BY <1>1, <2>2, <2>3 DEF Values
    <2> QED BY <2>4 DEF j
<1>4. ASSUME NEW i \in val PROVE i - 1 \in at
    <2>1. i \in 1 .. n /\ i % 2 = 0 /\ block[i - 1].k = "name" /\ block[i - 1].v = name
        BY <1>1 DEF Values
    <2>2. i - 1 \in 1 .. n /\ (i - 1) % 2 = 1
        BY <1>1, <2>1
    <2> QED BY <1>1, <2>1, <2>2
<1>5. H!Field(block, name) = IF at = {} THEN <<>> ELSE <<block[H!Max(at) + 1]>>
    BY DEF H!Field
<1> HIDE DEF at, val
<1>6. CASE at = {}
    <2>1. val = {}
        BY <1>4, <1>6
    <2> QED BY <1>5, <1>6, <2>1 DEF val
<1>7. CASE at # {}
    <2>1. H!Max(at) \in at /\ \A x \in at : x <= H!Max(at)
        BY <1>1, <1>2, <1>7, MaxIs
    <2>2. val # {}
        BY <1>3, <1>7
    <2>3. H!Max(val) \in val /\ \A x \in val : x <= H!Max(val)
        BY <1>1, <1>2, <2>2, MaxIs
    <2>4. H!Max(at) + 1 \in val /\ H!Max(val) - 1 \in at
        BY <1>3, <1>4, <2>1, <2>3
    <2>5. H!Max(at) + 1 = H!Max(val)
        <3> DEFINE x == H!Max(at)
                   y == H!Max(val)
        <3>1. x \in 1 .. n /\ y \in 1 .. n /\ x + 1 <= y /\ y - 1 <= x
            BY <1>2, <2>1, <2>3, <2>4
        <3> HIDE DEF x, y
        <3>2. x + 1 = y
            BY <3>1
        <3> QED BY <3>2 DEF x, y
    <2> QED BY <1>5, <1>7, <2>2, <2>5 DEF val
<1> QED BY <1>6, <1>7

LEMMA LengthMeantIs ==
    ASSUME NEW block \in Seq(Units), Len(block) % 2 = 0
    PROVE  LengthMeant(block) = LengthIn(block)
<1> DEFINE val == Values(block, "CONTENT_LENGTH")
           u == block[H!Max(val)]
           length == H!Field(block, "CONTENT_LENGTH")
<1>1. length = IF val = {} THEN <<>> ELSE <<u>>
    BY FieldIs
<1>2. LengthIn(block) = IF length = <<>> THEN [k |-> "number", v |-> 0] ELSE length[1]
    BY DEF LengthIn
<1>3. LengthMeant(block) = IF val = {} THEN [k |-> "number", v |-> 0] ELSE u
    BY DEF LengthMeant
<1> HIDE DEF val, u, length
<1> QED BY <1>1, <1>2, <1>3

LEMMA ModeMeantIs ==
    ASSUME NEW block \in Seq(Units), Len(block) % 2 = 0
    PROVE  ModeIn(block) =
               IF ModeMeant(block) \in {"upgrade", "truncated"} THEN ModeMeant(block)
               ELSE "normal"
<1> DEFINE modes == Values(block, "MODE")
           uris == Values(block, "REQUEST_URI")
           m == block[H!Max(modes)]
           u == block[H!Max(uris)]
           mode == H!Field(block, "MODE")
           uri == H!Field(block, "REQUEST_URI")
<1>1. mode = IF modes = {} THEN <<>> ELSE <<m>>
    BY FieldIs
<1>2. uri = IF uris = {} THEN <<>> ELSE <<u>>
    BY FieldIs
<1>3. ModeIn(block) = H!SelectMode(IF uri = <<>> THEN "normal" ELSE H!Word(uri[1]),
                                   IF mode = <<>> THEN <<>> ELSE <<H!Word(mode[1])>>)
    BY DEF ModeIn
<1>4. ModeMeant(block) =
          IF modes # {} THEN IF m.k = "word" THEN m.v ELSE "normal"
          ELSE IF uris = {} THEN "normal" ELSE IF u.k = "word" THEN u.v ELSE "normal"
    BY DEF ModeMeant
<1> HIDE DEF modes, uris, m, u, mode, uri
<1>5. CASE modes # {}
    <2>1. mode = <<m>> /\ mode # <<>> /\ mode[1] = m
        BY <1>1, <1>5
    <2> DEFINE w == H!Word(m)
               x == IF uri = <<>> THEN "normal" ELSE H!Word(uri[1])
    <2>2. ModeIn(block) = H!SelectMode(x, <<w>>)
        BY <1>3, <2>1
    <2>3. w = IF m.k = "word" THEN m.v ELSE "unknown"
        BY DEF H!Word
    <2> HIDE DEF x, w
    <2>4. ModeIn(block) = IF w \in {"upgrade", "truncated"} THEN w ELSE "normal"
        BY <2>2 DEF H!SelectMode
    <2> QED BY <1>4, <1>5, <2>3, <2>4
<1>6. CASE modes = {}
    <2> DEFINE x == IF uris = {} THEN "normal" ELSE H!Word(u)
    <2>1. ModeIn(block) = H!SelectMode(x, <<>>)
        BY <1>1, <1>2, <1>3, <1>6
    <2>2. ModeIn(block) = IF x \in {"upgrade", "truncated"} THEN x ELSE "normal"
        <3> HIDE DEF x
        <3> QED BY <2>1 DEF H!SelectMode
    <2> QED BY <1>4, <1>6, <2>2 DEF H!Word
<1> QED BY <1>5, <1>6

\* The rest of MeansScgi, for its stop, its n and its block.
MeaningAt(r, stop, n, block) ==
    IF \/ stop = 1 \/ stop > MaxDigits \/ r[stop].k # "colon"
       \/ n \notin 1 .. MaxHeaders
       \/ (Len(block) = n /\ n % 2 = 1)
    THEN <<"fail">>
    ELSE IF Len(r) <= stop + n THEN <<"more">>
    ELSE IF r[stop + n + 1].k # "comma" \/ LengthMeant(block).k # "number" THEN <<"fail">>
    ELSE IF LengthMeant(block).v \notin 0 .. MaxRequest THEN <<"fail">>
    ELSE IF Len(r) < stop + n + 1 + LengthMeant(block).v THEN <<"more">>
    ELSE <<"answer", ModeMeant(block), H!Part(r, stop + n + 1, LengthMeant(block).v)>>

LEMMA MeansScgiIs ==
    \A r : H!MeansScgi(r) =
        LET stops == {i \in DOMAIN r : r[i].k # "digit"}
            stop == H!Min(stops)
            n == H!Number(SubSeq(r, 1, stop - 1))
        IN IF stops = {} THEN IF Len(r) < MaxDigits THEN <<"more">> ELSE <<"fail">>
           ELSE MeaningAt(r, stop, n, H!Part(r, stop, n))
BY DEF H!MeansScgi, MeaningAt, LengthMeant, ModeMeant, Values

\* If there is a stop, it is at d.
LEMMA MeansStop ==
    ASSUME NEW s \in Seq(Units), NEW q \in 0 .. Len(s), NEW d \in 1 .. q, FirstStop(s, d)
    PROVE  LET r == SubSeq(s, 1, q) IN
           H!MeansScgi(r) =
               MeaningAt(r, d, Announced(s, d), H!Part(r, d, Announced(s, d)))
<1> DEFINE r == SubSeq(s, 1, q)
           stops == {i \in DOMAIN r : r[i].k # "digit"}
           stop == H!Min(stops)
           n == H!Number(SubSeq(r, 1, stop - 1))
<1>1. stops # {} /\ stop = d
    BY StopsOf
<1>2. n = Announced(s, d)
    <2>1. SubSeq(r, 1, d - 1) = SubSeq(s, 1 + 1 - 1, 1 + (d - 1) - 1)
        BY SliceOfSlice
    <2>2. 1 + 1 - 1 = 1 /\ 1 + (d - 1) - 1 = d - 1
        OBVIOUS
    <2> HIDE DEF r, stop
    <2> QED BY <1>1, <2>1, <2>2 DEF Announced
<1>3. H!MeansScgi(r) =
          IF stops = {} THEN IF Len(r) < MaxDigits THEN <<"more">> ELSE <<"fail">>
          ELSE MeaningAt(r, stop, n, H!Part(r, stop, n))
    <2> HIDE DEF r
    <2> QED BY MeansScgiIs
<1> HIDE DEF stops, stop, n, r
<1>4. H!MeansScgi(r) = MeaningAt(r, d, Announced(s, d), H!Part(r, d, Announced(s, d)))
    BY <1>1, <1>2, <1>3
<1> QED BY <1>4 DEF r

LEMMA ScgiRefused ==
    ASSUME NEW s \in Seq(Units), NEW q \in 0 .. Len(s), NEW d \in 1 .. q, FirstStop(s, d),
           \/ d = 1 \/ d > MaxDigits \/ s[d].k # "colon"
           \/ Announced(s, d) \notin 1 .. MaxHeaders
    PROVE  H!MeansScgi(SubSeq(s, 1, q)) = <<"fail">>
<1> DEFINE r == SubSeq(s, 1, q)
           n == Announced(s, d)
<1>1. H!MeansScgi(r) = MeaningAt(r, d, n, H!Part(r, d, n))
    BY MeansStop
<1>2. r[d] = s[d]
    <2>1. \A i \in 1 .. q - 1 + 1 : r[i] = s[1 + i - 1]
        BY SliceIs
    <2> HIDE DEF r
    <2> QED BY <2>1
<1> HIDE DEF r
<1>3. H!MeansScgi(r) = <<"fail">>
    BY <1>1, <1>2 DEF MeaningAt
<1> QED BY <1>3 DEF r

\* A netstring whose length is valid ends at d.
LEMMA ScgiMeans ==
    ASSUME NEW s \in Seq(Units), NEW q \in 0 .. Len(s), NEW d \in 2 .. q, IsStop(s, d),
           Announced(s, d) \in 1 .. MaxHeaders
    PROVE  LET n == Announced(s, d)
               block == BlockOf(s, d)
               end == d + n + 1
               length == LengthIn(block)
           IN H!MeansScgi(SubSeq(s, 1, q)) =
                  IF q >= d + n /\ n % 2 = 1 THEN <<"fail">>
                  ELSE IF q <= d + n THEN <<"more">>
                  ELSE IF s[end].k # "comma" \/ length.k # "number"
                          \/ length.v \notin 0 .. MaxRequest
                  THEN <<"fail">>
                  ELSE IF q < end + length.v THEN <<"more">>
                  ELSE <<"answer", ModeMeant(block), SubSeq(s, end + 1, end + length.v)>>
<1> DEFINE r == SubSeq(s, 1, q)
           n == Announced(s, d)
           end == d + n + 1
           part == H!Part(r, d, n)
           block == BlockOf(s, d)
           length == LengthIn(block)
           means == H!MeansScgi(r)
<1>1. means = MeaningAt(r, d, n, part)
    <2>1. FirstStop(s, d) /\ d \in 1 .. q
        BY DEF IsStop, FirstStop
    <2> QED BY <2>1, MeansStop
<1>2. Len(r) = q /\ \A i \in 1 .. q : r[i] = s[i]
    <2>1. Len(r) = q - 1 + 1 /\ \A i \in 1 .. q - 1 + 1 : r[i] = s[1 + i - 1]
        BY SliceIs
    <2> HIDE DEF r
    <2> QED BY <2>1
<1>3. n \in 1 .. MaxHeaders /\ n \in Nat \ {0} /\ MaxRequest \in Nat
      /\ q \in Nat /\ d \in Nat /\ q >= d /\ q <= Len(s)
    BY LimitAssumption
<1>4. d # 1 /\ ~(d > MaxDigits) /\ r[d].k = "colon"
    <2>1. d <= MaxDigits /\ s[d].k = "colon" /\ MaxDigits \in Nat
        BY LimitAssumption DEF IsStop
    <2> QED BY <1>2, <2>1
<1> HIDE DEF n, r, means
<1>5. part = SubSeq(s, d + 1, IF q <= d + n THEN q ELSE d + n)
    <2> DEFINE b == d + n
    <2>1. b \in Nat /\ d \in 0 .. q
        BY <1>3
    <2>2. part = SubSeq(s, d + 1, H!Min({q, b}))
        <3> HIDE DEF part
        <3>1. H!Part(SubSeq(s, 1, q), d, n) = SubSeq(s, d + 1, H!Min({q, d + n}))
            <4> HIDE DEF b
            <4>1. n \in Nat
                BY <1>3
            <4> QED BY <2>1, <4>1, PartIs
        <3> QED BY <3>1 DEF part, r
    <2> HIDE DEF b, part
    <2>3. H!Min({q, b}) = IF q <= b THEN q ELSE b
        BY <1>3, <2>1, MinOfTwo
    <2> QED BY <2>2, <2>3 DEF b
<1> HIDE DEF part
<1>6. Len(part) = (IF q <= d + n THEN q ELSE d + n) - d
    <2> DEFINE m == IF q <= d + n THEN q ELSE d + n
    <2>1. d + 1 \in Nat \ {0} /\ m \in 0 .. Len(s) /\ d + 1 <= m + 1 /\ m - (d + 1) + 1 = m - d
        BY <1>3
    <2> HIDE DEF m
    <2>2. Len(SubSeq(s, d + 1, m)) = m - (d + 1) + 1
        BY <2>1, SliceIs
    <2> QED BY <2>1, <2>2, <1>5 DEF m
<1>7. CASE q >= d + n /\ n % 2 = 1
    <2>1. Len(part) = n
        BY <1>3, <1>6, <1>7
    <2>2. means = <<"fail">>
        BY <1>1, <1>7, <2>1 DEF MeaningAt
    <2> QED BY <1>7, <2>2 DEF means, r, n
<1>8. CASE q <= d + n /\ ~(q >= d + n /\ n % 2 = 1)
    <2>1. ~(Len(part) = n /\ n % 2 = 1)
        BY <1>3, <1>6, <1>8
    <2>2. means = <<"more">>
        BY <1>1, <1>2, <1>3, <1>4, <1>8, <2>1 DEF MeaningAt
    <2> QED BY <1>8, <2>2 DEF means, r, n
<1>9. CASE ~(q <= d + n) /\ n % 2 # 1
    <2>1. part = block
        BY <1>5, <1>9 DEF BlockOf, n
    <2>2. block \in Seq(Units) /\ Len(block) = n /\ n % 2 = 0
        <3> DEFINE b == d + n
        <3>1. d + 1 \in Nat \ {0} /\ b \in 0 .. Len(s) /\ d + 1 <= b + 1 /\ b - (d + 1) + 1 = n
            BY <1>3, <1>9
        <3>2. n % 2 = 0
            BY <1>3, <1>9
        <3>3. block = SubSeq(s, d + 1, b)
            BY DEF BlockOf, n
        <3> HIDE DEF b, block
        <3> QED BY <3>1, <3>2, <3>3, SliceIs
    <2> HIDE DEF block
    <2>3. LengthMeant(block) = length
        BY <2>2, LengthMeantIs
    <2> HIDE DEF length
    <2>4. end \in 1 .. q /\ r[end] = s[end]
        BY <1>2, <1>3, <1>9
    <2>5. means = IF r[end].k # "comma" \/ length.k # "number" THEN <<"fail">>
                  ELSE IF length.v \notin 0 .. MaxRequest THEN <<"fail">>
                  ELSE IF q < end + length.v THEN <<"more">>
                  ELSE <<"answer", ModeMeant(block), H!Part(r, end, length.v)>>
        BY <1>1, <1>2, <1>3, <1>4, <1>9, <2>1, <2>2, <2>3 DEF MeaningAt
    <2> DEFINE v == length.v
    <2>6. ASSUME v \in 0 .. MaxRequest, ~(q < end + v)
          PROVE  H!Part(r, end, v) = SubSeq(s, end + 1, end + v)
        <3> DEFINE b == end + v
        <3> HIDE DEF v, end
        <3>1. end \in 0 .. q /\ v \in Nat /\ b \in Nat /\ b <= q
            BY <1>3, <2>4, <2>6
        <3>2. H!Part(r, end, v) = SubSeq(s, end + 1, H!Min({q, b}))
            <4>1. H!Part(SubSeq(s, 1, q), end, v) = SubSeq(s, end + 1, H!Min({q, end + v}))
                <5> HIDE DEF b
                <5> QED BY <3>1, PartIs
            <4> QED BY <4>1 DEF r
        <3> HIDE DEF b
        <3>3. H!Min({q, b}) = b
            <4>1. H!Min({q, b}) = IF q <= b THEN q ELSE b
                BY <1>3, <3>1, MinOfTwo
            <4> QED BY <4>1, <1>3, <3>1
        <3> QED BY <3>2, <3>3 DEF b
    <2> HIDE DEF v, end
    <2>7. means = IF s[end].k # "comma" \/ length.k # "number" \/ v \notin 0 .. MaxRequest
                  THEN <<"fail">>
                  ELSE IF q < end + v THEN <<"more">>
                  ELSE <<"answer", ModeMeant(block), SubSeq(s, end + 1, end + v)>>
        BY <2>4, <2>5, <2>6 DEF v
    <2> QED BY <1>9, <2>7 DEF means, r, n, end, block, length, v
<1> QED BY <1>3, <1>7, <1>8, <1>9

-----------------------------------------------------------------------------
(* The steps of handle_scgi *)

LEMMA ScgiFailed ==
    ASSUME pc' = "failed", wire' = <<>>, H!MeansScgi(H!Received)' = <<"fail">>
    PROVE  ScgiOK'
<1>1. H!IsMeant(H!MeansScgi(H!Received))'
    BY DEF H!IsMeant
<1> QED BY <1>1 DEF ScgiOK

LEMMA ScgiLengthKeeps ==
    ASSUME protocol = "scgi", StreamOK, ScgiOK, H!ScgiLength
    PROVE  StreamOK' /\ ScgiOK'
<1>1. /\ pc = "header" /\ wire = <<>> /\ data = SubSeq(stream, 1, pos)
      /\ head = [mode |-> "normal", length |-> 0]
      /\ pos < MaxDigits /\ stream \in Seq(Units) /\ pos \in 0 .. Len(stream)
      /\ \A i \in 1 .. pos : stream[i].k = "digit"
      /\ MaxDigits \in Nat /\ MaxHeaders \in Nat
    BY LimitAssumption DEF H!ScgiLength, ScgiOK, StreamOK
<1>2. PICK block \in H!Blocks(1) :
          LET u == block[1] IN
          /\ H!Recv(block)
          /\ \/ /\ u.k = "digit" /\ Len(data) + 1 < MaxDigits
                /\ data' = Append(data, u)
                /\ UNCHANGED <<pc, wire, head>>
             \/ /\ u.k = "colon" /\ H!LengthFits(data)
                /\ head' = [head EXCEPT !.length = H!Number(data)]
                /\ pc' = "block" /\ data' = <<>>
                /\ UNCHANGED wire
             \/ u.k = "digit" /\ Len(data) + 1 >= MaxDigits /\ H!Fail
             \/ u.k = "colon" /\ ~H!LengthFits(data) /\ H!Fail
             \/ u.k \notin {"digit", "colon"} /\ H!Fail
    <2> HIDE DEF H!Recv, H!LengthFits, H!Fail, H!Number
    <2> QED BY DEF H!ScgiLength
<1>3. Len(data) = pos
    <2>1. Len(SubSeq(stream, 1, pos)) = pos - 1 + 1
        BY <1>1, SliceIs
    <2> QED BY <1>1, <2>1
<1>4. PICK q \in pos + 1 .. Len(stream) :
          /\ q - pos <= 1
          /\ block = SubSeq(stream, pos + 1, q) /\ Len(block) = q - pos
    BY BlockIs
<1>5. q = pos + 1 /\ q \in 1 .. Len(stream) /\ q - 1 = pos
    BY <1>1, <1>4
<1>6. block[1] = stream[q]
    <2>1. \A i \in 1 .. q - q + 1 : SubSeq(stream, q, q)[i] = stream[q + i - 1]
        BY <1>1, <1>5, SliceIs
    <2>2. SubSeq(stream, q, q)[1] = stream[q]
        <3>1. q - q + 1 = 1 /\ q + 1 - 1 = q /\ 1 \in 1 .. 1
            BY <1>5
        <3>2. SubSeq(stream, q, q)[1] = stream[q + 1 - 1]
            BY <2>1, <3>1
        <3> QED BY <3>1, <3>2
    <2> QED BY <1>4, <1>5, <2>2
<1>7. pos' = q /\ stream' = stream /\ StreamOK'
    <2>1. pos' = q /\ stream' = stream
        BY <1>1, <1>2, <1>4 DEF H!Recv
    <2> QED BY <2>1, <1>1, <1>5 DEF StreamOK
<1>8. Announced(stream, q) = H!Number(data)
    BY <1>1, <1>5 DEF Announced
<1>9. stream[q].k # "digit" => FirstStop(stream, q)
    BY <1>1, <1>5 DEF FirstStop
<1> DEFINE u == stream[q]
<1>10. CASE /\ u.k = "digit" /\ Len(data) + 1 < MaxDigits
            /\ data' = Append(data, u)
            /\ UNCHANGED <<pc, wire, head>>
    <2>1. data' = SubSeq(stream, 1, q)
        <3>1. SubSeq(stream, 1, q) = SubSeq(stream, 1, q - 1) \o <<stream[q]>>
            <4>1. 1 \in 1 .. Len(stream) /\ q \in 1 .. Len(stream)
                BY <1>1, <1>5
            <4> QED BY <1>1, <4>1, SubSeqRecursiveSecond
        <3>2. data \in Seq(Units) /\ u \in Units
            <4>1. SubSeq(stream, 1, pos) \in Seq(Units)
                BY <1>1, SliceIs
            <4> QED BY <1>1, <1>5, <4>1
        <3>3. Append(data, u) = data \o <<u>>
            BY <3>2, AppendIsConcat
        <3> QED BY <1>1, <1>5, <1>10, <3>1, <3>3
    <2>2. \A i \in 1 .. q : stream[i].k = "digit"
        BY <1>1, <1>5, <1>10
    <2> QED BY <1>1, <1>3, <1>5, <1>7, <1>10, <2>1, <2>2 DEF ScgiOK
<1>11. CASE /\ u.k = "colon" /\ H!LengthFits(data)
            /\ head' = [head EXCEPT !.length = H!Number(data)]
            /\ pc' = "block" /\ data' = <<>>
            /\ UNCHANGED wire
    <2>1. data # <<>> /\ Announced(stream, q) \in 1 .. MaxHeaders
        BY <1>8, <1>11 DEF H!LengthFits
    <2>2. pos # 0
        <3> SUFFICES ASSUME pos = 0 PROVE FALSE
            OBVIOUS
        <3>1. SubSeq(stream, 1, 0) = <<>>
            BY SubSeqEmpty
        <3> QED BY <1>1, <2>1, <3>1
    <2>3. q \in 2 .. q /\ IsStop(stream, q)
        BY <1>1, <1>5, <1>11, <2>2 DEF IsStop
    <2>4. head'.length = Announced(stream, q)
        BY <1>1, <1>8, <1>11
    <2>5. data' = SubSeq(stream, q + 1, q)
        <3>1. SubSeq(stream, q + 1, q) = <<>>
            BY <1>5, SubSeqEmpty
        <3> QED BY <1>11, <3>1
    <2>6. q < q + Announced(stream, q)
        BY <1>5, <2>1
    <2>7. ScgiHeaders(q)'
        BY <1>1, <1>7, <1>11, <2>1, <2>3, <2>4, <2>5, <2>6 DEF ScgiHeaders, NetstringIs
    <2> QED BY <1>7, <1>11, <2>3, <2>7 DEF ScgiOK
<1>12. CASE u.k = "digit" /\ Len(data) + 1 >= MaxDigits /\ H!Fail
    <2>1. \A i \in 1 .. q : stream[i].k = "digit"
        BY <1>1, <1>5, <1>12
    <2>2. ~(q < MaxDigits)
        BY <1>1, <1>3, <1>5, <1>12
    <2>3. H!MeansScgi(SubSeq(stream, 1, q)) = <<"fail">>
        BY <1>1, <1>5, <2>1, <2>2, MeansDigits
    <2>4. H!MeansScgi(H!Received)' = <<"fail">>
        BY <1>7, <2>3 DEF H!Received
    <2>5. pc' = "failed" /\ wire' = <<>>
        BY <1>1, <1>12 DEF H!Fail
    <2> QED BY <1>7, <2>4, <2>5, ScgiFailed
<1>13. CASE \/ u.k = "colon" /\ ~H!LengthFits(data) /\ H!Fail
            \/ u.k \notin {"digit", "colon"} /\ H!Fail
    <2>1. FirstStop(stream, q)
        BY <1>9, <1>13
    <2>2. q = 1 \/ stream[q].k # "colon" \/ Announced(stream, q) \notin 1 .. MaxHeaders
        <3>1. data = <<>> => q = 1
            <4>1. Len(<<>>) = 0
                OBVIOUS
            <4> QED BY <1>3, <1>5, <4>1
        <3> QED BY <1>8, <1>13, <3>1 DEF H!LengthFits
    <2>3. H!MeansScgi(SubSeq(stream, 1, q)) = <<"fail">>
        BY <1>1, <1>5, <2>1, <2>2, ScgiRefused
    <2>4. H!MeansScgi(H!Received)' = <<"fail">>
        BY <1>7, <2>3 DEF H!Received
    <2>5. pc' = "failed" /\ wire' = <<>>
        BY <1>1, <1>13 DEF H!Fail
    <2> QED BY <1>7, <2>4, <2>5, ScgiFailed
<1> HIDE DEF H!Fail, H!LengthFits, H!Number
<1> QED BY <1>2, <1>6, <1>10, <1>11, <1>12, <1>13

LEMMA ScgiBlockKeeps ==
    ASSUME protocol = "scgi", StreamOK, ScgiOK, H!ScgiBlock
    PROVE  StreamOK' /\ ScgiOK'
<1>1. pc = "block" /\ stream \in Seq(Units) /\ pos \in 0 .. Len(stream)
    BY DEF H!ScgiBlock, StreamOK
<1>2. PICK d \in 2 .. pos : ScgiHeaders(d)
    BY <1>1 DEF ScgiOK
<1>3. PICK block \in H!Blocks(H!Missing) :
          LET all == data \o block IN
          /\ H!Recv(block)
          /\ \/ /\ Len(all) = head.length /\ Len(all) % 2 = 1
                /\ H!Fail
             \/ /\ Len(all) < head.length \/ Len(all) % 2 = 0
                /\ data' = all
                /\ pc' = IF Len(all) = head.length THEN "comma" ELSE "block"
                /\ UNCHANGED <<wire, head>>
    <2> HIDE DEF H!Recv, H!Fail, H!Missing
    <2> QED BY DEF H!ScgiBlock
<1> DEFINE n == Announced(stream, d)
<1>4. /\ NetstringIs(d) /\ wire = <<>> /\ IsStop(stream, d) /\ n \in 1 .. MaxHeaders
      /\ head.length = n /\ data = SubSeq(stream, d + 1, pos)
      /\ pos < d + n
    BY <1>1, <1>2 DEF ScgiHeaders, NetstringIs
<1>5. n \in Nat
    <2>1. n \in 1 .. MaxHeaders /\ MaxHeaders \in Nat
        BY <1>4, LimitAssumption
    <2> HIDE DEF n
    <2> QED BY <2>1
<1> HIDE DEF n
<1>6. H!Missing = n - (pos - d) /\ H!Missing \in Int
    <2>1. Len(SubSeq(stream, d + 1, pos)) = pos - (d + 1) + 1
        BY <1>1, SliceIs
    <2> QED BY <1>1, <1>4, <1>5, <2>1 DEF H!Missing
<1>7. PICK q \in pos + 1 .. Len(stream) :
          /\ q - pos <= H!Missing
          /\ block = SubSeq(stream, pos + 1, q) /\ Len(block) = q - pos
    BY <1>6, BlockIs
<1>8. q <= d + n /\ d \in 2 .. q /\ q \in 0 .. Len(stream)
    BY <1>1, <1>5, <1>6, <1>7
<1>9. pos' = q /\ stream' = stream /\ StreamOK'
    <2>1. pos' = q /\ stream' = stream
        BY <1>1, <1>3, <1>7 DEF H!Recv
    <2> QED BY <2>1, <1>1, <1>8 DEF StreamOK
<1>10. data \o block = SubSeq(stream, d + 1, q)
    <2>1. d + 1 \in Nat \ {0} /\ pos \in Nat /\ q \in Nat /\ d + 1 <= pos + 1
          /\ pos <= q /\ q <= Len(stream)
        BY <1>1, <1>7, <1>8
    <2>2. SubSeq(stream, d + 1, pos) \o SubSeq(stream, pos + 1, q) = SubSeq(stream, d + 1, q)
        BY <1>1, <2>1, SliceJoin
    <2> QED BY <1>4, <1>7, <2>2
<1>11. Len(data \o block) = q - d
    <2>1. Len(SubSeq(stream, d + 1, q)) = q - (d + 1) + 1
        BY <1>1, <1>8, SliceIs
    <2> QED BY <1>8, <1>10, <2>1
<1>12. CASE q - d = n /\ n % 2 = 1 /\ H!Fail
    <2>1. q >= d + n
        BY <1>5, <1>8, <1>12
    <2>2. H!MeansScgi(SubSeq(stream, 1, q)) = <<"fail">>
        BY <1>1, <1>4, <1>8, <1>12, <2>1, ScgiMeans DEF n
    <2>3. H!MeansScgi(H!Received)' = <<"fail">>
        BY <1>9, <2>2 DEF H!Received
    <2>4. pc' = "failed" /\ wire' = <<>>
        BY <1>4, <1>12 DEF H!Fail
    <2> QED BY <1>9, <2>3, <2>4, ScgiFailed
<1>13. CASE /\ q - d < n \/ (q - d) % 2 = 0
            /\ data' = SubSeq(stream, d + 1, q)
            /\ pc' = IF q - d = n THEN "comma" ELSE "block"
            /\ UNCHANGED <<wire, head>>
    <2>1. pc' = "block" => q < d + n
        BY <1>5, <1>8, <1>13
    <2>2. pc' = "comma" => q = d + n /\ n % 2 = 0
        BY <1>5, <1>8, <1>13
    <2>3. ScgiHeaders(d)'
        BY <1>4, <1>9, <1>13, <2>1, <2>2 DEF ScgiHeaders, NetstringIs, n
    <2> QED BY <1>8, <1>9, <1>13, <2>3 DEF ScgiOK
<1> HIDE DEF H!Fail
<1> QED BY <1>3, <1>4, <1>10, <1>11, <1>12, <1>13

LEMMA LengthInIs ==
    ASSUME NEW block \in Seq(Units), Len(block) % 2 = 0, LengthIn(block).k = "number"
    PROVE  LengthIn(block).v \in Int
<1> DEFINE val == Values(block, "CONTENT_LENGTH")
           u == LengthMeant(block)
<1>1. u = LengthIn(block)
    BY LengthMeantIs
<1>2. u = IF val = {} THEN [k |-> "number", v |-> 0] ELSE block[H!Max(val)]
    BY DEF LengthMeant
<1>3. CASE val = {}
    <2>1. u = [k |-> "number", v |-> 0]
        BY <1>2, <1>3
    <2> HIDE DEF u
    <2> QED BY <1>1, <2>1
<1>4. CASE val # {}
    <2>1. val \in SUBSET (1 .. Len(block)) /\ Len(block) \in Nat
        BY DEF Values
    <2> HIDE DEF val, u
    <2>2. H!Max(val) \in 1 .. Len(block)
        BY <1>4, <2>1, MaxIs
    <2>3. u \in Units
        BY <1>2, <1>4, <2>2
    <2> QED BY <1>1, <2>3, UnitAssumption
<1> QED BY <1>3, <1>4

LEMMA ScgiCommaKeeps ==
    ASSUME protocol = "scgi", StreamOK, ScgiOK, H!ScgiComma
    PROVE  StreamOK' /\ ScgiOK'
<1>1. pc = "comma" /\ stream \in Seq(Units) /\ pos \in 0 .. Len(stream)
    BY DEF H!ScgiComma, StreamOK
<1>2. PICK d \in 2 .. pos : ScgiHeaders(d)
    BY <1>1 DEF ScgiOK
<1> DEFINE n == Announced(stream, d)
<1>3. /\ NetstringIs(d) /\ wire = <<>> /\ IsStop(stream, d) /\ n \in 1 .. MaxHeaders
      /\ head.length = n /\ data = SubSeq(stream, d + 1, pos)
      /\ pos = d + n /\ n % 2 = 0
    BY <1>1, <1>2 DEF ScgiHeaders, NetstringIs
<1>4. n \in Nat
    <2>1. n \in 1 .. MaxHeaders /\ MaxHeaders \in Nat
        BY <1>3, LimitAssumption
    <2> HIDE DEF n
    <2> QED BY <2>1
<1> HIDE DEF n
<1>5. data = BlockOf(stream, d) /\ data \in Seq(Units) /\ Len(data) % 2 = 0
    <2>1. SubSeq(stream, d + 1, pos) \in Seq(Units)
          /\ Len(SubSeq(stream, d + 1, pos)) = pos - (d + 1) + 1
        BY <1>1, SliceIs
    <2>2. pos - (d + 1) + 1 = n
        BY <1>1, <1>3, <1>4
    <2> QED BY <1>3, <2>1, <2>2 DEF BlockOf, n
<1> DEFINE length == LengthIn(data)
           field == H!Field(data, "CONTENT_LENGTH")
           uri == H!Field(data, "REQUEST_URI")
           mode == H!Field(data, "MODE")
           v == IF field = <<>> THEN 0 ELSE field[1].v
<1>6. PICK block \in H!Blocks(1) :
          LET valid == /\ block[1].k = "comma"
                       /\ field # <<>> => field[1].k = "number"
                       /\ v >= 0 /\ v <= MaxRequest
          IN /\ H!Recv(block)
             /\ \/ ~valid /\ H!Fail
                \/ /\ valid
                   /\ head' = [mode |-> H!SelectMode(
                                   IF uri = <<>> THEN "normal" ELSE H!Word(uri[1]),
                                   IF mode = <<>> THEN <<>> ELSE <<H!Word(mode[1])>>),
                               length |-> v]
                   /\ pc' = "body" /\ data' = <<>>
                   /\ UNCHANGED wire
    <2> HIDE DEF H!Recv, H!Fail, H!SelectMode, H!Field, H!Word
    <2> QED BY DEF H!ScgiComma
<1>7. PICK q \in pos + 1 .. Len(stream) :
          /\ q - pos <= 1
          /\ block = SubSeq(stream, pos + 1, q) /\ Len(block) = q - pos
    BY BlockIs
<1>8. q = pos + 1 /\ q \in 1 .. Len(stream) /\ q = d + n + 1 /\ d \in 2 .. q
    BY <1>1, <1>3, <1>4, <1>7
<1>9. block[1] = stream[q]
    <2>1. \A i \in 1 .. q - q + 1 : SubSeq(stream, q, q)[i] = stream[q + i - 1]
        BY <1>1, <1>8, SliceIs
    <2>2. q - q + 1 = 1 /\ q + 1 - 1 = q /\ 1 \in 1 .. 1
        BY <1>8
    <2>3. SubSeq(stream, q, q)[1] = stream[q + 1 - 1]
        BY <2>1, <2>2
    <2> QED BY <1>7, <1>8, <2>2, <2>3
<1>10. pos' = q /\ stream' = stream /\ StreamOK'
    <2>1. pos' = q /\ stream' = stream
        BY <1>1, <1>6, <1>7 DEF H!Recv
    <2> QED BY <2>1, <1>1, <1>8 DEF StreamOK
<1>11. /\ v = length.v
       /\ (field # <<>> => field[1].k = "number") <=> length.k = "number"
    <2>1. length = IF field = <<>> THEN [k |-> "number", v |-> 0] ELSE field[1]
        BY DEF LengthIn
    <2> HIDE DEF length, field
    <2>2. CASE field = <<>>
        <3>1. length = [k |-> "number", v |-> 0]
            BY <2>1, <2>2
        <3> QED BY <2>2, <3>1
    <2>3. CASE field # <<>>
        BY <2>1, <2>3
    <2> QED BY <2>2, <2>3
<1>12. length.k = "number" => (v >= 0 /\ v <= MaxRequest <=> v \in 0 .. MaxRequest)
    <2> HAVE length.k = "number"
    <2>1. v \in Int /\ MaxRequest \in Int
        <3>1. length.v \in Int
            BY <1>5, LengthInIs
        <3> HIDE DEF length, v
        <3> QED BY <1>11, <3>1, LimitAssumption
    <2> HIDE DEF v
    <2> QED BY <2>1
<1> DEFINE good == stream[q].k = "comma" /\ length.k = "number" /\ length.v \in 0 .. MaxRequest
           modeIn == ModeIn(data)
<1>13. modeIn = H!SelectMode(IF uri = <<>> THEN "normal" ELSE H!Word(uri[1]),
                             IF mode = <<>> THEN <<>> ELSE <<H!Word(mode[1])>>)
    BY DEF ModeIn
<1>14. \/ ~good /\ H!Fail
       \/ /\ good /\ head' = [mode |-> modeIn, length |-> length.v]
          /\ pc' = "body" /\ data' = <<>> /\ wire' = wire
    <2> DEFINE select == H!SelectMode(IF uri = <<>> THEN "normal" ELSE H!Word(uri[1]),
                                      IF mode = <<>> THEN <<>> ELSE <<H!Word(mode[1])>>)
    <2>1. \/ ~(/\ block[1].k = "comma"
               /\ field # <<>> => field[1].k = "number"
               /\ v >= 0 /\ v <= MaxRequest) /\ H!Fail
          \/ /\ /\ block[1].k = "comma"
                /\ field # <<>> => field[1].k = "number"
                /\ v >= 0 /\ v <= MaxRequest
             /\ head' = [mode |-> select, length |-> v]
             /\ pc' = "body" /\ data' = <<>> /\ wire' = wire
        <3> HIDE DEF field, v, uri, mode, H!Fail
        <3> QED BY <1>6
    <2>2. modeIn = select
        BY <1>13
    <2> HIDE DEF field, v, uri, mode, modeIn, length, select, H!Fail
    <2> QED BY <1>9, <1>11, <1>12, <2>1, <2>2
<1> HIDE DEF field, v, uri, mode, modeIn, length, H!Fail
<1>15. CASE ~good /\ H!Fail
    <2> DEFINE end == d + n + 1
               blk == BlockOf(stream, d)
               len == LengthIn(blk)
    <2>1. H!MeansScgi(SubSeq(stream, 1, q)) =
              IF q >= d + n /\ n % 2 = 1 THEN <<"fail">>
              ELSE IF q <= d + n THEN <<"more">>
              ELSE IF stream[end].k # "comma" \/ len.k # "number" \/ len.v \notin 0 .. MaxRequest
              THEN <<"fail">>
              ELSE IF q < end + len.v THEN <<"more">>
              ELSE <<"answer", ModeMeant(blk), SubSeq(stream, end + 1, end + len.v)>>
        <3>1. Announced(stream, d) \in 1 .. MaxHeaders /\ q \in 0 .. Len(stream)
            BY <1>3, <1>8 DEF n
        <3> QED BY <1>1, <1>3, <1>8, <3>1, ScgiMeans DEF n
    <2>2. len = length /\ end = q
        BY <1>5, <1>8 DEF length
    <2>3. ~(q <= d + n) /\ n % 2 # 1
        BY <1>3, <1>4, <1>8
    <2> HIDE DEF end, blk, len
    <2>4. H!MeansScgi(SubSeq(stream, 1, q)) = <<"fail">>
        BY <1>15, <2>1, <2>2, <2>3
    <2>5. H!MeansScgi(H!Received)' = <<"fail">>
        BY <1>10, <2>4 DEF H!Received
    <2>6. pc' = "failed" /\ wire' = <<>>
        BY <1>3, <1>15 DEF H!Fail
    <2> QED BY <1>10, <2>5, <2>6, ScgiFailed
<1>16. CASE /\ good /\ head' = [mode |-> modeIn, length |-> length.v]
            /\ pc' = "body" /\ data' = <<>> /\ wire' = wire
    <2> DEFINE len == length.v
    <2>1. len \in Nat /\ head'.length = len
        <3>1. MaxRequest \in Nat
            BY LimitAssumption
        <3>2. len \in 0 .. MaxRequest /\ head'.length = len
            BY <1>16
        <3> HIDE DEF len
        <3> QED BY <3>1, <3>2
    <2>2. data' = SubSeq(stream, q + 1, q)
        <3>1. SubSeq(stream, q + 1, q) = <<>>
            BY <1>8, SubSeqEmpty
        <3> QED BY <1>16, <3>1
    <2>3. q <= q + len
        <3> HIDE DEF len
        <3> QED BY <2>1, <1>8
    <2>4. ScgiBody(d)'
        <3>1. NetstringIs(d)'
            BY <1>3, <1>10 DEF NetstringIs
        <3>2. wire' = <<>> /\ LengthIn(BlockOf(stream, d)) = length
              /\ ModeIn(BlockOf(stream, d)) = modeIn
            BY <1>3, <1>5, <1>16 DEF length, modeIn
        <3> DEFINE end == d + n + 1
        <3>3. end = q /\ end <= pos' /\ n % 2 = 0 /\ stream'[end].k = "comma"
            BY <1>3, <1>8, <1>10, <1>16
        <3>4. length.k = "number" /\ length.v \in 0 .. MaxRequest
            BY <1>16
        <3>5. data' = SubSeq(stream', end + 1, pos') /\ pos' <= end + head'.length
            BY <1>10, <2>1, <2>2, <2>3, <3>3
        <3> HIDE DEF end, good
        <3> QED BY <1>10, <1>16, <3>1, <3>2, <3>3, <3>4, <3>5 DEF ScgiBody, n, end
    <2> QED BY <1>8, <1>10, <1>16, <2>4 DEF ScgiOK
<1> QED BY <1>14, <1>15, <1>16

\* What a whole header of SCGI makes of the handler that waits for the body.
LEMMA ScgiBodyMeans ==
    ASSUME stream \in Seq(Units), pos \in 0 .. Len(stream), NEW d \in 2 .. pos, ScgiBody(d)
    PROVE  LET end == d + Announced(stream, d) + 1 IN
           /\ wire = <<>> /\ end \in 2 .. pos /\ head.length \in 0 .. MaxRequest
           /\ data = SubSeq(stream, end + 1, pos) /\ pos <= end + head.length
           /\ head.mode = IF ModeMeant(BlockOf(stream, d)) \in {"upgrade", "truncated"}
                          THEN ModeMeant(BlockOf(stream, d)) ELSE "normal"
           /\ H!MeansScgi(H!Received) =
                  IF pos < end + head.length THEN <<"more">>
                  ELSE <<"answer", ModeMeant(BlockOf(stream, d)),
                         SubSeq(stream, end + 1, end + head.length)>>
<1> DEFINE n == Announced(stream, d)
           end == d + n + 1
           part == BlockOf(stream, d)
           len == LengthIn(part)
<1>1. /\ IsStop(stream, d) /\ n \in 1 .. MaxHeaders /\ wire = <<>>
      /\ n % 2 = 0 /\ end <= pos /\ stream[end].k = "comma"
      /\ len.k = "number" /\ len.v \in 0 .. MaxRequest
      /\ head.mode = ModeIn(part) /\ head.length = len.v
      /\ data = SubSeq(stream, end + 1, pos) /\ pos <= end + head.length
    BY DEF ScgiBody, NetstringIs
<1>2. n \in Nat
    <2>1. MaxHeaders \in Nat
        BY LimitAssumption
    <2> HIDE DEF n
    <2> QED BY <1>1, <2>1
<1>3. H!MeansScgi(SubSeq(stream, 1, pos)) =
          IF pos >= d + n /\ n % 2 = 1 THEN <<"fail">>
          ELSE IF pos <= d + n THEN <<"more">>
          ELSE IF stream[end].k # "comma" \/ len.k # "number" \/ len.v \notin 0 .. MaxRequest
          THEN <<"fail">>
          ELSE IF pos < end + len.v THEN <<"more">>
          ELSE <<"answer", ModeMeant(part), SubSeq(stream, end + 1, end + len.v)>>
    BY <1>1, ScgiMeans
<1>4. part \in Seq(Units) /\ Len(part) % 2 = 0
    <2> DEFINE b == d + n
    <2>1. d + 1 \in Nat \ {0} /\ b \in 0 .. Len(stream) /\ d + 1 <= b + 1 /\ b - (d + 1) + 1 = n
        <3> HIDE DEF n
        <3> QED BY <1>1, <1>2
    <2>2. part = SubSeq(stream, d + 1, b)
        BY DEF BlockOf
    <2> HIDE DEF b, n, part
    <2>3. part \in Seq(Units) /\ Len(part) = n
        BY <2>1, <2>2, SliceIs
    <2> QED BY <1>1, <2>3
<1>5. head.mode = IF ModeMeant(part) \in {"upgrade", "truncated"} THEN ModeMeant(part)
                  ELSE "normal"
    BY <1>1, <1>4, ModeMeantIs
<1> HIDE DEF n, part, len
<1>6. ~(n % 2 = 1) /\ ~(pos <= d + n) /\ end \in 2 .. pos
    BY <1>1, <1>2
<1> HIDE DEF end
<1>7. H!MeansScgi(H!Received) =
          IF pos < end + head.length THEN <<"more">>
          ELSE <<"answer", ModeMeant(part), SubSeq(stream, end + 1, end + head.length)>>
    BY <1>1, <1>3, <1>6 DEF H!Received
<1> QED BY <1>1, <1>5, <1>6, <1>7 DEF n, end, part

LEMMA ScgiBodyKeeps ==
    ASSUME protocol = "scgi", StreamOK, ScgiOK, H!Body
    PROVE  StreamOK' /\ ScgiOK'
<1>1. pc = "body" /\ stream \in Seq(Units) /\ pos \in 0 .. Len(stream)
    BY DEF H!Body, StreamOK
<1>2. PICK d \in 2 .. pos : ScgiBody(d)
    BY <1>1 DEF ScgiOK
<1> DEFINE end == d + Announced(stream, d) + 1
<1>3. /\ end \in 2 .. pos /\ head.length \in 0 .. MaxRequest
      /\ data = SubSeq(stream, end + 1, pos)
    BY <1>1, <1>2, ScgiBodyMeans
<1> HIDE DEF end
<1>4. PICK b \in H!Blocks(H!Missing) :
          H!Recv(b) /\ data' = data \o b /\ UNCHANGED <<pc, wire, head>>
    BY DEF H!Body
<1>5. H!Missing = head.length - (pos - end) /\ H!Missing \in Int /\ head.length \in Nat
    <2>1. Len(SubSeq(stream, end + 1, pos)) = pos - (end + 1) + 1
        BY <1>1, <1>3, SliceIs
    <2>2. head.length \in Nat
        BY <1>3, LimitAssumption
    <2> QED BY <1>1, <1>3, <2>1, <2>2 DEF H!Missing
<1>6. PICK q \in pos + 1 .. Len(stream) :
          q - pos <= H!Missing /\ b = SubSeq(stream, pos + 1, q) /\ Len(b) = q - pos
    BY <1>4, <1>5, BlockIs
<1>7. q <= end + head.length /\ d \in 2 .. q /\ end <= q
    BY <1>1, <1>3, <1>5, <1>6
<1>8. pos' = q /\ stream' = stream /\ StreamOK'
    <2>1. pos' = q /\ stream' = stream
        BY <1>1, <1>4, <1>6 DEF H!Recv
    <2> QED BY <2>1, <1>1, <1>6 DEF StreamOK
<1>9. data' = SubSeq(stream, end + 1, q)
    <2>1. end + 1 \in Nat \ {0} /\ pos \in Nat /\ q \in Nat /\ end + 1 <= pos + 1
          /\ pos <= q /\ q <= Len(stream)
        BY <1>1, <1>3, <1>6
    <2>2. SubSeq(stream, end + 1, pos) \o SubSeq(stream, pos + 1, q) = SubSeq(stream, end + 1, q)
        BY <1>1, <2>1, SliceJoin
    <2> QED BY <1>3, <1>4, <1>6, <2>2
<1>10. ScgiBody(d)'
    <2>1. NetstringIs(d)'
        BY <1>2, <1>8 DEF ScgiBody, NetstringIs
    <2> QED BY <1>2, <1>4, <1>7, <1>8, <1>9, <2>1 DEF ScgiBody, end
<1> QED BY <1>1, <1>4, <1>7, <1>8, <1>10 DEF ScgiOK

LEMMA ScgiRespondKeeps ==
    ASSUME protocol = "scgi", StreamOK, ScgiOK, H!ScgiRespond
    PROVE  StreamOK' /\ ScgiOK'
<1>1. pc = "body" /\ stream \in Seq(Units) /\ pos \in 0 .. Len(stream)
    BY DEF H!ScgiRespond, StreamOK
<1>2. PICK d \in 2 .. pos : ScgiBody(d)
    BY <1>1 DEF ScgiOK
<1> DEFINE end == d + Announced(stream, d) + 1
           name == ModeMeant(BlockOf(stream, d))
           body == SubSeq(stream, end + 1, end + head.length)
<1>3. /\ end \in 2 .. pos /\ head.length \in 0 .. MaxRequest
      /\ data = SubSeq(stream, end + 1, pos) /\ pos <= end + head.length
      /\ head.mode = IF name \in {"upgrade", "truncated"} THEN name ELSE "normal"
      /\ H!MeansScgi(H!Received) =
             IF pos < end + head.length THEN <<"more">> ELSE <<"answer", name, body>>
    BY <1>1, <1>2, ScgiBodyMeans
<1> DEFINE echo == IF head.mode = "upgrade"
                   THEN SubSeq(data, 1, H!Min({Len(data), MaxRequest})) ELSE <<>>
<1>4. /\ H!Missing <= 0 /\ wire' = <<[mode |-> head.mode, echo |-> echo]>>
      /\ pc' = "closed" /\ stream' = stream /\ pos' = pos
    BY DEF H!ScgiRespond, H!Respond
<1> HIDE DEF end, name
<1>5. Len(data) = pos - end /\ head.length \in Nat /\ MaxRequest \in Nat
      /\ data \in Seq(Units)
    <2>1. SubSeq(stream, end + 1, pos) \in Seq(Units)
          /\ Len(SubSeq(stream, end + 1, pos)) = pos - (end + 1) + 1
        BY <1>1, <1>3, SliceIs
    <2>2. MaxRequest \in Nat
        BY LimitAssumption
    <2> QED BY <1>1, <1>3, <2>1, <2>2
<1>6. pos = end + head.length /\ data = body
    <2>1. pos = end + head.length
        <3> HIDE DEF echo, body
        <3>1. head.length - (pos - end) <= 0
            BY <1>4, <1>5 DEF H!Missing
        <3>2. end \in Int /\ pos \in Int /\ pos <= end + head.length
            BY <1>1, <1>3
        <3> QED BY <1>5, <3>1, <3>2
    <2> QED BY <1>3, <2>1
<1> HIDE DEF body
<1>7. echo = IF head.mode = "upgrade" THEN body ELSE <<>>
    <2> DEFINE k == Len(data)
    <2>1. k \in Nat /\ k <= MaxRequest
        <3>1. Len(data) = head.length /\ head.length \in 0 .. MaxRequest
            <4> HIDE DEF echo, k
            <4>1. end \in Int /\ pos = end + head.length /\ Len(data) = pos - end
                BY <1>3, <1>5, <1>6
            <4> QED BY <1>3, <1>5, <4>1
        <3> QED BY <1>5, <3>1
    <2>2. SubSeq(data, 1, k) = data
        BY <1>5, SubSeqFull
    <2> HIDE DEF k
    <2>3. H!Min({k, MaxRequest}) = k
        BY <1>5, <2>1, MinOfTwo
    <2> QED BY <1>6, <2>2, <2>3 DEF k
<1> HIDE DEF echo
<1>8. ~(pos < end + head.length)
    BY <1>1, <1>6
<1>9. H!MeansScgi(H!Received)' = <<"answer", name, body>>
    BY <1>3, <1>4, <1>8 DEF H!Received
<1>10. H!IsMeant(H!MeansScgi(H!Received))'
    BY <1>3, <1>4, <1>7, <1>9 DEF H!IsMeant
<1>11. StreamOK'
    BY <1>1, <1>4 DEF StreamOK
<1> QED BY <1>4, <1>10, <1>11 DEF ScgiOK

\* A handler that waits for the rest of the header or the body needs more.
LEMMA ScgiMore ==
    ASSUME StreamOK, ScgiOK,
           pc \in {"header", "block", "comma"} \/ (pc = "body" /\ H!Missing > 0)
    PROVE  wire = <<>> /\ H!MeansScgi(H!Received) = <<"more">>
<1>1. stream \in Seq(Units) /\ pos \in 0 .. Len(stream)
    BY DEF StreamOK
<1>2. CASE pc = "header"
    <2>1. wire = <<>> /\ pos < MaxDigits /\ \A i \in 1 .. pos : stream[i].k = "digit"
        BY <1>2 DEF ScgiOK
    <2>2. H!MeansScgi(SubSeq(stream, 1, pos)) = <<"more">>
        BY <1>1, <2>1, MeansDigits
    <2> QED BY <2>1, <2>2 DEF H!Received
<1>3. CASE pc \in {"block", "comma"}
    <2>1. PICK d \in 2 .. pos : ScgiHeaders(d)
        BY <1>3 DEF ScgiOK
    <2> DEFINE n == Announced(stream, d)
    <2>2. /\ IsStop(stream, d) /\ n \in 1 .. MaxHeaders /\ wire = <<>>
          /\ pos < d + n \/ (pos = d + n /\ n % 2 = 0)
        BY <1>3, <2>1 DEF ScgiHeaders, NetstringIs
    <2>3. n \in Nat
        <3>1. MaxHeaders \in Nat
            BY LimitAssumption
        <3> HIDE DEF n
        <3> QED BY <2>2, <3>1
    <2>4. ~(pos >= d + n /\ n % 2 = 1) /\ pos <= d + n
        <3> HIDE DEF n
        <3> QED BY <1>1, <2>2, <2>3
    <2>5. H!MeansScgi(SubSeq(stream, 1, pos)) = <<"more">>
        BY <1>1, <2>2, <2>4, ScgiMeans
    <2> QED BY <2>2, <2>5 DEF H!Received
<1>4. CASE pc = "body" /\ H!Missing > 0
    <2>1. PICK d \in 2 .. pos : ScgiBody(d)
        BY <1>4 DEF ScgiOK
    <2> DEFINE end == d + Announced(stream, d) + 1
               name == ModeMeant(BlockOf(stream, d))
               body == SubSeq(stream, end + 1, end + head.length)
    <2>2. /\ wire = <<>> /\ end \in 2 .. pos /\ head.length \in 0 .. MaxRequest
          /\ data = SubSeq(stream, end + 1, pos)
          /\ H!MeansScgi(H!Received) =
                 IF pos < end + head.length THEN <<"more">> ELSE <<"answer", name, body>>
        BY <1>1, <2>1, ScgiBodyMeans
    <2> HIDE DEF end, name
    <2>3. pos < end + head.length
        <3>1. Len(SubSeq(stream, end + 1, pos)) = pos - (end + 1) + 1
            BY <1>1, <2>2, SliceIs
        <3>2. head.length \in Int
            BY <2>2
        <3> QED BY <1>1, <1>4, <2>2, <3>1, <3>2 DEF H!Missing
    <2> QED BY <2>2, <2>3
<1> QED BY <1>2, <1>3, <1>4

LEMMA ScgiPeerEndsKeeps ==
    ASSUME protocol = "scgi", StreamOK, ScgiOK, H!PeerEnds
    PROVE  StreamOK' /\ ScgiOK'
<1>1. /\ pc \in {"header", "block", "comma"} \/ (pc = "body" /\ H!Missing > 0)
      /\ pc' = "gone" /\ UNCHANGED <<wire, stream, pos>>
    BY DEF H!PeerEnds, ScgiOK
<1>2. wire = <<>> /\ H!MeansScgi(H!Received) = <<"more">>
    BY <1>1, ScgiMore
<1>3. H!MeansScgi(H!Received)' = <<"more">>
    BY <1>1, <1>2 DEF H!Received
<1>4. H!IsMeant(H!MeansScgi(H!Received))'
    BY <1>1, <1>2, <1>3 DEF H!IsMeant
<1> QED BY <1>1, <1>4 DEF ScgiOK, StreamOK

LEMMA ScgiKeeps ==
    ASSUME protocol = "scgi", StreamOK, ScgiOK, H!Next
    PROVE  protocol' = protocol /\ StreamOK' /\ ScgiOK'
<1>1. pc # "tunnel"
    BY DEF ScgiOK
<1>2. \/ H!ScgiLength \/ H!ScgiBlock \/ H!ScgiComma \/ H!ScgiRespond \/ H!Body \/ H!PeerEnds
    <2>1. ~H!HttpHeader /\ ~H!HttpRespond
        BY DEF H!HttpHeader, H!HttpRespond
    <2>2. ~H!Tunnel /\ ~H!TunnelFull
        BY <1>1 DEF H!Tunnel, H!TunnelFull
    <2> QED BY <2>1, <2>2 DEF H!Next
<1>3. protocol' = protocol
    BY <1>2 DEF H!ScgiLength, H!ScgiBlock, H!ScgiComma, H!ScgiRespond, H!Body, H!PeerEnds, H!Recv
<1>4. StreamOK' /\ ScgiOK'
    BY <1>2, ScgiLengthKeeps, ScgiBlockKeeps, ScgiCommaKeeps, ScgiRespondKeeps, ScgiBodyKeeps,
       ScgiPeerEndsKeeps
<1> QED BY <1>3, <1>4

LEMMA ScgiSays ==
    ASSUME protocol = "scgi", StreamOK, ScgiOK
    PROVE  H!IsMeant(H!MeansScgi(H!Received))
<1>1. stream \in Seq(Units) /\ pos \in 0 .. Len(stream)
    BY DEF StreamOK
<1>2. CASE pc \in {"header", "block", "comma"}
    <2>1. wire = <<>> /\ H!MeansScgi(H!Received) = <<"more">>
        BY <1>2, ScgiMore
    <2> QED BY <1>2, <2>1 DEF H!IsMeant
<1>3. CASE pc = "body"
    <2>1. PICK d \in 2 .. pos : ScgiBody(d)
        BY <1>3 DEF ScgiOK
    <2>2. \/ wire = <<>> /\ H!MeansScgi(H!Received) = <<"more">>
          \/ \E name, body : H!MeansScgi(H!Received) = <<"answer", name, body>>
        BY <1>1, <2>1, ScgiBodyMeans
    <2> QED BY <1>3, <2>2 DEF H!IsMeant
<1>4. CASE pc \in {"closed", "failed", "gone"}
    BY <1>4 DEF ScgiOK
<1>5. pc \in {"header", "block", "comma", "body", "closed", "failed", "gone"}
    BY DEF ScgiOK
<1> QED BY <1>2, <1>3, <1>4, <1>5

-----------------------------------------------------------------------------
(* handle_fastcgi *)

Types == {"invalid", "begin", "params", "stdin", "abort", "other"}
Pieces == F!Tokens \cup {"", "keep", "close", "data"}
Records ==
    {r \in [type : Types, id : Ids \cup {NoRequest}, content : Pieces] :
        r.type = "begin" => r.content \in {"keep", "close"}}
Answers == [id : Ids, mode : F!Modes, echo : Nat, ended : BOOLEAN]

\* What of a request that began at b is known after i records.
RequestIs(r, t, b, i) ==
    LET S == F!ParamsOf(t, b, i) IN
    /\ r.keep = (t[b].content = "keep") /\ r.mode = F!ModeOf(t, b, i)
    /\ r.body = F!BodyOf(t, b, i) /\ r.body <= MaxRequest
    /\ Len(r.params) = Cardinality(S) /\ Cardinality(S) <= MaxRequest
    /\ F!Parse(r.params) = [mode |-> F!Selected(F!Contents(t), S),
                            value |-> F!ExpectsValue(F!Contents(t), S)]

\* What is collected for q: nothing, or what came since its begin.
CollectedIs(q, r, t) ==
    LET starts == F!StartOf(t, q, Len(t) + 1) IN
    IF r = NoRequest THEN starts = {}
    ELSE \E b \in 1 .. Len(t) : starts = {b} /\ RequestIs(r, t, b, Len(t))

\* The end of a body.
EndsBody(r) == r.type = "stdin" /\ r.content = ""

\* What a handler in state p has answered, w, and when it has given up, after
\* the records t.
FinishedIn(t, p) ==
    {i \in DOMAIN t : EndsBody(t[i]) /\ (p = "failed" => i # Len(t))}

Answered(t, p, w) ==
    LET done == FinishedIn(t, p) IN
    /\ Len(w) = Cardinality(done)
    /\ \A i \in done : w[Cardinality(done \cap (1 .. i))] = F!Meant(t, i)

EndedAs(t, p) ==
    /\ p = "failed" <=> t # <<>> /\ F!AtFault(t, Len(t))
    /\ p = "closed" => Len(t) \in FinishedIn(t, p)
    /\ \A i \in FinishedIn(t, p) :
          LET b == F!Max(F!StartOf(t, t[i].id, i)) IN
          (p = "closed" /\ i = Len(t)) <=> (~F!Meant(t, i).ended \/ t[b].content = "close")

\* While a FastCGI handler reads, it has of each request what came since its
\* begin; it has answered and given up as meant, and only what had begun.
FcgiIs(p, t, w, x) ==
    /\ p \in {"reading", "failed", "gone", "closed"}
    /\ t \in Seq(Records) /\ w \in Seq(Answers)
    /\ x \in [Ids -> F!Requests \cup {NoRequest}]
    /\ p = "reading" => \A q \in Ids : CollectedIs(q, x[q], t)
    /\ \A i \in FinishedIn(t, p) : F!StartOf(t, t[i].id, i) # {}
    /\ Answered(t, p, w) /\ EndedAs(t, p)

FcgiOK == FcgiIs(pc, trace, wire, requests)

-----------------------------------------------------------------------------
(* Numbers and sets of records *)

LEMMA SameCount == \A S : F!Cardinality(S) = Cardinality(S)
BY DEF F!Cardinality, Cardinality

LEMMA TopIs ==
    ASSUME NEW n \in Nat, NEW S \in SUBSET (1 .. n), S # {}
    PROVE  F!Max(S) \in S /\ \A x \in S : x <= F!Max(S)
<1>1. F!Max(S) = H!Max(S)
    BY DEF F!Max, H!Max
<1> QED BY <1>1, MaxIs

LEMMA TopOf ==
    ASSUME NEW n \in Nat, NEW S \in SUBSET (1 .. n), NEW m \in S, \A x \in S : x <= m
    PROVE  F!Max(S) = m
<1>1. F!Max(S) \in S /\ \A x \in S : x <= F!Max(S)
    BY TopIs
<1> DEFINE top == F!Max(S)
<1>2. top \in 1 .. n /\ m \in 1 .. n /\ top <= m /\ m <= top
    BY <1>1
<1> HIDE DEF top
<1>3. top = m
    BY <1>2
<1> QED BY <1>3 DEF top

LEMMA SomeFinite ==
    ASSUME NEW n \in Nat, NEW S \in SUBSET (1 .. n)
    PROVE  IsFiniteSet(S) /\ Cardinality(S) \in Nat /\ Cardinality(S) <= n
<1>1. IsFiniteSet(1 .. n) /\ Cardinality(1 .. n) = n
    BY FS_Interval
<1>2. IsFiniteSet(S) /\ Cardinality(S) <= Cardinality(1 .. n)
    BY <1>1, FS_Subset
<1> QED BY <1>1, <1>2, FS_CardinalityType

-----------------------------------------------------------------------------
(* The parameters *)

\* What a run of the parser over the tokens c[k], k \in S, is meant to give.
ParsedIn(c, S) == [mode |-> F!Selected(c, S), value |-> F!ExpectsValue(c, S)]

HeadsIn(c, S) == {k \in S : \A m \in S : m >= k => c[m] = "head"}

ChosenIn(c, S) == {j \in S : c[j] # "head" /\ ~F!ExpectsValue(c, {k \in S : k < j})}

LEMMA ParsedInIs ==
    \A c, S :
        /\ F!ExpectsValue(c, S) <=> Cardinality(HeadsIn(c, S)) % 2 = 1
        /\ F!Selected(c, S) = IF ChosenIn(c, S) = {} THEN "normal"
                              ELSE c[F!Max(ChosenIn(c, S))]
<1> TAKE c, S
<1>1. F!ExpectsValue(c, S) <=> Cardinality(HeadsIn(c, S)) % 2 = 1
    <2>1. F!Cardinality(HeadsIn(c, S)) = Cardinality(HeadsIn(c, S))
        BY SameCount
    <2> QED BY <2>1 DEF F!ExpectsValue, HeadsIn
<1>2. F!Selected(c, S) = IF ChosenIn(c, S) = {} THEN "normal"
                         ELSE c[F!Max(ChosenIn(c, S))]
    BY DEF F!Selected, ChosenIn
<1> QED BY <1>1, <1>2

\* A token more flips what follows a head, and selects unless it is a value.
LEMMA HeadsNext ==
    ASSUME NEW c, NEW n \in Nat, NEW S \in SUBSET (1 .. n),
           NEW m \in S, \A x \in S : x <= m
    PROVE  F!ExpectsValue(c, S) <=> c[m] = "head" /\ ~F!ExpectsValue(c, S \ {m})
<1> DEFINE R == HeadsIn(c, S)
           Q == HeadsIn(c, S \ {m})
<1>1. R \in SUBSET (1 .. n) /\ Q \in SUBSET (1 .. n) /\ m \notin Q
    BY DEF HeadsIn
<1>2. Cardinality(Q) \in Nat /\ Cardinality(R) \in Nat /\ IsFiniteSet(Q)
    <2> HIDE DEF R, Q
    <2> QED BY <1>1, SomeFinite
<1>3. CASE c[m] = "head"
    <2>1. R = Q \cup {m}
        <3>1. m \in R
            <4>1. \A x \in S : x >= m => x = m
                <5> TAKE x \in S
                <5>1. x \in 1 .. n /\ m \in 1 .. n /\ x <= m
                    OBVIOUS
                <5> QED BY <5>1
            <4> QED BY <4>1, <1>3 DEF HeadsIn
        <3>2. ASSUME NEW k \in S \ {m} PROVE k \in R <=> k \in Q
            BY <1>3 DEF HeadsIn
        <3> QED BY <3>1, <3>2 DEF HeadsIn
    <2> HIDE DEF R, Q
    <2>2. Cardinality(R) = Cardinality(Q) + 1
        BY <1>1, <1>2, <2>1, FS_AddElement
    <2>3. Cardinality(R) % 2 = 1 <=> ~(Cardinality(Q) % 2 = 1)
        BY <1>2, <2>2
    <2> QED BY <1>3, <2>3, ParsedInIs DEF R, Q
<1>4. CASE c[m] # "head"
    <2>1. R = {}
        <3>1. ASSUME NEW k \in R PROVE FALSE
            <4>1. k \in S /\ m >= k
                BY DEF HeadsIn
            <4> QED BY <4>1, <1>4 DEF HeadsIn
        <3> QED BY <3>1
    <2>2. Cardinality(R) = 0
        <3> HIDE DEF R
        <3> QED BY <2>1, FS_EmptySet
    <2>3. ~(Cardinality(R) % 2 = 1)
        BY <2>2
    <2> QED BY <1>4, <2>3, ParsedInIs
<1> QED BY <1>3, <1>4

LEMMA ChosenNext ==
    ASSUME NEW c, NEW n \in Nat, NEW S \in SUBSET (1 .. n),
           NEW m \in S, \A x \in S : x <= m
    PROVE  \A j \in S :
               j \in ChosenIn(c, S) <=>
                   \/ j \in ChosenIn(c, S \ {m})
                   \/ j = m /\ c[m] # "head" /\ ~F!ExpectsValue(c, S \ {m})
<1>1. {k \in S : k < m} = S \ {m}
    <2>1. ASSUME NEW k \in S PROVE k < m <=> k # m
        <3>1. k \in 1 .. n /\ m \in 1 .. n /\ k <= m
            OBVIOUS
        <3> QED BY <3>1
    <2> QED BY <2>1
<1>2. ASSUME NEW j \in S \ {m} PROVE {k \in S : k < j} = {k \in S \ {m} : k < j}
    <2>1. j \in 1 .. n /\ m \in 1 .. n /\ j <= m
        OBVIOUS
    <2> QED BY <2>1
<1>3. ASSUME NEW j \in S
      PROVE  j \in ChosenIn(c, S) <=>
                 \/ j \in ChosenIn(c, S \ {m})
                 \/ j = m /\ c[m] # "head" /\ ~F!ExpectsValue(c, S \ {m})
    <2>1. CASE j = m
        BY <1>1, <2>1 DEF ChosenIn
    <2>2. CASE j # m
        <3>1. {k \in S : k < j} = {k \in S \ {m} : k < j}
            BY <1>2, <2>2
        <3> QED BY <2>2, <3>1 DEF ChosenIn
    <2> QED BY <2>1, <2>2
<1> QED BY <1>3

LEMMA ParsedNext ==
    ASSUME NEW c, NEW n \in Nat, NEW S \in SUBSET (1 .. n),
           NEW m \in S, \A x \in S : x <= m
    PROVE  ParsedIn(c, S) = F!ParseToken(ParsedIn(c, S \ {m}), c[m])
<1> DEFINE T == S \ {m}
           v == F!ExpectsValue(c, T)
           C == ChosenIn(c, T)
           D == ChosenIn(c, S)
<1>1. F!ExpectsValue(c, S) <=> c[m] = "head" /\ ~v
    BY HeadsNext
<1>2. D = C \cup (IF c[m] # "head" /\ ~v THEN {m} ELSE {})
    <2>1. C \subseteq S /\ D \subseteq S
        BY DEF ChosenIn
    <2>2. \A j \in S : j \in D <=> j \in C \/ (j = m /\ c[m] # "head" /\ ~v)
        BY ChosenNext
    <2> HIDE DEF v, C, D
    <2> QED BY <2>1, <2>2
<1>3. F!Selected(c, S) = IF D = {} THEN "normal" ELSE c[F!Max(D)]
    BY ParsedInIs
<1>4. F!Selected(c, T) = IF C = {} THEN "normal" ELSE c[F!Max(C)]
    BY ParsedInIs
<1>5. v \in BOOLEAN
    BY DEF F!ExpectsValue
<1>6. F!Selected(c, S) = IF c[m] # "head" /\ ~v THEN c[m] ELSE F!Selected(c, T)
    <2>1. CASE c[m] # "head" /\ ~v
        <3>1. D = C \cup {m} /\ C \in SUBSET S
            <4> HIDE DEF v, D
            <4> QED BY <1>2, <2>1 DEF ChosenIn
        <3> HIDE DEF v, C, D
        <3>2. D \in SUBSET (1 .. n) /\ m \in D /\ \A x \in D : x <= m
            BY <3>1
        <3>3. F!Max(D) = m
            BY <3>2, TopOf
        <3> QED BY <1>3, <2>1, <3>2, <3>3
    <2>2. CASE ~(c[m] # "head" /\ ~v)
        <3> HIDE DEF v, C, D
        <3>1. D = C
            BY <1>2, <2>2
        <3> QED BY <1>3, <1>4, <2>2, <3>1
    <2> HIDE DEF v, C, D
    <2> QED BY <2>1, <2>2
<1>7. ParsedIn(c, T) = [mode |-> F!Selected(c, T), value |-> v]
    BY DEF ParsedIn
<1>8. ParsedIn(c, S) = [mode |-> IF c[m] # "head" /\ ~v THEN c[m] ELSE F!Selected(c, T),
                        value |-> c[m] = "head" /\ ~v]
    <2>1. F!ExpectsValue(c, S) \in BOOLEAN
        BY DEF F!ExpectsValue
    <2>2. F!ExpectsValue(c, S) = (c[m] = "head" /\ ~v)
        <3> HIDE DEF v
        <3> QED BY <1>1, <1>5, <2>1
    <2> HIDE DEF v
    <2> QED BY <1>6, <2>2 DEF ParsedIn
<1> HIDE DEF v, T
<1>9. F!ParseToken([mode |-> F!Selected(c, T), value |-> v], c[m])
          = [mode |-> IF c[m] # "head" /\ ~v THEN c[m] ELSE F!Selected(c, T),
             value |-> c[m] = "head" /\ ~v]
    <2> DEFINE a == F!Selected(c, T)
    <2> HIDE DEF a
    <2>1. ASSUME v = TRUE
          PROVE  F!ParseToken([mode |-> a, value |-> v], c[m])
                     = [mode |-> IF c[m] # "head" /\ ~v THEN c[m] ELSE a,
                        value |-> c[m] = "head" /\ ~v]
        BY <2>1 DEF F!ParseToken
    <2>2. ASSUME v = FALSE
          PROVE  F!ParseToken([mode |-> a, value |-> v], c[m])
                     = [mode |-> IF c[m] # "head" /\ ~v THEN c[m] ELSE a,
                        value |-> c[m] = "head" /\ ~v]
        BY <2>2 DEF F!ParseToken
    <2>3. F!ParseToken([mode |-> a, value |-> v], c[m])
          = [mode |-> IF c[m] # "head" /\ ~v THEN c[m] ELSE a,
             value |-> c[m] = "head" /\ ~v]
        BY <1>5, <2>1, <2>2
    <2> QED BY <2>3 DEF a
<1> QED BY <1>7, <1>8, <1>9 DEF T


\* It depends on the tokens in the set alone.
LEMMA ParsedAlike ==
    ASSUME NEW c, NEW d, NEW n \in Nat, NEW S \in SUBSET (1 .. n),
           \A j \in S : c[j] = d[j]
    PROVE  ParsedIn(c, S) = ParsedIn(d, S)
<1>1. ASSUME NEW T \in SUBSET S PROVE F!ExpectsValue(c, T) = F!ExpectsValue(d, T)
    <2>1. HeadsIn(c, T) = HeadsIn(d, T)
        BY DEF HeadsIn
    <2>2. F!ExpectsValue(c, T) \in BOOLEAN /\ F!ExpectsValue(d, T) \in BOOLEAN
        BY DEF F!ExpectsValue
    <2> QED BY <2>1, <2>2, ParsedInIs
<1>2. ChosenIn(c, S) = ChosenIn(d, S)
    <2>1. ASSUME NEW j \in S
          PROVE  F!ExpectsValue(c, {k \in S : k < j}) = F!ExpectsValue(d, {k \in S : k < j})
        BY <1>1
    <2> QED BY <2>1 DEF ChosenIn
<1>3. F!Selected(c, S) = F!Selected(d, S)
    <2> DEFINE C == ChosenIn(c, S)
    <2>1. C \in SUBSET S
        BY DEF ChosenIn
    <2>2. F!Selected(c, S) = IF C = {} THEN "normal" ELSE c[F!Max(C)]
        BY ParsedInIs
    <2>3. F!Selected(d, S) = IF C = {} THEN "normal" ELSE d[F!Max(C)]
        BY <1>2, ParsedInIs
    <2> HIDE DEF C
    <2>4. CASE C = {}
        BY <2>2, <2>3, <2>4
    <2>5. CASE C # {}
        <3>1. C \in SUBSET (1 .. n)
            BY <2>1
        <3>2. F!Max(C) \in C
            BY <3>1, <2>5, TopIs
        <3> QED BY <2>1, <2>2, <2>3, <3>2
    <2> QED BY <2>4, <2>5
<1> QED BY <1>1, <1>3 DEF ParsedIn

\* The fold of Parse, as a function on sets of places.
ParsedAt(f, c, S) ==
    IF S = {} THEN [mode |-> "normal", value |-> FALSE]
    ELSE F!ParseToken(f[S \ {F!Max(S)}], c[F!Max(S)])

IsParsed(f, c) == f = [S \in SUBSET DOMAIN c |-> ParsedAt(f, c, S)]

Parsed(c) == CHOOSE f : IsParsed(f, c)

LEMMA ParseFolds == \A c : F!Parse(c) = Parsed(c)[DOMAIN c]
BY DEF F!Parse, F!FoldLeft, F!MapThenFoldSet, Parsed, IsParsed, ParsedAt

LEMMA ParsedNone == \A c : ParsedIn(c, {}) = [mode |-> "normal", value |-> FALSE]
<1> TAKE c
<1>1. ChosenIn(c, {}) = {} /\ HeadsIn(c, {}) = {}
    BY DEF ChosenIn, HeadsIn
<1>2. F!Selected(c, {}) = "normal"
    BY <1>1, ParsedInIs
<1>3. Cardinality(HeadsIn(c, {})) = 0
    BY <1>1, FS_EmptySet
<1>4. ~(F!ExpectsValue(c, {}))
    <2>1. ~(Cardinality(HeadsIn(c, {})) % 2 = 1)
        BY <1>3
    <2> QED BY <2>1, ParsedInIs
<1>5. F!ExpectsValue(c, {}) = FALSE
    BY <1>4 DEF F!ExpectsValue
<1> QED BY <1>2, <1>5 DEF ParsedIn

LEMMA ParsedStep ==
    ASSUME NEW c, NEW n \in Nat, NEW S \in SUBSET (1 .. n), NEW f,
           S # {} => f[S \ {F!Max(S)}] = ParsedIn(c, S \ {F!Max(S)})
    PROVE  ParsedAt(f, c, S) = ParsedIn(c, S)
<1>1. CASE S = {}
    BY <1>1, ParsedNone DEF ParsedAt
<1>2. CASE S # {}
    <2> DEFINE m == F!Max(S)
    <2>1. m \in S /\ \A x \in S : x <= m
        BY <1>2, TopIs
    <2>2. ParsedAt(f, c, S) = F!ParseToken(ParsedIn(c, S \ {m}), c[m])
        BY <1>2 DEF ParsedAt
    <2> HIDE DEF m
    <2>3. ParsedIn(c, S) = F!ParseToken(ParsedIn(c, S \ {m}), c[m])
        BY <2>1, ParsedNext
    <2> QED BY <2>2, <2>3
<1> QED BY <1>1, <1>2

LEMMA ParseGives ==
    ASSUME NEW c, NEW n \in Nat, DOMAIN c = 1 .. n
    PROVE  F!Parse(c) = ParsedIn(c, 1 .. n)
<1> DEFINE h == [S \in SUBSET (1 .. n) |-> ParsedIn(c, S)]
           f == Parsed(c)
           T == {i \in Nat : i <= n => f[1 .. i] = ParsedIn(c, 1 .. i)}
<1>1. IsParsed(h, c)
    <2>1. ASSUME NEW S \in SUBSET (1 .. n)
          PROVE  ParsedIn(c, S) = ParsedAt(h, c, S)
        <3>1. h[S \ {F!Max(S)}] = ParsedIn(c, S \ {F!Max(S)})
            OBVIOUS
        <3> HIDE DEF h
        <3> QED BY <3>1, ParsedStep
    <2>2. h = [S \in SUBSET (1 .. n) |-> ParsedAt(h, c, S)]
        <3> DEFINE g == [S \in SUBSET (1 .. n) |-> ParsedAt(h, c, S)]
        <3>1. \A S \in SUBSET (1 .. n) : h[S] = g[S]
            BY <2>1
        <3>2. DOMAIN h = SUBSET (1 .. n) /\ DOMAIN g = SUBSET (1 .. n)
              /\ h = [S \in SUBSET (1 .. n) |-> h[S]] /\ g = [S \in SUBSET (1 .. n) |-> g[S]]
            OBVIOUS
        <3> HIDE DEF h, g
        <3>3. h = g
            BY <3>1, <3>2
        <3> QED BY <3>3 DEF g
    <2> HIDE DEF h
    <2> QED BY <2>2 DEF IsParsed
<1>2. \A S \in SUBSET (1 .. n) : f[S] = ParsedAt(f, c, S)
    <2>1. IsParsed(f, c)
        <3> HIDE DEF h
        <3> QED BY <1>1 DEF Parsed
    <2> HIDE DEF f
    <2> QED BY <2>1 DEF IsParsed
<1>3. 0 \in T
    <2>1. 1 .. 0 = {} /\ {} \in SUBSET (1 .. n)
        OBVIOUS
    <2>2. f[{}] = ParsedIn(c, {})
        <3> HIDE DEF f
        <3> QED BY <1>2, <2>1, ParsedStep
    <2> HIDE DEF f
    <2> QED BY <2>1, <2>2
<1>4. ASSUME NEW i \in T PROVE i + 1 \in T
    <2> HIDE DEF f
    <2> SUFFICES ASSUME i + 1 <= n PROVE f[1 .. i + 1] = ParsedIn(c, 1 .. i + 1)
        OBVIOUS
    <2> DEFINE S == 1 .. i + 1
    <2>1. i \in Nat /\ S \in SUBSET (1 .. n) /\ i + 1 \in S /\ \A x \in S : x <= i + 1
        <3>1. i \in Nat
            BY DEF T
        <3> HIDE DEF T, h
        <3>2. i + 1 \in S
            BY <3>1
        <3>3. S \in SUBSET (1 .. n)
            BY <3>1
        <3> QED BY <3>1, <3>2, <3>3
    <2>2. F!Max(S) = i + 1
        <3> DEFINE m == i + 1
        <3>1. m \in S /\ \A x \in S : x <= m
            BY <2>1
        <3> HIDE DEF m, S, T, h
        <3>2. F!Max(S) = m
            BY <2>1, <3>1, TopOf
        <3> QED BY <3>2 DEF m
    <2>3. S \ {F!Max(S)} = 1 .. i
        BY <2>1, <2>2
    <2>4. f[1 .. i] = ParsedIn(c, 1 .. i)
        BY <2>1
    <2> HIDE DEF S, h, T
    <2>5. f[S] = ParsedIn(c, S)
        BY <1>2, <2>1, <2>3, <2>4, ParsedStep
    <2> QED BY <2>5 DEF S
<1>5. n \in T
    <2>1. T \in SUBSET Nat
        OBVIOUS
    <2> HIDE DEF T
    <2> QED BY <1>3, <1>4, <2>1, NatRule
<1>6. F!Parse(c) = f[1 .. n]
    BY ParseFolds
<1>7. f[1 .. n] = ParsedIn(c, 1 .. n)
    <2> HIDE DEF f, h
    <2> QED BY <1>5
<1> HIDE DEF f, T, h
<1> QED BY <1>6, <1>7

\* The parser goes on with a token more.
LEMMA ParseAppend ==
    ASSUME NEW p \in Seq(F!Tokens), NEW x \in F!Tokens
    PROVE  F!Parse(Append(p, x)) = F!ParseToken(F!Parse(p), x)
<1> DEFINE c == Append(p, x)
           n == Len(p)
           m == n + 1
           S == 1 .. m
<1>1. n \in Nat /\ DOMAIN p = 1 .. n /\ DOMAIN c = 1 .. m /\ m \in Nat /\ c[m] = x
      /\ \A j \in 1 .. n : c[j] = p[j]
    OBVIOUS
<1>2. m \in S /\ (\A y \in S : y <= m) /\ S \ {m} = 1 .. n
    BY <1>1
<1> HIDE DEF c, n, m
<1>3. F!Parse(c) = ParsedIn(c, S) /\ F!Parse(p) = ParsedIn(p, 1 .. n)
    BY <1>1, ParseGives
<1> DEFINE R == 1 .. n
<1>4. ParsedIn(c, R) = ParsedIn(p, R)
    <2>1. R \in SUBSET (1 .. n) /\ \A j \in R : c[j] = p[j]
        BY <1>1
    <2> HIDE DEF R
    <2> QED BY <1>1, <2>1, ParsedAlike
<1> HIDE DEF S
<1>5. ParsedIn(c, S) = F!ParseToken(ParsedIn(c, S \ {m}), c[m])
    <2>1. S \in SUBSET (1 .. m)
        BY DEF S
    <2> QED BY <1>1, <1>2, <2>1, ParsedNext
<1> QED BY <1>1, <1>2, <1>3, <1>4, <1>5 DEF c


-----------------------------------------------------------------------------
(* What a record more changes *)

\* What went before it means what it meant.
LEMMA StartAlike ==
    ASSUME NEW t, NEW u, NEW n \in Nat, \A j \in 1 .. n : u[j] = t[j],
           NEW q, NEW i \in 1 .. n + 1
    PROVE  F!StartOf(u, q, i) = F!StartOf(t, q, i)
<1>1. ASSUME NEW b \in 1 .. i - 1
      PROVE  u[b] = t[b] /\ \A j \in b + 1 .. i - 1 : u[j] = t[j]
    <2>1. b \in 1 .. n
        OBVIOUS
    <2>2. ASSUME NEW j \in b + 1 .. i - 1 PROVE j \in 1 .. n
        OBVIOUS
    <2> QED BY <2>1, <2>2
<1> QED BY <1>1 DEF F!StartOf

LEMMA ParamsAlike ==
    ASSUME NEW t, NEW u, NEW n \in Nat, \A j \in 1 .. n : u[j] = t[j],
           NEW i \in 1 .. n, NEW b \in 1 .. i
    PROVE  F!ParamsOf(u, b, i) = F!ParamsOf(t, b, i)
<1>1. b \in 1 .. n /\ \A j \in b .. i : j \in 1 .. n
    OBVIOUS
<1> QED BY <1>1 DEF F!ParamsOf

\* The pieces of the body, and the ends of the parameters.
BodySet(t, b, i) ==
    {j \in b .. i : t[j] = [type |-> "stdin", id |-> t[b].id, content |-> "data"]}

EndSet(t, b, i) ==
    {j \in b .. i : t[j] = [type |-> "params", id |-> t[b].id, content |-> ""]}

LEMMA BodyIs == \A t, b, i : F!BodyOf(t, b, i) = Cardinality(BodySet(t, b, i))
<1> TAKE t, b, i
<1>1. F!Cardinality(BodySet(t, b, i)) = Cardinality(BodySet(t, b, i))
    BY SameCount
<1> QED BY <1>1 DEF F!BodyOf, BodySet

LEMMA ModeIs ==
    \A t, b, i :
        F!ModeOf(t, b, i) =
            IF EndSet(t, b, i) = {} THEN "normal"
            ELSE F!Selected(F!Contents(t), F!ParamsOf(t, b, F!Max(EndSet(t, b, i))))
BY DEF F!ModeOf, EndSet

LEMMA SetsAlike ==
    ASSUME NEW t, NEW u, NEW n \in Nat, \A j \in 1 .. n : u[j] = t[j],
           NEW i \in 1 .. n, NEW b \in 1 .. i
    PROVE  BodySet(u, b, i) = BodySet(t, b, i) /\ EndSet(u, b, i) = EndSet(t, b, i)
<1>1. b \in 1 .. n /\ \A j \in b .. i : j \in 1 .. n
    OBVIOUS
<1> QED BY <1>1 DEF BodySet, EndSet

LEMMA ParsedGrown ==
    ASSUME NEW t \in Seq(Records), NEW u \in Seq(Records), NEW n \in Nat,
           n <= Len(t), n <= Len(u), \A j \in 1 .. n : u[j] = t[j],
           NEW S \in SUBSET (1 .. n)
    PROVE  ParsedIn(F!Contents(u), S) = ParsedIn(F!Contents(t), S)
<1> DEFINE c == F!Contents(t)
           d == F!Contents(u)
<1>1. \A j \in 1 .. n : c[j] = t[j].content /\ d[j] = u[j].content
    BY DEF F!Contents
<1>2. \A j \in S : d[j] = c[j]
    BY <1>1
<1> HIDE DEF c, d
<1>3. ParsedIn(d, S) = ParsedIn(c, S)
    BY <1>2, ParsedAlike
<1> QED BY <1>3 DEF c, d

LEMMA ModeAlike ==
    ASSUME NEW t \in Seq(Records), NEW u \in Seq(Records), NEW n \in Nat,
           n <= Len(t), n <= Len(u), \A j \in 1 .. n : u[j] = t[j],
           NEW i \in 1 .. n, NEW b \in 1 .. i
    PROVE  F!ModeOf(u, b, i) = F!ModeOf(t, b, i)
<1> DEFINE E == EndSet(t, b, i)
           top == F!Max(E)
<1>1. EndSet(u, b, i) = E
    BY SetsAlike
<1>2. CASE E = {}
    <2> HIDE DEF E
    <2> QED BY <1>1, <1>2, ModeIs DEF E
<1>3. CASE E # {}
    <2>1. E \in SUBSET (1 .. n) /\ E \in SUBSET (b .. i)
        <3>1. b .. i \in SUBSET (1 .. n)
            OBVIOUS
        <3> QED BY <3>1 DEF EndSet
    <2>2. top \in E
        <3> HIDE DEF E
        <3> QED BY <1>3, <2>1, TopIs
    <2> HIDE DEF E, top
    <2>3. top \in b .. i /\ top \in 1 .. n /\ b \in 1 .. top
        BY <2>1, <2>2
    <2> DEFINE S == F!ParamsOf(t, b, top)
    <2>4. F!ParamsOf(u, b, top) = S
        BY <2>3, ParamsAlike
    <2>5. S \in SUBSET (1 .. n)
        <3>1. b .. top \in SUBSET (1 .. n)
            BY <2>3
        <3>2. S \in SUBSET (b .. top)
            BY DEF F!ParamsOf
        <3> QED BY <3>1, <3>2
    <2> HIDE DEF S
    <2>6. ParsedIn(F!Contents(u), S) = ParsedIn(F!Contents(t), S)
        BY <2>5, ParsedGrown
    <2>7. F!Selected(F!Contents(u), S) = F!Selected(F!Contents(t), S)
        BY <2>6 DEF ParsedIn
    <2>8. F!ModeOf(u, b, i) = F!Selected(F!Contents(u), S)
        BY <1>1, <1>3, <2>4, ModeIs DEF top
    <2>9. F!ModeOf(t, b, i) = F!Selected(F!Contents(t), S)
        BY <1>3, ModeIs DEF top, E, S
    <2> QED BY <2>7, <2>8, <2>9
<1> HIDE DEF E
<1> QED BY <1>2, <1>3

LEMMA MeantAlike ==
    ASSUME NEW t \in Seq(Records), NEW u \in Seq(Records), NEW n \in Nat,
           n <= Len(t), n <= Len(u), \A j \in 1 .. n : u[j] = t[j],
           NEW i \in 1 .. n, F!StartOf(t, t[i].id, i) # {}
    PROVE  LET b == F!Max(F!StartOf(t, t[i].id, i)) IN
           /\ F!StartOf(u, u[i].id, i) = F!StartOf(t, t[i].id, i)
           /\ F!Meant(u, i) = F!Meant(t, i) /\ u[b] = t[b] /\ b \in 1 .. i - 1
<1> DEFINE B == F!StartOf(t, t[i].id, i)
           b == F!Max(B)
<1>1. F!StartOf(u, u[i].id, i) = B /\ u[i].id = t[i].id
    <2>1. u[i] = t[i] /\ i \in 1 .. n + 1
        OBVIOUS
    <2> QED BY <2>1, StartAlike
<1>2. B \in SUBSET (1 .. i - 1) /\ i - 1 \in Nat
    BY DEF F!StartOf
<1>3. b \in B
    <2> DEFINE k == i - 1
    <2> HIDE DEF B, k
    <2> QED BY <1>2, TopIs DEF k, B
<1> HIDE DEF b, B
<1>4. b \in 1 .. i - 1 /\ b \in 1 .. i /\ u[b] = t[b]
    BY <1>2, <1>3
<1>5. F!ModeOf(u, b, i) = F!ModeOf(t, b, i)
    BY <1>4, ModeAlike
<1>6. F!BodyOf(u, b, i) = F!BodyOf(t, b, i)
    BY <1>4, SetsAlike, BodyIs
<1>7. F!Meant(t, i) = F!Answer(t[i].id, [keep |-> t[b].content = "keep",
                                         mode |-> F!ModeOf(t, b, i),
                                         body |-> F!BodyOf(t, b, i)])
    BY DEF F!Meant, b, B
<1>8. F!Meant(u, i) = F!Answer(u[i].id, [keep |-> u[b].content = "keep",
                                         mode |-> F!ModeOf(u, b, i),
                                         body |-> F!BodyOf(u, b, i)])
    BY <1>1 DEF F!Meant, b, B
<1>9. F!Meant(u, i) = F!Meant(t, i)
    BY <1>1, <1>4, <1>5, <1>6, <1>7, <1>8
<1> QED BY <1>1, <1>4, <1>9 DEF b, B


LEMMA Grown ==
    ASSUME NEW t \in Seq(Records), NEW r \in Records
    PROVE  /\ Append(t, r) \in Seq(Records) /\ Len(Append(t, r)) = Len(t) + 1
           /\ Len(t) \in Nat /\ Append(t, r)[Len(t) + 1] = r
           /\ \A j \in 1 .. Len(t) : Append(t, r)[j] = t[j]
OBVIOUS

LEMMA StartGrown ==
    ASSUME NEW t \in Seq(Records), NEW r \in Records, NEW q
    PROVE  F!StartOf(Append(t, r), q, Len(t) + 1) = F!StartOf(t, q, Len(t) + 1)
<1> DEFINE u == Append(t, r)
           n == Len(t)
           m == n + 1
<1>1. n \in Nat /\ \A j \in 1 .. n : u[j] = t[j]
    BY Grown
<1> HIDE DEF u, n
<1>2. m - 1 = n /\ m \in Nat
    BY <1>1
<1> HIDE DEF m
<1>3. \A b \in 1 .. n : \A j \in b + 1 .. n : j \in 1 .. n
    BY <1>1
<1>4. F!StartOf(u, q, m) = F!StartOf(t, q, m)
    BY <1>1, <1>2, <1>3 DEF F!StartOf
<1> QED BY <1>4 DEF u, n, m

\* A begin opens a request, the end of its body and an abort close it.
LEMMA StartNext ==
    ASSUME NEW t \in Seq(Records), NEW r \in Records, NEW q
    PROVE  LET u == Append(t, r)
               m == Len(t) + 1
               S == F!StartOf(u, q, m + 1)
           IN /\ S \in SUBSET (1 .. m)
              /\ m \in S <=> r.type = "begin" /\ r.id = q
              /\ \A b \in 1 .. Len(t) :
                     b \in S <=> b \in F!StartOf(t, q, m) /\ ~(r.id = q /\ F!IsEnd(r))
<1> DEFINE u == Append(t, r)
           n == Len(t)
           m == n + 1
           k == m + 1
           S == F!StartOf(u, q, k)
           E(j) == u[j].id = q => ~F!IsEnd(u[j])
<1>1. n \in Nat /\ u[m] = r /\ \A j \in 1 .. n : u[j] = t[j]
    BY Grown
<1> HIDE DEF u, n
<1>2. S = {b \in 1 .. m : u[b].type = "begin" /\ u[b].id = q /\ \A j \in b + 1 .. m : E(j)}
    <2>1. k - 1 = m
        BY <1>1
    <2> HIDE DEF k
    <2> QED BY <2>1 DEF F!StartOf
<1>3. F!StartOf(t, q, m) = {b \in 1 .. n : /\ t[b].type = "begin" /\ t[b].id = q
                                          /\ \A j \in b + 1 .. n : t[j].id = q => ~F!IsEnd(t[j])}
    <2>1. m - 1 = n
        BY <1>1
    <2> HIDE DEF m
    <2> QED BY <2>1 DEF F!StartOf
<1> HIDE DEF S
<1>4. m \in S <=> r.type = "begin" /\ r.id = q
    <2>1. m \in 1 .. m /\ m + 1 .. m = {}
        BY <1>1
    <2> HIDE DEF E, m
    <2> QED BY <1>1, <1>2, <2>1
<1>5. ASSUME NEW b \in 1 .. n
      PROVE  b \in S <=> b \in F!StartOf(t, q, m) /\ ~(r.id = q /\ F!IsEnd(r))
    <2>1. b \in 1 .. m /\ u[b] = t[b] /\ m \in b + 1 .. m
        BY <1>1
    <2>2. \A j : j \in b + 1 .. m <=> j \in b + 1 .. n \/ j = m
        BY <1>1
    <2>3. \A j \in b + 1 .. n : E(j) <=> (t[j].id = q => ~F!IsEnd(t[j]))
        <3>1. \A j \in b + 1 .. n : j \in 1 .. n
            BY <1>1
        <3> QED BY <1>1, <3>1
    <2>4. E(m) <=> ~(r.id = q /\ F!IsEnd(r))
        BY <1>1
    <2> HIDE DEF E, m
    <2> QED BY <1>2, <1>3, <2>1, <2>2, <2>3, <2>4
<1>6. S \in SUBSET (1 .. m)
    BY <1>2
<1> HIDE DEF m
<1> QED BY <1>4, <1>5, <1>6 DEF S, k, u, n, m

\* A piece of parameters of the request of id q, their end, a piece of its body.
IsPiece(r, q) == r.type = "params" /\ r.id = q /\ r.content # ""
EndsParams(r, q) == r = [type |-> "params", id |-> q, content |-> ""]
IsBody(r, q) == r = [type |-> "stdin", id |-> q, content |-> "data"]

LEMMA PartsAre ==
    ASSUME NEW r \in Records, NEW q
    PROVE  /\ EndsParams(r, q) <=> r.type = "params" /\ r.id = q /\ r.content = ""
           /\ IsBody(r, q) <=> r.type = "stdin" /\ r.id = q /\ r.content = "data"
           /\ F!IsEnd(r) <=> r.type = "abort" \/ EndsBody(r)
<1>1. \A a, b, c : r = [type |-> a, id |-> b, content |-> c]
                       <=> r.type = a /\ r.id = b /\ r.content = c
    BY DEF Records
<1> QED BY <1>1 DEF EndsParams, IsBody, F!IsEnd, EndsBody

\* A record is of one kind.
LEMMA KindIs ==
    ASSUME NEW r \in Records, NEW q
    PROVE  /\ EndsParams(r, q) => r.type = "params" /\ r.id = q /\ ~IsPiece(r, q)
           /\ IsBody(r, q) => r.type = "stdin" /\ r.id = q /\ ~EndsBody(r)
           /\ IsPiece(r, q) => r.type = "params" /\ r.id = q
           /\ EndsBody(r) => r.type = "stdin"
           /\ F!IsEnd(r) <=> r.type = "abort" \/ EndsBody(r)
<1>1. EndsParams(r, q) => r.type = "params" /\ r.id = q /\ ~IsPiece(r, q)
    BY PartsAre DEF IsPiece
<1>2. IsBody(r, q) => r.type = "stdin" /\ r.id = q /\ ~EndsBody(r)
    <2>1. ~("data" = "")
        OBVIOUS
    <2> QED BY <2>1, PartsAre DEF EndsBody
<1>3. IsPiece(r, q) => r.type = "params" /\ r.id = q
    BY DEF IsPiece
<1>4. EndsBody(r) => r.type = "stdin"
    BY DEF EndsBody
<1>5. F!IsEnd(r) <=> r.type = "abort" \/ EndsBody(r)
    BY PartsAre
<1> QED BY <1>1, <1>2, <1>3, <1>4, <1>5

LEMMA SetsNext ==
    ASSUME NEW t \in Seq(Records), NEW r \in Records, NEW b \in 1 .. Len(t)
    PROVE  LET u == Append(t, r)
               n == Len(t)
               m == Len(t) + 1
               q == t[b].id
           IN /\ F!ParamsOf(u, b, m) = F!ParamsOf(t, b, n) \cup (IF IsPiece(r, q) THEN {m} ELSE {})
              /\ BodySet(u, b, m) = BodySet(t, b, n) \cup (IF IsBody(r, q) THEN {m} ELSE {})
              /\ EndSet(u, b, m) = EndSet(t, b, n) \cup (IF EndsParams(r, q) THEN {m} ELSE {})
<1> DEFINE u == Append(t, r)
           n == Len(t)
           m == n + 1
           q == t[b].id
<1>1. n \in Nat /\ u[m] = r /\ (\A j \in 1 .. n : u[j] = t[j]) /\ b \in 1 .. n
    BY Grown
<1> HIDE DEF u, n
<1>2. u[b].id = q /\ (\A j : j \in b .. m <=> j \in b .. n \/ j = m)
      /\ \A j \in b .. n : u[j] = t[j] /\ j # m
    BY <1>1
<1> HIDE DEF m, q
<1>3. F!ParamsOf(u, b, m) = F!ParamsOf(t, b, n) \cup (IF IsPiece(r, q) THEN {m} ELSE {})
    <2> DEFINE P(j) == u[j].type = "params" /\ u[j].id = q /\ u[j].content # ""
    <2>1. F!ParamsOf(u, b, m) = {j \in b .. m : P(j)}
        BY <1>2 DEF F!ParamsOf
    <2>2. F!ParamsOf(t, b, n) = {j \in b .. n : P(j)}
        BY <1>2 DEF F!ParamsOf, q
    <2>3. P(m) <=> IsPiece(r, q)
        BY <1>1 DEF IsPiece
    <2> HIDE DEF P
    <2> QED BY <1>2, <2>1, <2>2, <2>3
<1>4. BodySet(u, b, m) = BodySet(t, b, n) \cup (IF IsBody(r, q) THEN {m} ELSE {})
    <2> DEFINE P(j) == u[j] = [type |-> "stdin", id |-> q, content |-> "data"]
    <2>1. BodySet(u, b, m) = {j \in b .. m : P(j)}
        BY <1>2 DEF BodySet
    <2>2. BodySet(t, b, n) = {j \in b .. n : P(j)}
        BY <1>2 DEF BodySet, q
    <2>3. P(m) <=> IsBody(r, q)
        BY <1>1 DEF IsBody
    <2> HIDE DEF P
    <2> QED BY <1>2, <2>1, <2>2, <2>3
<1>5. EndSet(u, b, m) = EndSet(t, b, n) \cup (IF EndsParams(r, q) THEN {m} ELSE {})
    <2> DEFINE P(j) == u[j] = [type |-> "params", id |-> q, content |-> ""]
    <2>1. EndSet(u, b, m) = {j \in b .. m : P(j)}
        BY <1>2 DEF EndSet
    <2>2. EndSet(t, b, n) = {j \in b .. n : P(j)}
        BY <1>2 DEF EndSet, q
    <2>3. P(m) <=> EndsParams(r, q)
        BY <1>1 DEF EndsParams
    <2> HIDE DEF P
    <2> QED BY <1>2, <2>1, <2>2, <2>3
<1> QED BY <1>3, <1>4, <1>5 DEF u, n, m, q

\* The sets of a request that began at b are of records received since.
LEMMA SetsWithin ==
    ASSUME NEW t, NEW n \in Nat, NEW b \in 1 .. n
    PROVE  /\ F!ParamsOf(t, b, n) \in SUBSET (1 .. n) /\ BodySet(t, b, n) \in SUBSET (1 .. n)
           /\ EndSet(t, b, n) \in SUBSET (b .. n) /\ b .. n \in SUBSET (1 .. n)
<1>1. b .. n \in SUBSET (1 .. n)
    OBVIOUS
<1>2. F!ParamsOf(t, b, n) \in SUBSET (b .. n) /\ BodySet(t, b, n) \in SUBSET (b .. n)
    BY DEF F!ParamsOf, BodySet
<1>3. EndSet(t, b, n) \in SUBSET (b .. n)
    BY DEF EndSet
<1> QED BY <1>1, <1>2, <1>3

LEMMA OneMore ==
    ASSUME NEW n \in Nat, NEW S \in SUBSET (1 .. n), NEW c \in BOOLEAN
    PROVE  Cardinality(S \cup (IF c THEN {n + 1} ELSE {}))
               = Cardinality(S) + (IF c THEN 1 ELSE 0)
<1> DEFINE m == n + 1
<1>1. m \notin S /\ IsFiniteSet(S) /\ Cardinality(S) \in Nat
    <2>1. IsFiniteSet(S) /\ Cardinality(S) \in Nat
        BY SomeFinite
    <2> QED BY <2>1
<1> HIDE DEF m
<1>2. CASE c
    <2>1. Cardinality(S \cup {m}) = Cardinality(S) + 1
        BY <1>1, FS_AddElement
    <2> QED BY <1>2, <2>1 DEF m
<1>3. CASE ~c
    <2>1. Cardinality(S) = Cardinality(S) + 0 /\ S \cup {} = S
        BY <1>1
    <2> QED BY <1>3, <2>1
<1> QED BY <1>2, <1>3


LEMMA RequestNext ==
    ASSUME NEW t \in Seq(Records), NEW r \in Records, NEW b \in 1 .. Len(t),
           NEW x \in F!Requests, RequestIs(x, t, b, Len(t))
    PROVE  LET u == Append(t, r)
               m == Len(t) + 1
               q == t[b].id
               S == F!ParamsOf(u, b, m)
           IN /\ Cardinality(S) = Len(x.params) + (IF IsPiece(r, q) THEN 1 ELSE 0)
              /\ F!BodyOf(u, b, m) = x.body + (IF IsBody(r, q) THEN 1 ELSE 0)
              /\ ParsedIn(F!Contents(u), S) = IF IsPiece(r, q)
                                              THEN F!ParseToken(F!Parse(x.params), r.content)
                                              ELSE F!Parse(x.params)
              /\ F!ModeOf(u, b, m) = IF EndsParams(r, q) THEN F!Parse(x.params).mode
                                     ELSE x.mode
<1> DEFINE u == Append(t, r)
           n == Len(t)
           m == n + 1
           q == t[b].id
           S == F!ParamsOf(t, b, n)
           V == F!ParamsOf(u, b, m)
           piece == IsPiece(r, q)
           c == F!Contents(u)
<1>1. /\ n \in Nat /\ u[m] = r /\ (\A j \in 1 .. n : u[j] = t[j]) /\ b \in 1 .. n
      /\ u \in Seq(Records) /\ Len(u) = m
    BY Grown
<1>2. /\ V = S \cup (IF piece THEN {m} ELSE {})
      /\ BodySet(u, b, m) = BodySet(t, b, n) \cup (IF IsBody(r, q) THEN {m} ELSE {})
      /\ EndSet(u, b, m) = EndSet(t, b, n) \cup (IF EndsParams(r, q) THEN {m} ELSE {})
    BY SetsNext
<1>3. /\ x.mode = F!ModeOf(t, b, n) /\ x.body = Cardinality(BodySet(t, b, n))
      /\ Len(x.params) = Cardinality(S)
      /\ F!Parse(x.params) = ParsedIn(F!Contents(t), S)
    BY BodyIs DEF RequestIs, ParsedIn
<1>4. S \in SUBSET (1 .. n) /\ BodySet(t, b, n) \in SUBSET (1 .. n)
    BY <1>1, SetsWithin
<1>5. c[m] = r.content
    <2>1. m \in DOMAIN u
        BY <1>1
    <2> HIDE DEF u, m
    <2> QED BY <1>1, <2>1 DEF F!Contents
<1> HIDE DEF u, n, S, V, q, c
<1>6. Cardinality(V) = Len(x.params) + (IF piece THEN 1 ELSE 0)
    <2>1. piece \in BOOLEAN
        BY DEF IsPiece
    <2> HIDE DEF piece
    <2> QED BY <1>1, <1>2, <1>3, <1>4, <2>1, OneMore
<1>7. F!BodyOf(u, b, m) = x.body + (IF IsBody(r, q) THEN 1 ELSE 0)
    <2>1. IsBody(r, q) \in BOOLEAN
        BY DEF IsBody
    <2>2. Cardinality(BodySet(u, b, m)) = x.body + (IF IsBody(r, q) THEN 1 ELSE 0)
        BY <1>1, <1>2, <1>3, <1>4, <2>1, OneMore
    <2> QED BY <2>2, BodyIs
<1>8. ParsedIn(c, S) = F!Parse(x.params)
    <2>1. n <= Len(t) /\ n <= Len(u)
        BY <1>1 DEF n
    <2> HIDE DEF m
    <2> QED BY <1>1, <1>3, <1>4, <2>1, ParsedGrown DEF c
<1>9. ParsedIn(c, V) = IF piece THEN F!ParseToken(F!Parse(x.params), r.content)
                       ELSE F!Parse(x.params)
    <2>1. CASE piece
        <3> HIDE DEF piece
        <3>1. V \in SUBSET (1 .. m) /\ m \in V /\ (\A y \in V : y <= m) /\ V \ {m} = S
              /\ m \in Nat
            BY <1>1, <1>2, <1>4, <2>1
        <3> HIDE DEF m
        <3>2. ParsedIn(c, V) = F!ParseToken(ParsedIn(c, V \ {m}), c[m])
            BY <3>1, ParsedNext
        <3> QED BY <1>5, <1>8, <2>1, <3>1, <3>2
    <2>2. CASE ~piece
        <3>1. V = S
            BY <1>2, <2>2
        <3> QED BY <1>8, <2>2, <3>1
    <2> QED BY <2>1, <2>2
<1>10. F!ModeOf(u, b, m) = IF EndsParams(r, q) THEN F!Parse(x.params).mode ELSE x.mode
    <2>1. CASE EndsParams(r, q)
        <3> DEFINE E == EndSet(u, b, m)
        <3>1. E \in SUBSET (1 .. m) /\ m \in E /\ \A y \in E : y <= m
            <4>1. EndSet(t, b, n) \in SUBSET (1 .. n)
                BY <1>1, SetsWithin
            <4>2. E = EndSet(t, b, n) \cup {m}
                BY <1>2, <2>1
            <4> HIDE DEF E
            <4> QED BY <1>1, <4>1, <4>2
        <3>2. m \in Nat
            BY <1>1
        <3> HIDE DEF E, m
        <3>3. F!Max(E) = m /\ E # {}
            BY <3>1, <3>2, TopOf
        <3>4. F!ModeOf(u, b, m) = F!Selected(c, V)
            BY <3>3, ModeIs DEF E, c, V
        <3>5. ~piece
            BY <2>1 DEF EndsParams, IsPiece
        <3>6. F!Selected(c, V) = F!Parse(x.params).mode
            BY <1>9, <3>5 DEF ParsedIn
        <3> QED BY <2>1, <3>4, <3>6
    <2>2. CASE ~EndsParams(r, q)
        <3>1. EndSet(u, b, m) = EndSet(t, b, n)
            BY <1>2, <2>2
        <3>2. b \in 1 .. n /\ n \in 1 .. n /\ n <= Len(t) /\ n <= Len(u)
            BY <1>1 DEF n
        <3>3. EndSet(u, b, n) = EndSet(t, b, n) /\ F!ModeOf(u, b, n) = F!ModeOf(t, b, n)
            BY <1>1, <3>2, SetsAlike, ModeAlike
        <3>4. F!ModeOf(u, b, m) = F!ModeOf(u, b, n)
            BY <3>1, <3>3, ModeIs
        <3> QED BY <1>3, <2>2, <3>3, <3>4
    <2> QED BY <2>1, <2>2
<1> QED BY <1>6, <1>7, <1>9, <1>10 DEF u, n, m, V, q, c

\* What is collected of a request that goes on.
LEMMA CollectedNext ==
    ASSUME NEW t \in Seq(Records), NEW r \in Records, NEW q,
           NEW b \in 1 .. Len(t), NEW x \in F!Requests, NEW y \in F!Requests,
           F!StartOf(t, q, Len(t) + 1) = {b}, RequestIs(x, t, b, Len(t)),
           ~(r.id = q /\ (r.type = "begin" \/ F!IsEnd(r))),
           y.keep = x.keep,
           y.mode = IF EndsParams(r, q) THEN F!Parse(x.params).mode ELSE x.mode,
           y.body = x.body + (IF IsBody(r, q) THEN 1 ELSE 0), y.body <= MaxRequest,
           Len(y.params) = Len(x.params) + (IF IsPiece(r, q) THEN 1 ELSE 0),
           Len(y.params) <= MaxRequest,
           F!Parse(y.params) = IF IsPiece(r, q) THEN F!ParseToken(F!Parse(x.params), r.content)
                               ELSE F!Parse(x.params)
    PROVE  CollectedIs(q, y, Append(t, r))
<1> DEFINE u == Append(t, r)
           n == Len(t)
           m == n + 1
           V == F!ParamsOf(u, b, m)
<1>1. /\ n \in Nat /\ (\A j \in 1 .. n : u[j] = t[j]) /\ b \in 1 .. n
      /\ u \in Seq(Records) /\ Len(u) = m
    BY Grown
<1>2. t[b].id = q
    <2>1. b \in F!StartOf(t, q, m)
        OBVIOUS
    <2> HIDE DEF m
    <2> QED BY <2>1 DEF F!StartOf
<1>3. /\ Cardinality(V) = Len(y.params) /\ F!BodyOf(u, b, m) = y.body
      /\ ParsedIn(F!Contents(u), V) = F!Parse(y.params) /\ F!ModeOf(u, b, m) = y.mode
    BY <1>2, RequestNext
<1>4. F!StartOf(u, q, m + 1) = {b}
    <2> DEFINE S == F!StartOf(u, q, m + 1)
               R == F!StartOf(t, q, m)
    <2>1. /\ S \in SUBSET (1 .. m) /\ m \notin S
          /\ \A k \in 1 .. n : k \in S <=> k \in R
        BY StartNext
    <2>2. R = {b} /\ \A k \in 1 .. m : k \in 1 .. n \/ k = m
        BY <1>1
    <2> HIDE DEF S, R, m
    <2>3. S = {b}
        BY <1>1, <2>1, <2>2
    <2> QED BY <2>3 DEF S
<1>5. u[b] = t[b] /\ y.keep = (t[b].content = "keep")
    BY <1>1 DEF RequestIs
<1> HIDE DEF V
<1>6. RequestIs(y, u, b, m)
    <2> HIDE DEF u, m
    <2> QED BY <1>3, <1>5 DEF RequestIs, ParsedIn, V
<1>7. b \in 1 .. m /\ y # NoRequest
    BY <1>1, RequestAssumption
<1> HIDE DEF u, m
<1> QED BY <1>1, <1>4, <1>6, <1>7 DEF CollectedIs, u


\* The records of one request leave the others as they were.
LEMMA CollectedStays ==
    ASSUME NEW t \in Seq(Records), NEW r \in Records, NEW q,
           NEW x \in F!Requests \cup {NoRequest}, CollectedIs(q, x, t),
           r.id # q \/ r.type = "other"
    PROVE  CollectedIs(q, x, Append(t, r))
<1> DEFINE u == Append(t, r)
           n == Len(t)
           m == n + 1
<1>1. ~(r.id = q /\ (r.type = "begin" \/ F!IsEnd(r)))
    BY KindIs
<1>2. ~IsPiece(r, q) /\ ~EndsParams(r, q) /\ ~IsBody(r, q)
    BY KindIs
<1>3. CASE x = NoRequest
    <2> DEFINE S == F!StartOf(u, q, m + 1)
               R == F!StartOf(t, q, m)
    <2>1. /\ S \in SUBSET (1 .. m) /\ m \notin S
          /\ \A k \in 1 .. n : k \in S <=> k \in R
        BY <1>1, StartNext
    <2>2. R = {} /\ n \in Nat /\ \A k \in 1 .. m : k \in 1 .. n \/ k = m
        BY <1>3 DEF CollectedIs
    <2> HIDE DEF S, R, m
    <2>3. S = {}
        BY <2>1, <2>2
    <2>4. Len(u) = m
        BY Grown DEF m
    <2> HIDE DEF u
    <2> QED BY <1>3, <2>3, <2>4 DEF CollectedIs, S, u
<1>4. CASE x # NoRequest
    <2>1. PICK b \in 1 .. Len(t) : F!StartOf(t, q, Len(t) + 1) = {b} /\ RequestIs(x, t, b, Len(t))
        BY <1>4 DEF CollectedIs
    <2>2. x \in F!Requests
        BY <1>4
    <2>3. x.body \in Nat /\ Len(x.params) \in Nat
        BY <2>2 DEF F!Requests
    <2>4. x.body <= MaxRequest /\ Len(x.params) <= MaxRequest
        BY <2>1 DEF RequestIs
    <2>5. x.mode = IF EndsParams(r, q) THEN F!Parse(x.params).mode ELSE x.mode
        BY <1>2
    <2>6. x.body = x.body + (IF IsBody(r, q) THEN 1 ELSE 0)
        BY <1>2, <2>3
    <2>7. Len(x.params) = Len(x.params) + (IF IsPiece(r, q) THEN 1 ELSE 0)
        BY <1>2, <2>3
    <2>8. F!Parse(x.params) = IF IsPiece(r, q) THEN F!ParseToken(F!Parse(x.params), r.content)
                              ELSE F!Parse(x.params)
        BY <1>2
    <2> HIDE DEF u, n, m
    <2> QED BY <1>1, <2>1, <2>2, <2>4, <2>5, <2>6, <2>7, <2>8, CollectedNext
<1> QED BY <1>3, <1>4

\* A request that has ended is open no more.
LEMMA CollectedEnds ==
    ASSUME NEW t \in Seq(Records), NEW r \in Records, F!IsEnd(r)
    PROVE  CollectedIs(r.id, NoRequest, Append(t, r))
<1> DEFINE u == Append(t, r)
           n == Len(t)
           m == n + 1
           S == F!StartOf(u, r.id, m + 1)
<1>1. /\ S \in SUBSET (1 .. m) /\ (m \in S <=> r.type = "begin")
      /\ \A k \in 1 .. n : k \notin S
    BY StartNext
<1>2. r.type # "begin"
    BY KindIs
<1>3. n \in Nat /\ Len(u) = m /\ \A k \in 1 .. m : k \in 1 .. n \/ k = m
    BY Grown
<1> HIDE DEF S, m
<1>4. S = {}
    BY <1>1, <1>2, <1>3
<1> HIDE DEF u
<1> QED BY <1>3, <1>4 DEF CollectedIs, S, u

LEMMA ParseNothing == F!Parse(<<>>) = [mode |-> "normal", value |-> FALSE]
<1>1. F!Parse(<<>>) = ParsedIn(<<>>, 1 .. 0)
    <2>1. DOMAIN <<>> = 1 .. 0 /\ 0 \in Nat
        OBVIOUS
    <2> QED BY <2>1, ParseGives
<1>2. 1 .. 0 = {}
    OBVIOUS
<1> QED BY <1>1, <1>2, ParsedNone

\* A request that begins has nothing yet.
LEMMA CollectedBegins ==
    ASSUME NEW t \in Seq(Records), NEW r \in Records, r.type = "begin",
           r.content \in {"keep", "close"}, F!StartOf(t, r.id, Len(t) + 1) = {}
    PROVE  F!New(r.content) \in F!Requests /\ CollectedIs(r.id, F!New(r.content), Append(t, r))
<1> DEFINE u == Append(t, r)
           n == Len(t)
           m == n + 1
           S == F!StartOf(u, r.id, m + 1)
           x == F!New(r.content)
<1>1. x = [keep |-> r.content = "keep", params |-> <<>>, body |-> 0, mode |-> "normal"]
    BY DEF F!New
<1>2. x \in F!Requests
    <2> HIDE DEF x
    <2> QED BY <1>1 DEF F!Requests, F!Modes
<1>3. /\ S \in SUBSET (1 .. m) /\ m \in S
      /\ \A k \in 1 .. n : k \notin S
    BY StartNext
<1>4. n \in Nat /\ Len(u) = m /\ u[m] = r /\ \A k \in 1 .. m : k \in 1 .. n \/ k = m
    BY Grown
<1>5. S = {m}
    <2> HIDE DEF S, m
    <2> QED BY <1>3, <1>4
<1>6. \A k : k \in m .. m <=> k = m
    BY <1>4
<1> HIDE DEF u, m, S, x
<1>7. F!ParamsOf(u, m, m) = {} /\ BodySet(u, m, m) = {} /\ EndSet(u, m, m) = {}
    <2> DEFINE q == u[m].id
    <2>1. ~EndsParams(r, q) /\ ~IsBody(r, q) /\ r.type # "params"
        BY KindIs
    <2> HIDE DEF q
    <2>2. EndSet(u, m, m) = {} /\ BodySet(u, m, m) = {}
        BY <1>4, <1>6, <2>1 DEF BodySet, EndSet, EndsParams, IsBody, q
    <2>3. F!ParamsOf(u, m, m) = {}
        BY <1>4, <1>6, <2>1 DEF F!ParamsOf
    <2> QED BY <2>2, <2>3
<1>8. F!BodyOf(u, m, m) = 0 /\ F!ModeOf(u, m, m) = "normal" /\ Cardinality({}) = 0
    BY <1>7, BodyIs, ModeIs, FS_EmptySet
<1>9. F!Parse(x.params) = ParsedIn(F!Contents(u), {}) /\ Len(x.params) = 0
    BY <1>1, ParseNothing, ParsedNone
<1>10. MaxRequest \in Nat
    BY LimitAssumption
<1>11. RequestIs(x, u, m, m)
    BY <1>1, <1>4, <1>7, <1>8, <1>9, <1>10 DEF RequestIs, ParsedIn
<1>12. x # NoRequest /\ m \in 1 .. m
    <2>1. m \in 1 .. m
        BY <1>4 DEF m
    <2> QED BY <1>2, <2>1, RequestAssumption
<1>13. CollectedIs(r.id, x, u)
    BY <1>4, <1>5, <1>11, <1>12 DEF CollectedIs, S
<1> QED BY <1>2, <1>13 DEF x, u

-----------------------------------------------------------------------------
(* Which record is at fault *)

LEMMA FaultNone ==
    ASSUME NEW t \in Seq(Records), NEW r \in Records,
           F!StartOf(t, r.id, Len(t) + 1) = {}
    PROVE  F!AtFault(Append(t, r), Len(t) + 1) <=> r.type # "begin"
<1> DEFINE u == Append(t, r)
           n == Len(t)
           m == n + 1
<1>1. n \in Nat /\ u[m] = r /\ \A j \in 1 .. n : u[j] = t[j]
    BY Grown
<1>2. F!StartOf(u, r.id, m) = F!StartOf(t, r.id, m)
    BY StartGrown
<1>3. F!StartOf(u, u[m].id, m) = {}
    BY <1>1, <1>2
<1>4. F!AtFault(u, m) <=> \/ u[m].type = "invalid"
                          \/ (u[m].type = "begin") = (F!StartOf(u, u[m].id, m) # {})
                          \/ /\ F!StartOf(u, u[m].id, m) # {}
                             /\ F!AtFault(u, m)
    <2> HIDE DEF u, m
    <2> QED BY DEF F!AtFault
<1> HIDE DEF u, m
<1> QED BY <1>1, <1>3, <1>4 DEF u, m

LEMMA MaxOne ==
    ASSUME NEW n \in Nat, NEW b \in 1 .. n
    PROVE  F!Max({b}) = b
<1>1. {b} \in SUBSET (1 .. n)
    OBVIOUS
<1>2. F!Max({b}) \in {b}
    BY <1>1, TopIs
<1> QED BY <1>2

\* The begin of the request that a record is of.
LEMMA BeginIs ==
    ASSUME NEW t \in Seq(Records), NEW r \in Records, NEW b \in 1 .. Len(t),
           F!StartOf(t, r.id, Len(t) + 1) = {b}
    PROVE  /\ F!StartOf(Append(t, r), r.id, Len(t) + 1) = {b}
           /\ Append(t, r)[b] = t[b] /\ t[b].id = r.id /\ t[b].content \in {"keep", "close"}
<1> DEFINE u == Append(t, r)
           n == Len(t)
           m == n + 1
<1>1. n \in Nat /\ (\A j \in 1 .. n : u[j] = t[j]) /\ b \in 1 .. n /\ t[b] \in Records
    BY Grown
<1>2. F!StartOf(u, r.id, m) = {b} /\ F!StartOf(t, r.id, m) = {b}
    <2>1. F!StartOf(u, r.id, m) = F!StartOf(t, r.id, m)
        BY StartGrown
    <2> HIDE DEF u
    <2> QED BY <2>1
<1>3. t[b].id = r.id /\ t[b].type = "begin" /\ u[b] = t[b]
    <2>1. b \in F!StartOf(t, r.id, m)
        BY <1>2
    <2> HIDE DEF m
    <2> QED BY <1>1, <2>1 DEF F!StartOf
<1>4. t[b].content \in {"keep", "close"}
    BY <1>1, <1>3 DEF Records
<1> QED BY <1>2, <1>3, <1>4

\* What is meant at the end of a body is the answer to what is collected.
LEMMA EndMeans ==
    ASSUME NEW t \in Seq(Records), NEW r \in Records, NEW b \in 1 .. Len(t),
           NEW x \in F!Requests, F!StartOf(t, r.id, Len(t) + 1) = {b},
           RequestIs(x, t, b, Len(t)), EndsBody(r)
    PROVE  F!Meant(Append(t, r), Len(t) + 1) = F!Answer(r.id, x)
<1> DEFINE u == Append(t, r)
           m == Len(t) + 1
           q == r.id
<1>1. /\ F!StartOf(u, q, m) = {b} /\ F!Max({b}) = b /\ u[b] = t[b] /\ t[b].id = q
    <2>1. F!Max({b}) = b
        BY MaxOne
    <2>2. F!StartOf(u, r.id, m) = {b} /\ u[b] = t[b] /\ t[b].id = r.id
        BY BeginIs
    <2> QED BY <2>1, <2>2
<1>2. u[m] = r
    BY Grown
<1>3. x.keep = (t[b].content = "keep")
    BY DEF RequestIs
<1>4. ~EndsParams(r, q) /\ ~IsBody(r, q) /\ x.body \in Nat
    BY KindIs DEF F!Requests
<1>5. F!ModeOf(u, b, m) = x.mode /\ F!BodyOf(u, b, m) = x.body
    <2>1. LET k == t[b].id IN
          /\ F!BodyOf(u, b, m) = x.body + (IF IsBody(r, k) THEN 1 ELSE 0)
          /\ F!ModeOf(u, b, m) = IF EndsParams(r, k) THEN F!Parse(x.params).mode ELSE x.mode
        BY RequestNext
    <2>2. (IF IsBody(r, t[b].id) THEN 1 ELSE 0) = 0 /\ ~EndsParams(r, t[b].id)
        BY <1>1, <1>4
    <2> DEFINE k == F!BodyOf(u, b, m)
               e == IF IsBody(r, t[b].id) THEN 1 ELSE 0
    <2>3. k = x.body + e /\ e = 0 /\ x.body \in Nat
        BY <1>4, <2>1, <2>2
    <2> HIDE DEF u, m, q, k, e
    <2>4. k = x.body
        BY <2>3
    <2> QED BY <2>1, <2>2, <2>4 DEF k
<1> HIDE DEF u, m, q
<1>6. F!Meant(u, m) = F!Answer(q, [keep |-> x.keep, mode |-> F!ModeOf(u, b, m),
                                   body |-> F!BodyOf(u, b, m)])
    BY <1>1, <1>2, <1>3 DEF F!Meant, q
<1>7. F!Meant(u, m) = F!Answer(q, x)
    BY <1>5, <1>6 DEF F!Answer, F!Echo
<1> QED BY <1>7 DEF u, m, q

LEMMA FaultOpen ==
    ASSUME NEW t \in Seq(Records), NEW r \in Records, NEW b \in 1 .. Len(t),
           NEW x \in F!Requests, F!StartOf(t, r.id, Len(t) + 1) = {b},
           RequestIs(x, t, b, Len(t))
    PROVE  F!AtFault(Append(t, r), Len(t) + 1) <=>
               \/ r.type \in {"invalid", "begin"}
               \/ Len(x.params) + (IF IsPiece(r, r.id) THEN 1 ELSE 0) > MaxRequest
               \/ x.body + (IF IsBody(r, r.id) THEN 1 ELSE 0) > MaxRequest
               \/ EndsParams(r, r.id) /\ F!Parse(x.params).value
               \/ EndsBody(r) /\ F!Answer(r.id, x).echo >= MaxContent
<1> DEFINE u == Append(t, r)
           m == Len(t) + 1
           q == r.id
           V == F!ParamsOf(u, b, m)
<1>1. /\ F!StartOf(u, q, m) = {b} /\ F!Max({b}) = b /\ u[b] = t[b] /\ t[b].id = q
    <2>1. F!Max({b}) = b
        BY MaxOne
    <2>2. F!StartOf(u, r.id, m) = {b} /\ u[b] = t[b] /\ t[b].id = r.id
        BY BeginIs
    <2> QED BY <2>1, <2>2
<1>2. u[m] = r
    BY Grown
<1>3. /\ Cardinality(V) = Len(x.params) + (IF IsPiece(r, q) THEN 1 ELSE 0)
      /\ F!BodyOf(u, b, m) = x.body + (IF IsBody(r, q) THEN 1 ELSE 0)
      /\ ParsedIn(F!Contents(u), V) = IF IsPiece(r, q)
                                      THEN F!ParseToken(F!Parse(x.params), r.content)
                                      ELSE F!Parse(x.params)
    <2>1. LET k == t[b].id IN
          /\ Cardinality(V) = Len(x.params) + (IF IsPiece(r, k) THEN 1 ELSE 0)
          /\ F!BodyOf(u, b, m) = x.body + (IF IsBody(r, k) THEN 1 ELSE 0)
          /\ ParsedIn(F!Contents(u), V) = IF IsPiece(r, k)
                                          THEN F!ParseToken(F!Parse(x.params), r.content)
                                          ELSE F!Parse(x.params)
        BY RequestNext
    <2> HIDE DEF u, m, q, V
    <2> QED BY <1>1, <2>1
<1>4. ASSUME EndsBody(r) PROVE F!Meant(u, m) = F!Answer(q, x)
    BY <1>4, EndMeans
<1> HIDE DEF u, m, q, V
<1>5. F!AtFault(u, m) <=>
          \/ r.type \in {"invalid", "begin"}
          \/ Cardinality(V) > MaxRequest \/ F!BodyOf(u, b, m) > MaxRequest
          \/ r.type = "params" /\ r.content = "" /\ F!ExpectsValue(F!Contents(u), V)
          \/ EndsBody(r) /\ F!Meant(u, m).echo >= MaxContent
    <2>1. F!Cardinality(V) = Cardinality(V)
        BY SameCount
    <2> QED BY <1>1, <1>2, <2>1 DEF F!AtFault, EndsBody, q, V
<1>6. r.type = "params" /\ r.content = "" <=> EndsParams(r, q)
    BY PartsAre DEF q
<1>7. EndsParams(r, q) => (F!ExpectsValue(F!Contents(u), V) <=> F!Parse(x.params).value)
    <2>1. EndsParams(r, q) => ~IsPiece(r, q)
        BY KindIs
    <2>2. ParsedIn(F!Contents(u), V).value = F!ExpectsValue(F!Contents(u), V)
        BY DEF ParsedIn
    <2> QED BY <1>3, <2>1, <2>2
<1>8. F!AtFault(u, m) <=>
           \/ r.type \in {"invalid", "begin"}
           \/ Len(x.params) + (IF IsPiece(r, q) THEN 1 ELSE 0) > MaxRequest
           \/ x.body + (IF IsBody(r, q) THEN 1 ELSE 0) > MaxRequest
           \/ EndsParams(r, q) /\ F!Parse(x.params).value
           \/ EndsBody(r) /\ F!Answer(q, x).echo >= MaxContent
    BY <1>3, <1>4, <1>5, <1>6, <1>7
<1> QED BY <1>8 DEF u, m, q

-----------------------------------------------------------------------------
(* The answers *)

LEMMA FinishedNext ==
    ASSUME NEW t \in Seq(Records), NEW r \in Records, NEW p
    PROVE  FinishedIn(Append(t, r), p) = FinishedIn(t, "reading") \cup
               (IF EndsBody(r) /\ p # "failed" THEN {Len(t) + 1} ELSE {})
<1> DEFINE u == Append(t, r)
           n == Len(t)
           m == n + 1
           c == EndsBody(r) /\ p # "failed"
           D == FinishedIn(u, p)
           E == FinishedIn(t, "reading")
<1>1. /\ n \in Nat /\ u[m] = r /\ (\A j \in 1 .. n : u[j] = t[j]) /\ Len(u) = m
      /\ DOMAIN u = 1 .. m /\ DOMAIN t = 1 .. n
    BY Grown
<1>2. \A k : k \in 1 .. m <=> k \in 1 .. n \/ k = m
    BY <1>1
<1>3. \A k \in 1 .. n : k # m
    BY <1>1
<1>4. D \subseteq 1 .. m /\ E \subseteq 1 .. n
    <2> HIDE DEF u, m, n
    <2> QED BY <1>1 DEF FinishedIn
<1>5. \A k \in 1 .. n : k \in D <=> k \in E
    <2> HIDE DEF u, m, n
    <2> QED BY <1>1, <1>2, <1>3 DEF FinishedIn
<1>6. m \in D <=> c
    <2> HIDE DEF u, m, n
    <2> QED BY <1>1, <1>2 DEF FinishedIn
<1> HIDE DEF D, E, c, m, u
<1>7. D = E \cup (IF c THEN {m} ELSE {})
    BY <1>2, <1>3, <1>4, <1>5, <1>6
<1> QED BY <1>7 DEF D, E, c, m, u

LEMMA FinishedWithin ==
    ASSUME NEW t \in Seq(Records), NEW p
    PROVE  /\ Len(t) \in Nat /\ FinishedIn(t, p) \in SUBSET (1 .. Len(t))
           /\ IsFiniteSet(FinishedIn(t, p))
<1>1. Len(t) \in Nat /\ DOMAIN t = 1 .. Len(t)
    OBVIOUS
<1>2. FinishedIn(t, p) \in SUBSET (1 .. Len(t))
    BY <1>1 DEF FinishedIn
<1> QED BY <1>1, <1>2, SomeFinite

\* A record more leaves the answers to what has ended before it as they are.
LEMMA MeantBefore ==
    ASSUME NEW t, NEW w, NEW x, FcgiIs("reading", t, w, x), NEW r \in Records,
           NEW i \in FinishedIn(t, "reading")
    PROVE  LET u == Append(t, r)
               b == F!Max(F!StartOf(u, u[i].id, i))
           IN /\ i \in 1 .. Len(t) /\ F!StartOf(u, u[i].id, i) # {}
              /\ F!Meant(u, i) = F!Meant(t, i)
              /\ F!Meant(u, i).ended /\ u[b].content # "close"
<1> DEFINE u == Append(t, r)
           n == Len(t)
           b == F!Max(F!StartOf(t, t[i].id, i))
<1>1. t \in Seq(Records) /\ F!StartOf(t, t[i].id, i) # {} /\ EndedAs(t, "reading")
    BY DEF FcgiIs
<1>2. /\ n \in Nat /\ (\A j \in 1 .. n : u[j] = t[j]) /\ Len(u) = n + 1
      /\ u \in Seq(Records)
    BY <1>1, Grown
<1>3. i \in 1 .. n
    BY <1>1, FinishedWithin
<1>4. n <= Len(t) /\ n <= Len(u)
    BY <1>2
<1>5. F!Meant(t, i).ended /\ t[b].content # "close"
    BY <1>1 DEF EndedAs
<1> HIDE DEF u, n
<1>6. /\ F!StartOf(u, u[i].id, i) = F!StartOf(t, t[i].id, i)
      /\ F!Meant(u, i) = F!Meant(t, i) /\ u[b] = t[b]
    <2>1. t \in Seq(Records) /\ F!StartOf(t, t[i].id, i) # {}
        BY <1>1
    <2> HIDE DEF b
    <2>2. LET c == F!Max(F!StartOf(t, t[i].id, i)) IN
          /\ F!StartOf(u, u[i].id, i) = F!StartOf(t, t[i].id, i)
          /\ F!Meant(u, i) = F!Meant(t, i) /\ u[c] = t[c] /\ c \in 1 .. i - 1
        BY <2>1, <1>2, <1>3, <1>4, MeantAlike
    <2> QED BY <2>2 DEF b
<1> QED BY <1>1, <1>3, <1>5, <1>6 DEF u, n

\* A handler that gives up at a record at fault.
LEMMA FailedIs ==
    ASSUME NEW t, NEW w, NEW x, FcgiIs("reading", t, w, x), NEW r \in Records,
           F!AtFault(Append(t, r), Len(t) + 1)
    PROVE  FcgiIs("failed", Append(t, r), w, x)
<1> DEFINE u == Append(t, r)
           D == FinishedIn(u, "failed")
<1>1. t \in Seq(Records) /\ Answered(t, "reading", w)
    BY DEF FcgiIs
<1>2. /\ Len(t) \in Nat /\ Len(u) = Len(t) + 1 /\ u \in Seq(Records)
      /\ u # <<>>
    BY <1>1, Grown
<1>3. D = FinishedIn(t, "reading")
    BY <1>1, FinishedNext
<1>4. \A i \in D : /\ i \in 1 .. Len(t) /\ F!StartOf(u, u[i].id, i) # {}
                   /\ F!Meant(u, i) = F!Meant(t, i) /\ F!Meant(u, i).ended
                   /\ u[F!Max(F!StartOf(u, u[i].id, i))].content # "close"
    BY <1>3, MeantBefore
<1> HIDE DEF u, D
<1>5. Answered(u, "failed", w)
    BY <1>1, <1>3, <1>4 DEF Answered, D
<1>6. EndedAs(u, "failed")
    BY <1>2, <1>4 DEF EndedAs, D, u
<1>7. FcgiIs("failed", u, w, x)
    BY <1>2, <1>4, <1>5, <1>6 DEF FcgiIs, D
<1> QED BY <1>7 DEF u

\* One that goes on after a record that ends no body.
LEMMA ReadingIs ==
    ASSUME NEW t, NEW w, NEW x, FcgiIs("reading", t, w, x), NEW r \in Records,
           ~F!AtFault(Append(t, r), Len(t) + 1), ~EndsBody(r),
           NEW y \in [Ids -> F!Requests \cup {NoRequest}],
           \A q \in Ids : CollectedIs(q, y[q], Append(t, r))
    PROVE  FcgiIs("reading", Append(t, r), w, y)
<1> DEFINE u == Append(t, r)
           D == FinishedIn(u, "reading")
<1>1. t \in Seq(Records) /\ Answered(t, "reading", w)
    BY DEF FcgiIs
<1>2. Len(t) \in Nat /\ Len(u) = Len(t) + 1 /\ u \in Seq(Records)
    BY <1>1, Grown
<1>3. D = FinishedIn(t, "reading")
    BY <1>1, FinishedNext
<1>4. \A i \in D : /\ i \in 1 .. Len(t) /\ F!StartOf(u, u[i].id, i) # {}
                   /\ F!Meant(u, i) = F!Meant(t, i) /\ F!Meant(u, i).ended
                   /\ u[F!Max(F!StartOf(u, u[i].id, i))].content # "close"
    BY <1>3, MeantBefore
<1> HIDE DEF D
<1>5. Answered(u, "reading", w)
    <2> HIDE DEF u
    <2> QED BY <1>1, <1>3, <1>4 DEF Answered, D
<1>6. EndedAs(u, "reading")
    <2>1. ~F!AtFault(u, Len(u))
        BY <1>2
    <2> HIDE DEF u
    <2> QED BY <1>4, <2>1 DEF EndedAs, D
<1>7. \A q \in Ids : CollectedIs(q, y[q], u)
    OBVIOUS
<1> HIDE DEF u
<1>8. FcgiIs("reading", u, w, y)
    BY <1>2, <1>4, <1>5, <1>6, <1>7 DEF FcgiIs, D
<1> QED BY <1>8 DEF u

\* One whose peer has ended.
LEMMA GoneIs ==
    ASSUME NEW t, NEW w, NEW x, FcgiIs("reading", t, w, x)
    PROVE  FcgiIs("gone", t, w, x)
<1>1. FinishedIn(t, "gone") = FinishedIn(t, "reading")
    BY DEF FinishedIn
<1>2. Answered(t, "gone", w) /\ EndedAs(t, "gone")
    BY <1>1 DEF FcgiIs, Answered, EndedAs
<1> QED BY <1>1, <1>2 DEF FcgiIs

LEMMA Beyond ==
    ASSUME NEW n \in Nat, NEW E \in SUBSET (1 .. n)
    PROVE  /\ n + 1 \notin E /\ (E \cup {n + 1}) \cap (1 .. n + 1) = E \cup {n + 1}
           /\ \A i \in E : /\ i \in 1 .. n /\ i # n + 1 /\ i \in 1 .. i
                           /\ (E \cup {n + 1}) \cap (1 .. i) = E \cap (1 .. i)
<1> DEFINE m == n + 1
<1>1. m \notin 1 .. n /\ m \in 1 .. m /\ \A i \in 1 .. n : i \in 1 .. m
    OBVIOUS
<1>2. \A i \in 1 .. n : i \in 1 .. i /\ m \notin 1 .. i
    OBVIOUS
<1> HIDE DEF m
<1>3. m \notin E
    BY <1>1
<1>4. (E \cup {m}) \cap (1 .. m) = E \cup {m}
    BY <1>1
<1>5. \A i \in E : i \in 1 .. n /\ i # m /\ i \in 1 .. i
    BY <1>1, <1>2
<1>6. \A i \in E : (E \cup {m}) \cap (1 .. i) = E \cap (1 .. i)
    BY <1>2
<1> QED BY <1>3, <1>4, <1>5, <1>6 DEF m

\* The place of an answer is the number of bodies that have ended.
LEMMA CountMore ==
    ASSUME NEW n \in Nat, NEW E \in SUBSET (1 .. n)
    PROVE  LET D == E \cup {n + 1} IN
           /\ Cardinality(E) \in Nat /\ Cardinality(D) = Cardinality(E) + 1
           /\ D \cap (1 .. n + 1) = D
           /\ \A i \in E : /\ D \cap (1 .. i) = E \cap (1 .. i)
                           /\ Cardinality(E \cap (1 .. i)) \in 1 .. Cardinality(E)
<1> DEFINE m == n + 1
           D == E \cup {m}
<1>1. IsFiniteSet(E) /\ Cardinality(E) \in Nat
    BY SomeFinite
<1>2. /\ m \notin E /\ D \cap (1 .. m) = D
      /\ \A i \in E : D \cap (1 .. i) = E \cap (1 .. i) /\ i \in 1 .. i
    BY Beyond
<1> HIDE DEF m
<1>3. Cardinality(D) = Cardinality(E) + 1
    BY <1>1, <1>2, FS_AddElement
<1>4. ASSUME NEW i \in E PROVE Cardinality(E \cap (1 .. i)) \in 1 .. Cardinality(E)
    <2> DEFINE S == E \cap (1 .. i)
    <2>1. S \in SUBSET E /\ i \in S
        BY <1>2
    <2> HIDE DEF S
    <2>2. IsFiniteSet(S) /\ Cardinality(S) <= Cardinality(E)
        BY <1>1, <2>1, FS_Subset
    <2>3. Cardinality(S) \in Nat
        BY <2>2, FS_CardinalityType
    <2>4. Cardinality(S) # 0
        BY <2>1, <2>2, FS_EmptySet
    <2>5. Cardinality(S) \in 1 .. Cardinality(E)
        BY <1>1, <2>2, <2>3, <2>4
    <2> QED BY <2>5 DEF S
<1> HIDE DEF D
<1> QED BY <1>1, <1>2, <1>3, <1>4 DEF D, m

LEMMA SentMore ==
    ASSUME NEW w \in Seq(Answers), NEW a \in Answers
    PROVE  /\ Append(w, a) \in Seq(Answers) /\ Len(Append(w, a)) = Len(w) + 1
           /\ Append(w, a)[Len(w) + 1] = a
           /\ \A j \in 1 .. Len(w) : Append(w, a)[j] = w[j]
OBVIOUS

\* One that has answered.
LEMMA AnsweredIs ==
    ASSUME NEW t, NEW w, NEW x, FcgiIs("reading", t, w, x), NEW r \in Records,
           ~F!AtFault(Append(t, r), Len(t) + 1), EndsBody(r),
           NEW y \in [Ids -> F!Requests \cup {NoRequest}],
           \A q \in Ids : CollectedIs(q, y[q], Append(t, r)),
           NEW a \in Answers, NEW p \in {"reading", "closed"}, NEW b,
           F!StartOf(Append(t, r), r.id, Len(t) + 1) = {b}, b \in 1 .. Len(t),
           F!Meant(Append(t, r), Len(t) + 1) = a,
           p = "closed" <=> (~a.ended \/ Append(t, r)[b].content = "close")
    PROVE  FcgiIs(p, Append(t, r), Append(w, a), y)
<1> DEFINE u == Append(t, r)
           n == Len(t)
           m == n + 1
           D == FinishedIn(u, p)
           E == FinishedIn(t, "reading")
           v == Append(w, a)
<1>1. t \in Seq(Records) /\ Answered(t, "reading", w) /\ w \in Seq(Answers)
    BY DEF FcgiIs
<1>2. n \in Nat /\ Len(u) = m /\ u \in Seq(Records) /\ u[m] = r
    BY <1>1, Grown
<1>3. D = E \cup {m}
    BY <1>1, FinishedNext
<1>4. \A i \in E : /\ i \in 1 .. n /\ F!StartOf(u, u[i].id, i) # {}
                   /\ F!Meant(u, i) = F!Meant(t, i) /\ F!Meant(u, i).ended
                   /\ u[F!Max(F!StartOf(u, u[i].id, i))].content # "close"
    BY MeantBefore
<1>5. E \in SUBSET (1 .. n) /\ IsFiniteSet(E) /\ Cardinality(E) = Len(w)
      /\ \A i \in E : w[Cardinality(E \cap (1 .. i))] = F!Meant(t, i)
    BY <1>1, FinishedWithin DEF Answered
<1>6. F!StartOf(u, u[m].id, m) = {b} /\ F!Max({b}) = b
    <2>1. {b} \in SUBSET (1 .. n)
        OBVIOUS
    <2>2. F!Max({b}) \in {b}
        <3> HIDE DEF n
        <3> QED BY <1>2, <2>1, TopIs
    <2> QED BY <1>2, <2>2
<1>7. /\ F!Meant(u, m) = a /\ ~F!AtFault(u, Len(u))
      /\ p = "closed" <=> (~a.ended \/ u[b].content = "close")
      /\ \A q \in Ids : CollectedIs(q, y[q], u)
    BY <1>2
<1> HIDE DEF E, n, u, D
<1>8. /\ v \in Seq(Answers) /\ Len(v) = Cardinality(E \cup {m})
      /\ v[Cardinality((E \cup {m}) \cap (1 .. m))] = a
      /\ \A i \in E : v[Cardinality((E \cup {m}) \cap (1 .. i))] = w[Cardinality(E \cap (1 .. i))]
    <2>1. n \in Nat /\ E \in SUBSET (1 .. n) /\ Cardinality(E) = Len(w)
        BY <1>2, <1>5
    <2> DEFINE C == E \cup {m}
    <2>2. /\ Cardinality(E) \in Nat /\ Cardinality(C) = Cardinality(E) + 1
          /\ C \cap (1 .. m) = C
          /\ \A i \in E : /\ C \cap (1 .. i) = E \cap (1 .. i)
                          /\ Cardinality(E \cap (1 .. i)) \in 1 .. Cardinality(E)
        BY <2>1, CountMore
    <2>3. /\ v \in Seq(Answers) /\ Len(v) = Len(w) + 1 /\ v[Len(w) + 1] = a
          /\ \A j \in 1 .. Len(w) : v[j] = w[j]
        BY <1>1, SentMore
    <2> HIDE DEF v, m, C
    <2>4. /\ v \in Seq(Answers) /\ Len(v) = Cardinality(C)
          /\ v[Cardinality(C \cap (1 .. m))] = a
          /\ \A i \in E : v[Cardinality(C \cap (1 .. i))] = w[Cardinality(E \cap (1 .. i))]
        BY <2>1, <2>2, <2>3
    <2> QED BY <2>4 DEF C
<1>9. m \notin E /\ \A i \in E : i # m
    BY <1>2, <1>5, Beyond
<1> HIDE DEF u, D, v, m
<1>10. Answered(u, p, v)
    <2>1. \A i \in E : v[Cardinality(D \cap (1 .. i))] = F!Meant(u, i)
        BY <1>3, <1>4, <1>5, <1>8
    <2> QED BY <1>3, <1>7, <1>8, <2>1 DEF Answered, D
<1>11. EndedAs(u, p)
    <2>1. m \in D /\ Len(u) = m /\ p # "failed"
        BY <1>2, <1>3
    <2>2. ASSUME NEW i \in D
          PROVE  (p = "closed" /\ i = Len(u)) <=>
                     \/ ~F!Meant(u, i).ended
                     \/ u[F!Max(F!StartOf(u, u[i].id, i))].content = "close"
        <3>1. CASE i = m
            BY <1>6, <1>7, <2>1, <3>1
        <3>2. CASE i \in E
            BY <1>4, <1>9, <2>1, <3>2
        <3> QED BY <1>3, <3>1, <3>2
    <2> QED BY <1>7, <2>1, <2>2 DEF EndedAs, D
<1>12. \A i \in D : F!StartOf(u, u[i].id, i) # {}
    <2> QED BY <1>3, <1>4, <1>6
<1>13. FcgiIs(p, u, v, y)
    BY <1>2, <1>7, <1>8, <1>10, <1>11, <1>12 DEF FcgiIs, D
<1> QED BY <1>13 DEF u, v

-----------------------------------------------------------------------------
(* The steps of a FastCGI handler *)

LEMMA RecordIs ==
    ASSUME NEW r \in Records, NEW q, r.id = q
    PROVE  /\ EndsParams(r, q) <=> r.type = "params" /\ r.content = ""
           /\ IsBody(r, q) <=> r.type = "stdin" /\ r.content = "data"
           /\ IsPiece(r, q) <=> r.type = "params" /\ r.content # ""
           /\ EndsBody(r) <=> r.type = "stdin" /\ r.content = ""
           /\ F!IsEnd(r) <=> r.type = "abort" \/ EndsBody(r)
BY PartsAre DEF IsPiece, EndsBody

LEMMA OpenIs ==
    ASSUME NEW t, NEW w, NEW x, FcgiIs("reading", t, w, x), NEW q \in Ids, x[q] # NoRequest
    PROVE  /\ x[q] \in F!Requests /\ x[q].body <= MaxRequest /\ Len(x[q].params) <= MaxRequest
           /\ \E b \in 1 .. Len(t) : /\ F!StartOf(t, q, Len(t) + 1) = {b}
                                     /\ RequestIs(x[q], t, b, Len(t))
<1>1. x[q] \in F!Requests /\ CollectedIs(q, x[q], t)
    BY DEF FcgiIs
<1>2. PICK b \in 1 .. Len(t) : F!StartOf(t, q, Len(t) + 1) = {b} /\ RequestIs(x[q], t, b, Len(t))
    BY <1>1 DEF CollectedIs
<1>3. x[q].body <= MaxRequest /\ Len(x[q].params) <= MaxRequest
    BY <1>2 DEF RequestIs
<1> QED BY <1>1, <1>2, <1>3

LEMMA ClosedIs ==
    ASSUME NEW t, NEW w, NEW x, FcgiIs("reading", t, w, x), NEW q \in Ids, x[q] = NoRequest
    PROVE  F!StartOf(t, q, Len(t) + 1) = {}
BY DEF FcgiIs, CollectedIs

\* What is collected for one id is replaced.
LEMMA CollectIs ==
    ASSUME NEW t, NEW w, NEW x, FcgiIs("reading", t, w, x), NEW r \in Records,
           NEW q \in Ids, r.id = q, NEW z \in F!Requests \cup {NoRequest},
           CollectedIs(q, z, Append(t, r))
    PROVE  LET y == [x EXCEPT ![q] = z] IN
           /\ y \in [Ids -> F!Requests \cup {NoRequest}]
           /\ \A p \in Ids : CollectedIs(p, y[p], Append(t, r))
<1> DEFINE y == [x EXCEPT ![q] = z]
<1>1. /\ t \in Seq(Records) /\ x \in [Ids -> F!Requests \cup {NoRequest}]
      /\ \A p \in Ids : CollectedIs(p, x[p], t)
    BY DEF FcgiIs
<1>2. /\ y \in [Ids -> F!Requests \cup {NoRequest}] /\ y[q] = z
      /\ \A p \in Ids : p # q => y[p] = x[p]
    BY <1>1
<1> HIDE DEF y
<1>3. ASSUME NEW p \in Ids PROVE CollectedIs(p, y[p], Append(t, r))
    <2>1. CASE p = q
        BY <1>2, <2>1
    <2>2. CASE p # q
        <3>1. x[p] \in F!Requests \cup {NoRequest} /\ CollectedIs(p, x[p], t) /\ r.id # p
            BY <1>1, <2>2
        <3>2. CollectedIs(p, x[p], Append(t, r))
            BY <1>1, <3>1, CollectedStays
        <3> QED BY <1>2, <2>2, <3>2
    <2> QED BY <2>1, <2>2
<1> QED BY <1>2, <1>3 DEF y

LEMMA FcgiReads == FcgiOK /\ pc = "reading" => FcgiIs("reading", trace, wire, requests)
BY DEF FcgiOK

LEMMA InvalidKeeps ==
    ASSUME FcgiOK, F!Invalid
    PROVE  FcgiOK'
<1> DEFINE r == [type |-> "invalid", id |-> NoRequest, content |-> ""]
<1>1. /\ pc = "reading" /\ trace' = Append(trace, r) /\ pc' = "failed"
      /\ wire' = wire /\ requests' = requests
    BY DEF F!Invalid, F!Receive, F!Fail
<1>2. FcgiIs("reading", trace, wire, requests)
    BY <1>1, FcgiReads
<1>3. r \in Records /\ r.type = "invalid"
    BY DEF Records, Types, Pieces
<1> HIDE DEF r
<1>4. F!AtFault(Append(trace, r), Len(trace) + 1)
    <2>1. trace \in Seq(Records)
        BY <1>2 DEF FcgiIs
    <2>2. Append(trace, r)[Len(trace) + 1] = r
        BY <1>3, <2>1, Grown
    <2> QED BY <1>3, <2>2 DEF F!AtFault
<1>5. FcgiIs("failed", Append(trace, r), wire, requests)
    BY <1>2, <1>3, <1>4, FailedIs
<1> QED BY <1>1, <1>5 DEF FcgiOK

LEMMA BeginKeeps ==
    ASSUME FcgiOK, NEW q \in Ids, NEW flag \in {"keep", "close"}, F!Begin(q, flag)
    PROVE  FcgiOK'
<1> DEFINE r == [type |-> "begin", id |-> q, content |-> flag]
           u == Append(trace, r)
<1>1. pc = "reading" /\ trace' = u
    BY DEF F!Begin, F!Receive
<1>2. FcgiIs("reading", trace, wire, requests)
    BY <1>1, FcgiReads
<1>3. /\ r \in Records /\ r.type = "begin" /\ r.id = q /\ r.content = flag
    <2>1. r \in Records /\ r.type = "begin" /\ r.id = q /\ r.content = flag
        BY DEF Records, Types, Pieces
    <2> HIDE DEF r
    <2> QED BY <2>1, RecordIs
<1>4. trace \in Seq(Records)
    BY <1>2 DEF FcgiIs
<1> HIDE DEF r
<1>5. CASE requests[q] # NoRequest
    <2>1. pc' = "failed" /\ wire' = wire /\ requests' = requests
        BY <1>5 DEF F!Begin, F!Fail
    <2>2. requests[q] \in F!Requests
        BY <1>2, <1>5, OpenIs
    <2>3. PICK b \in 1 .. Len(trace) : /\ F!StartOf(trace, q, Len(trace) + 1) = {b}
                                       /\ RequestIs(requests[q], trace, b, Len(trace))
        BY <1>2, <1>5, OpenIs
    <2>4. F!AtFault(u, Len(trace) + 1)
        BY <1>3, <1>4, <2>2, <2>3, FaultOpen
    <2>5. FcgiIs("failed", u, wire, requests)
        BY <1>2, <1>3, <2>4, FailedIs
    <2> QED BY <1>1, <2>1, <2>5 DEF FcgiOK
<1>6. CASE requests[q] = NoRequest
    <2> DEFINE z == F!New(flag)
               y == [requests EXCEPT ![q] = z]
    <2>1. pc' = pc /\ wire' = wire /\ requests' = y
        BY <1>6 DEF F!Begin, F!Collect
    <2>2. F!StartOf(trace, q, Len(trace) + 1) = {}
        BY <1>2, <1>6, ClosedIs
    <2>3. ~F!AtFault(u, Len(trace) + 1)
        BY <1>3, <1>4, <2>2, FaultNone
    <2>4. z \in F!Requests /\ CollectedIs(q, z, u)
        BY <1>3, <1>4, <2>2, CollectedBegins
    <2> HIDE DEF z
    <2>5. /\ y \in [Ids -> F!Requests \cup {NoRequest}]
          /\ \A p \in Ids : CollectedIs(p, y[p], u)
        BY <1>2, <1>3, <2>4, CollectIs
    <2> HIDE DEF y
    <2>6. ~EndsBody(r)
        BY <1>3, KindIs
    <2>7. FcgiIs("reading", u, wire, y)
        BY <1>2, <1>3, <2>3, <2>5, <2>6, ReadingIs
    <2> QED BY <1>1, <2>1, <2>7 DEF FcgiOK
<1> QED BY <1>5, <1>6

LEMMA OrphanKeeps ==
    ASSUME FcgiOK, NEW q \in Ids, NEW type \in {"params", "stdin", "abort", "other"},
           F!Orphan(q, type, "")
    PROVE  FcgiOK'
<1> DEFINE r == [type |-> type, id |-> q, content |-> ""]
           u == Append(trace, r)
<1>1. /\ pc = "reading" /\ trace' = u /\ requests[q] = NoRequest
      /\ pc' = "failed" /\ wire' = wire /\ requests' = requests
    BY DEF F!Orphan, F!Receive, F!Fail
<1>2. FcgiIs("reading", trace, wire, requests)
    BY <1>1, FcgiReads
<1>3. /\ r \in Records /\ r.type # "begin" /\ r.id = q
    <2>1. r \in Records /\ r.type = type /\ r.id = q /\ r.content = "" /\ r.type # "begin"
        BY DEF Records, Types, Pieces
    <2> HIDE DEF r
    <2> QED BY <2>1, RecordIs
<1>4. trace \in Seq(Records)
    BY <1>2 DEF FcgiIs
<1> HIDE DEF r
<1>5. F!StartOf(trace, q, Len(trace) + 1) = {}
    BY <1>1, <1>2, ClosedIs
<1>6. F!AtFault(u, Len(trace) + 1)
    BY <1>3, <1>4, <1>5, FaultNone
<1>7. FcgiIs("failed", u, wire, requests)
    BY <1>2, <1>3, <1>6, FailedIs
<1> QED BY <1>1, <1>7 DEF FcgiOK

\* The parser selects one of the modes.
LEMMA ParsedMode ==
    ASSUME NEW p \in Seq(F!Tokens)
    PROVE  F!Parse(p).mode \in F!Modes
<1> DEFINE n == Len(p)
           C == ChosenIn(p, 1 .. n)
<1>1. n \in Nat /\ DOMAIN p = 1 .. n /\ \A j \in 1 .. n : p[j] \in F!Tokens
    OBVIOUS
<1> HIDE DEF n
<1>2. F!Parse(p).mode = IF C = {} THEN "normal" ELSE p[F!Max(C)]
    <2>1. F!Parse(p) = ParsedIn(p, 1 .. n)
        BY <1>1, ParseGives
    <2> QED BY <2>1, ParsedInIs DEF ParsedIn
<1>3. CASE C = {}
    BY <1>2, <1>3 DEF F!Modes
<1>4. CASE C # {}
    <2>1. C \in SUBSET (1 .. n) /\ \A j \in C : p[j] # "head"
        BY DEF ChosenIn
    <2> HIDE DEF C
    <2>2. F!Max(C) \in C
        BY <1>1, <1>4, <2>1, TopIs
    <2> QED BY <1>1, <1>2, <1>4, <2>1, <2>2 DEF F!Tokens
<1> QED BY <1>3, <1>4

\* What a record of an open request changes, and when it is at fault.
LEMMA OpenFault ==
    ASSUME NEW t, NEW w, NEW x, FcgiIs("reading", t, w, x), NEW r \in Records,
           NEW q \in Ids, r.id = q, x[q] # NoRequest, r.type \notin {"invalid", "begin"}
    PROVE  F!AtFault(Append(t, r), Len(t) + 1) <=>
               \/ IsPiece(r, q) /\ Len(x[q].params) + 1 > MaxRequest
               \/ IsBody(r, q) /\ x[q].body + 1 > MaxRequest
               \/ EndsParams(r, q) /\ F!Parse(x[q].params).value
               \/ EndsBody(r) /\ F!Answer(q, x[q]).echo >= MaxContent
<1> DEFINE y == x[q]
<1>1. y \in F!Requests
    BY OpenIs
<1>2. PICK b \in 1 .. Len(t) : F!StartOf(t, q, Len(t) + 1) = {b} /\ RequestIs(y, t, b, Len(t))
    BY OpenIs
<1>3. t \in Seq(Records)
    BY DEF FcgiIs
<1>4. y.body <= MaxRequest /\ Len(y.params) <= MaxRequest
      /\ y.body \in Nat /\ Len(y.params) \in Nat /\ MaxRequest \in Nat
    BY <1>1, <1>2, LimitAssumption DEF RequestIs, F!Requests
<1> HIDE DEF y
<1>5. F!AtFault(Append(t, r), Len(t) + 1) <=>
          \/ r.type \in {"invalid", "begin"}
          \/ Len(y.params) + (IF IsPiece(r, q) THEN 1 ELSE 0) > MaxRequest
          \/ y.body + (IF IsBody(r, q) THEN 1 ELSE 0) > MaxRequest
          \/ EndsParams(r, q) /\ F!Parse(y.params).value
          \/ EndsBody(r) /\ F!Answer(q, y).echo >= MaxContent
    BY <1>1, <1>2, <1>3, FaultOpen
<1>6. Len(y.params) + (IF IsPiece(r, q) THEN 1 ELSE 0) > MaxRequest
          <=> IsPiece(r, q) /\ Len(y.params) + 1 > MaxRequest
    <2> DEFINE k == Len(y.params)
    <2>1. k \in Nat /\ k <= MaxRequest /\ MaxRequest \in Nat
        BY <1>4
    <2> HIDE DEF k
    <2>2. k + (IF IsPiece(r, q) THEN 1 ELSE 0) > MaxRequest <=> IsPiece(r, q) /\ k + 1 > MaxRequest
        BY <2>1
    <2> QED BY <2>2 DEF k
<1>7. y.body + (IF IsBody(r, q) THEN 1 ELSE 0) > MaxRequest
          <=> IsBody(r, q) /\ y.body + 1 > MaxRequest
    BY <1>4
<1> QED BY <1>5, <1>6, <1>7 DEF y

\* The answer at the end of a body is the one that is meant.
AnswerIs(t, r, q, x) ==
    \E b \in 1 .. Len(t) : /\ F!Meant(Append(t, r), Len(t) + 1) = F!Answer(q, x)
                           /\ F!StartOf(Append(t, r), q, Len(t) + 1) = {b}
                           /\ ~x.keep <=> Append(t, r)[b].content = "close"

LEMMA OpenAnswer ==
    ASSUME NEW t, NEW w, NEW x, FcgiIs("reading", t, w, x), NEW r \in Records,
           NEW q \in Ids, r.id = q, x[q] # NoRequest, EndsBody(r)
    PROVE  AnswerIs(t, r, q, x[q])
<1>1. x[q] \in F!Requests
    BY OpenIs
<1>2. PICK b \in 1 .. Len(t) : F!StartOf(t, r.id, Len(t) + 1) = {b} /\ RequestIs(x[q], t, b, Len(t))
    BY OpenIs
<1>3. t \in Seq(Records)
    BY DEF FcgiIs
<1>4. /\ F!Meant(Append(t, r), Len(t) + 1) = F!Answer(r.id, x[q])
      /\ F!StartOf(Append(t, r), r.id, Len(t) + 1) = {b}
      /\ ~x[q].keep <=> Append(t, r)[b].content = "close"
    <2>1. F!Meant(Append(t, r), Len(t) + 1) = F!Answer(r.id, x[q])
        BY <1>1, <1>2, <1>3, EndMeans
    <2>2. /\ F!StartOf(Append(t, r), r.id, Len(t) + 1) = {b} /\ Append(t, r)[b] = t[b]
          /\ t[b].content \in {"keep", "close"}
        BY <1>2, <1>3, BeginIs
    <2>3. x[q].keep = (t[b].content = "keep")
        BY <1>2 DEF RequestIs
    <2> QED BY <2>1, <2>2, <2>3
<1> QED BY <1>4 DEF AnswerIs

\* A record of an open request that changes it to z.
LEMMA GoesOn ==
    ASSUME NEW t, NEW w, NEW x, FcgiIs("reading", t, w, x), NEW r \in Records,
           NEW q \in Ids, r.id = q, x[q] # NoRequest, r.type \notin {"invalid", "begin"},
           ~F!AtFault(Append(t, r), Len(t) + 1), ~F!IsEnd(r),
           NEW z \in F!Requests,
           z.keep = x[q].keep,
           z.mode = IF EndsParams(r, q) THEN F!Parse(x[q].params).mode ELSE x[q].mode,
           z.body = x[q].body + (IF IsBody(r, q) THEN 1 ELSE 0), z.body <= MaxRequest,
           Len(z.params) = Len(x[q].params) + (IF IsPiece(r, q) THEN 1 ELSE 0),
           Len(z.params) <= MaxRequest,
           F!Parse(z.params) = IF IsPiece(r, q) THEN F!ParseToken(F!Parse(x[q].params), r.content)
                               ELSE F!Parse(x[q].params)
    PROVE  FcgiIs("reading", Append(t, r), w, [x EXCEPT ![q] = z])
<1> DEFINE y == [x EXCEPT ![q] = z]
           v == x[q]
<1>1. v \in F!Requests
    BY OpenIs
<1>2. PICK b \in 1 .. Len(t) : F!StartOf(t, q, Len(t) + 1) = {b} /\ RequestIs(v, t, b, Len(t))
    BY OpenIs
<1>3. t \in Seq(Records) /\ ~(r.id = q /\ (r.type = "begin" \/ F!IsEnd(r)))
    BY DEF FcgiIs
<1> HIDE DEF v
<1>4. CollectedIs(q, z, Append(t, r))
    <2>1. /\ z.keep = v.keep
          /\ z.mode = IF EndsParams(r, q) THEN F!Parse(v.params).mode ELSE v.mode
          /\ z.body = v.body + (IF IsBody(r, q) THEN 1 ELSE 0)
          /\ Len(z.params) = Len(v.params) + (IF IsPiece(r, q) THEN 1 ELSE 0)
          /\ F!Parse(z.params) = IF IsPiece(r, q) THEN F!ParseToken(F!Parse(v.params), r.content)
                                 ELSE F!Parse(v.params)
        BY DEF v
    <2> QED BY <1>1, <1>2, <1>3, <2>1, CollectedNext
<1>5. /\ y \in [Ids -> F!Requests \cup {NoRequest}]
      /\ \A p \in Ids : CollectedIs(p, y[p], Append(t, r))
    BY <1>4, CollectIs
<1> HIDE DEF y
<1>6. ~EndsBody(r)
    BY KindIs
<1>7. FcgiIs("reading", Append(t, r), w, y)
    BY <1>5, <1>6, ReadingIs
<1> QED BY <1>7 DEF y


LEMMA ParamsKeeps ==
    ASSUME FcgiOK, NEW q \in Ids, NEW t \in F!Tokens, F!Params(q, t)
    PROVE  FcgiOK'
<1> DEFINE r == [type |-> "params", id |-> q, content |-> t]
           u == Append(trace, r)
           x == requests[q]
<1>1. pc = "reading" /\ trace' = u /\ x # NoRequest
    BY DEF F!Params, F!Receive
<1>2. FcgiIs("reading", trace, wire, requests)
    BY <1>1, FcgiReads
<1>3. /\ r \in Records /\ r.type = "params" /\ r.id = q /\ r.content = t /\ ~EndsBody(r)
      /\ IsPiece(r, q) /\ ~EndsParams(r, q) /\ ~IsBody(r, q) /\ ~F!IsEnd(r)
    <2>1. r \in Records /\ r.type = "params" /\ r.id = q /\ r.content = t /\ r.content # ""
        BY DEF Records, Types, Pieces, F!Tokens, F!Modes
    <2> HIDE DEF r
    <2> QED BY <2>1, RecordIs
<1> HIDE DEF r, u
<1>4. F!AtFault(u, Len(trace) + 1) <=> Len(x.params) + 1 > MaxRequest
    BY <1>1, <1>2, <1>3, OpenFault DEF u
<1>5. CASE Len(x.params) + 1 > MaxRequest /\ F!Fail
    <2>1. FcgiIs("failed", u, wire, requests)
        BY <1>2, <1>3, <1>4, <1>5, FailedIs DEF u
    <2> QED BY <1>1, <1>5, <2>1 DEF FcgiOK, F!Fail
<1>6. CASE /\ Len(x.params) + 1 <= MaxRequest
           /\ F!Collect(q, [x EXCEPT !.params = Append(@, t)])
    <2> DEFINE z == [x EXCEPT !.params = Append(@, t)]
    <2>1. x \in F!Requests
        BY <1>1, <1>2, OpenIs
    <2>2. x.params \in Seq(F!Tokens) /\ Len(x.params) \in Nat /\ x.body \in Nat
        BY <2>1 DEF F!Requests
    <2>3. /\ z \in F!Requests /\ z.keep = x.keep /\ z.mode = x.mode /\ z.body = x.body
          /\ z.params = Append(x.params, t)
        <3>1. Append(x.params, t) \in Seq(F!Tokens)
            BY <2>2
        <3> DEFINE p == Append(x.params, t)
        <3> HIDE DEF p
        <3>2. [x EXCEPT !.params = p] \in F!Requests
            BY <2>1, <3>1 DEF F!Requests, p
        <3> QED BY <2>1, <3>2 DEF F!Requests, p
    <2>4. Len(Append(x.params, t)) = Len(x.params) + 1
        BY <2>2
    <2>5. F!Parse(z.params) = F!ParseToken(F!Parse(x.params), t)
        BY <2>2, <2>3, ParseAppend
    <2>6. x.body <= MaxRequest
        BY <1>1, <1>2, OpenIs
    <2>7. ~F!AtFault(u, Len(trace) + 1)
        <3>1. MaxRequest \in Nat
            BY LimitAssumption
        <3> QED BY <1>4, <1>6, <2>2, <3>1
    <2> DEFINE y == [requests EXCEPT ![q] = z]
    <2>8. pc' = pc /\ wire' = wire /\ requests' = y
        BY <1>6 DEF F!Collect
    <2> HIDE DEF z, x
    <2>9. /\ z.mode = IF EndsParams(r, q) THEN F!Parse(x.params).mode ELSE x.mode
          /\ z.body = x.body + (IF IsBody(r, q) THEN 1 ELSE 0) /\ z.body <= MaxRequest
          /\ Len(z.params) = Len(x.params) + (IF IsPiece(r, q) THEN 1 ELSE 0)
          /\ Len(z.params) <= MaxRequest
          /\ F!Parse(z.params) = IF IsPiece(r, q) THEN F!ParseToken(F!Parse(x.params), r.content)
                                 ELSE F!Parse(x.params)
        <3>1. z.mode = IF EndsParams(r, q) THEN F!Parse(x.params).mode ELSE x.mode
            BY <1>3, <1>6, <2>2, <2>3, <2>4, <2>5, <2>6
        <3>2. z.body = x.body + (IF IsBody(r, q) THEN 1 ELSE 0) /\ z.body <= MaxRequest
            BY <1>3, <1>6, <2>2, <2>3, <2>4, <2>5, <2>6
        <3>3. /\ Len(z.params) = Len(x.params) + (IF IsPiece(r, q) THEN 1 ELSE 0)
              /\ Len(z.params) <= MaxRequest
            BY <1>3, <1>6, <2>2, <2>3, <2>4, <2>5, <2>6
        <3>4. F!Parse(z.params) = IF IsPiece(r, q)
                                  THEN F!ParseToken(F!Parse(x.params), r.content)
                                  ELSE F!Parse(x.params)
            BY <1>3, <1>6, <2>2, <2>3, <2>4, <2>5, <2>6
        <3> QED BY <3>1, <3>2, <3>3, <3>4
    <2>10. FcgiIs("reading", u, wire, y)
        BY <1>1, <1>2, <1>3, <2>3, <2>7, <2>9, GoesOn DEF x, u
    <2> QED BY <1>1, <2>8, <2>10 DEF FcgiOK
<1> QED BY <1>5, <1>6 DEF F!Params

LEMMA ParamsEndKeeps ==
    ASSUME FcgiOK, NEW q \in Ids, F!ParamsEnd(q)
    PROVE  FcgiOK'
<1> DEFINE r == [type |-> "params", id |-> q, content |-> ""]
           u == Append(trace, r)
           x == requests[q]
           parsed == F!Parse(x.params)
<1>1. pc = "reading" /\ trace' = u /\ x # NoRequest
    BY DEF F!ParamsEnd, F!Receive
<1>2. FcgiIs("reading", trace, wire, requests)
    BY <1>1, FcgiReads
<1>3. /\ r \in Records /\ r.type = "params" /\ r.id = q /\ ~EndsBody(r)
      /\ ~IsPiece(r, q) /\ EndsParams(r, q) /\ ~IsBody(r, q) /\ ~F!IsEnd(r)
    <2>1. r \in Records /\ r.type = "params" /\ r.id = q /\ r.content = ""
        BY DEF Records, Types, Pieces
    <2> HIDE DEF r
    <2> QED BY <2>1, RecordIs
<1> HIDE DEF r, u, parsed
<1>4. F!AtFault(u, Len(trace) + 1) <=> parsed.value
    BY <1>1, <1>2, <1>3, OpenFault DEF u, parsed
<1>5. CASE parsed.value /\ F!Fail
    <2>1. FcgiIs("failed", u, wire, requests)
        BY <1>2, <1>3, <1>4, <1>5, FailedIs DEF u
    <2> QED BY <1>1, <1>5, <2>1 DEF FcgiOK, F!Fail
<1>6. CASE ~parsed.value /\ F!Collect(q, [x EXCEPT !.mode = parsed.mode])
    <2> DEFINE z == [x EXCEPT !.mode = parsed.mode]
    <2>1. x \in F!Requests
        BY <1>1, <1>2, OpenIs
    <2>2. x.params \in Seq(F!Tokens) /\ Len(x.params) \in Nat /\ x.body \in Nat
        BY <2>1 DEF F!Requests
    <2>3. parsed.mode \in F!Modes
        BY <2>2, ParsedMode DEF parsed
    <2>4. /\ z \in F!Requests /\ z.keep = x.keep /\ z.mode = parsed.mode /\ z.body = x.body
          /\ z.params = x.params
        BY <2>1, <2>3 DEF F!Requests
    <2>5. x.body <= MaxRequest /\ Len(x.params) <= MaxRequest
        BY <1>1, <1>2, OpenIs
    <2> DEFINE y == [requests EXCEPT ![q] = z]
    <2>6. pc' = pc /\ wire' = wire /\ requests' = y
        BY <1>6 DEF F!Collect
    <2> HIDE DEF z, x
    <2>7. /\ z.mode = IF EndsParams(r, q) THEN F!Parse(x.params).mode ELSE x.mode
          /\ z.body = x.body + (IF IsBody(r, q) THEN 1 ELSE 0) /\ z.body <= MaxRequest
          /\ Len(z.params) = Len(x.params) + (IF IsPiece(r, q) THEN 1 ELSE 0)
          /\ Len(z.params) <= MaxRequest
          /\ F!Parse(z.params) = IF IsPiece(r, q) THEN F!ParseToken(F!Parse(x.params), r.content)
                                 ELSE F!Parse(x.params)
        <3>1. z.mode = IF EndsParams(r, q) THEN F!Parse(x.params).mode ELSE x.mode
            BY <1>3, <2>2, <2>4, <2>5 DEF parsed
        <3>2. z.body = x.body + (IF IsBody(r, q) THEN 1 ELSE 0) /\ z.body <= MaxRequest
            <4> DEFINE k == x.body
            <4>1. z.body = k /\ k \in Nat /\ k <= MaxRequest
                BY <2>2, <2>4, <2>5
            <4> HIDE DEF k
            <4>2. (IF IsBody(r, q) THEN 1 ELSE 0) = 0
                BY <1>3
            <4> QED BY <4>1, <4>2 DEF k
        <3>3. /\ Len(z.params) = Len(x.params) + (IF IsPiece(r, q) THEN 1 ELSE 0)
              /\ Len(z.params) <= MaxRequest
            <4> DEFINE k == Len(x.params)
                       l == Len(z.params)
                       e == IF IsPiece(r, q) THEN 1 ELSE 0
            <4>1. l = k /\ k \in Nat /\ k <= MaxRequest
                BY <2>2, <2>4, <2>5
            <4>2. e = 0
                BY <1>3
            <4> HIDE DEF k, l, e
            <4>3. l = k + e /\ l <= MaxRequest
                BY <4>1, <4>2
            <4> QED BY <4>3 DEF k, l, e
        <3>4. F!Parse(z.params) = IF IsPiece(r, q)
                                  THEN F!ParseToken(F!Parse(x.params), r.content)
                                  ELSE F!Parse(x.params)
            BY <1>3, <2>2, <2>4, <2>5 DEF parsed
        <3> QED BY <3>1, <3>2, <3>3, <3>4
    <2>8. FcgiIs("reading", u, wire, y)
        BY <1>1, <1>2, <1>3, <1>4, <1>6, <2>4, <2>7, GoesOn DEF x, u
    <2> QED BY <1>1, <2>6, <2>8 DEF FcgiOK
<1> QED BY <1>5, <1>6 DEF F!ParamsEnd, parsed

LEMMA StdinKeeps ==
    ASSUME FcgiOK, NEW q \in Ids, F!Stdin(q)
    PROVE  FcgiOK'
<1> DEFINE r == [type |-> "stdin", id |-> q, content |-> "data"]
           u == Append(trace, r)
           x == requests[q]
<1>1. pc = "reading" /\ trace' = u /\ x # NoRequest
    BY DEF F!Stdin, F!Receive
<1>2. FcgiIs("reading", trace, wire, requests)
    BY <1>1, FcgiReads
<1>3. /\ r \in Records /\ r.type = "stdin" /\ r.id = q /\ ~EndsBody(r)
      /\ ~IsPiece(r, q) /\ ~EndsParams(r, q) /\ IsBody(r, q) /\ ~F!IsEnd(r)
    <2>1. r \in Records /\ r.type = "stdin" /\ r.id = q /\ r.content = "data"
        BY DEF Records, Types, Pieces
    <2> HIDE DEF r
    <2> QED BY <2>1, RecordIs
<1> HIDE DEF r, u
<1>4. F!AtFault(u, Len(trace) + 1) <=> x.body + 1 > MaxRequest
    BY <1>1, <1>2, <1>3, OpenFault DEF u
<1>5. CASE x.body + 1 > MaxRequest /\ F!Fail
    <2>1. FcgiIs("failed", u, wire, requests)
        BY <1>2, <1>3, <1>4, <1>5, FailedIs DEF u
    <2> QED BY <1>1, <1>5, <2>1 DEF FcgiOK, F!Fail
<1>6. CASE x.body + 1 <= MaxRequest /\ F!Collect(q, [x EXCEPT !.body = @ + 1])
    <2> DEFINE z == [x EXCEPT !.body = @ + 1]
    <2>1. x \in F!Requests
        BY <1>1, <1>2, OpenIs
    <2>2. x.params \in Seq(F!Tokens) /\ Len(x.params) \in Nat /\ x.body \in Nat
        BY <2>1 DEF F!Requests
    <2>3. /\ z \in F!Requests /\ z.keep = x.keep /\ z.mode = x.mode /\ z.body = x.body + 1
          /\ z.params = x.params
        BY <2>1 DEF F!Requests
    <2>4. Len(x.params) <= MaxRequest
        BY <1>1, <1>2, OpenIs
    <2>5. ~F!AtFault(u, Len(trace) + 1)
        <3>1. MaxRequest \in Nat
            BY LimitAssumption
        <3> QED BY <1>4, <1>6, <2>2, <3>1
    <2> DEFINE y == [requests EXCEPT ![q] = z]
    <2>6. pc' = pc /\ wire' = wire /\ requests' = y
        BY <1>6 DEF F!Collect
    <2> HIDE DEF z, x
    <2>7. /\ z.mode = IF EndsParams(r, q) THEN F!Parse(x.params).mode ELSE x.mode
          /\ z.body = x.body + (IF IsBody(r, q) THEN 1 ELSE 0) /\ z.body <= MaxRequest
          /\ Len(z.params) = Len(x.params) + (IF IsPiece(r, q) THEN 1 ELSE 0)
          /\ Len(z.params) <= MaxRequest
          /\ F!Parse(z.params) = IF IsPiece(r, q) THEN F!ParseToken(F!Parse(x.params), r.content)
                                 ELSE F!Parse(x.params)
        <3>1. z.mode = IF EndsParams(r, q) THEN F!Parse(x.params).mode ELSE x.mode
            BY <1>3, <1>6, <2>2, <2>3, <2>4
        <3>2. z.body = x.body + (IF IsBody(r, q) THEN 1 ELSE 0) /\ z.body <= MaxRequest
            BY <1>3, <1>6, <2>2, <2>3, <2>4
        <3>3. /\ Len(z.params) = Len(x.params) + (IF IsPiece(r, q) THEN 1 ELSE 0)
              /\ Len(z.params) <= MaxRequest
            <4> DEFINE k == Len(x.params)
                       l == Len(z.params)
                       e == IF IsPiece(r, q) THEN 1 ELSE 0
            <4>1. l = k /\ k \in Nat /\ k <= MaxRequest
                BY <2>2, <2>3, <2>4
            <4>2. e = 0
                BY <1>3
            <4> HIDE DEF k, l, e
            <4>3. l = k + e /\ l <= MaxRequest
                BY <4>1, <4>2
            <4> QED BY <4>3 DEF k, l, e
        <3>4. F!Parse(z.params) = IF IsPiece(r, q)
                                  THEN F!ParseToken(F!Parse(x.params), r.content)
                                  ELSE F!Parse(x.params)
            BY <1>3, <1>6, <2>2, <2>3, <2>4
        <3> QED BY <3>1, <3>2, <3>3, <3>4
    <2>8. FcgiIs("reading", u, wire, y)
        BY <1>1, <1>2, <1>3, <2>3, <2>5, <2>7, GoesOn DEF x, u
    <2> QED BY <1>1, <2>6, <2>8 DEF FcgiOK
<1> QED BY <1>5, <1>6 DEF F!Stdin

LEMMA AbortKeeps ==
    ASSUME FcgiOK, NEW q \in Ids, F!Abort(q)
    PROVE  FcgiOK'
<1> DEFINE r == [type |-> "abort", id |-> q, content |-> ""]
           u == Append(trace, r)
           y == [requests EXCEPT ![q] = NoRequest]
<1>1. /\ pc = "reading" /\ trace' = u /\ requests[q] # NoRequest
      /\ pc' = pc /\ wire' = wire /\ requests' = y
    BY DEF F!Abort, F!Receive, F!Collect
<1>2. FcgiIs("reading", trace, wire, requests)
    BY <1>1, FcgiReads
<1>3. /\ r \in Records /\ r.type = "abort" /\ r.id = q /\ ~EndsBody(r)
      /\ ~IsPiece(r, q) /\ ~EndsParams(r, q) /\ ~IsBody(r, q) /\ F!IsEnd(r)
    <2>1. r \in Records /\ r.type = "abort" /\ r.id = q /\ r.content = ""
        BY DEF Records, Types, Pieces
    <2> HIDE DEF r
    <2> QED BY <2>1, RecordIs
<1> HIDE DEF r
<1>4. ~F!AtFault(u, Len(trace) + 1)
    BY <1>1, <1>2, <1>3, OpenFault
<1>5. CollectedIs(q, NoRequest, u)
    BY <1>2, <1>3, CollectedEnds DEF FcgiIs
<1>6. /\ y \in [Ids -> F!Requests \cup {NoRequest}]
      /\ \A p \in Ids : CollectedIs(p, y[p], u)
    BY <1>2, <1>3, <1>5, CollectIs
<1> HIDE DEF y
<1>7. FcgiIs("reading", u, wire, y)
    BY <1>2, <1>3, <1>4, <1>6, ReadingIs
<1> QED BY <1>1, <1>7 DEF FcgiOK

LEMMA OtherKeeps ==
    ASSUME FcgiOK, NEW q \in Ids, F!Other(q)
    PROVE  FcgiOK'
<1> DEFINE r == [type |-> "other", id |-> q, content |-> ""]
           u == Append(trace, r)
<1>1. /\ pc = "reading" /\ trace' = u /\ requests[q] # NoRequest
      /\ pc' = pc /\ wire' = wire /\ requests' = requests
    BY DEF F!Other, F!Receive
<1>2. FcgiIs("reading", trace, wire, requests)
    BY <1>1, FcgiReads
<1>3. /\ r \in Records /\ r.type = "other" /\ r.id = q /\ ~EndsBody(r)
      /\ ~IsPiece(r, q) /\ ~EndsParams(r, q) /\ ~IsBody(r, q)
    <2>1. r \in Records /\ r.type = "other" /\ r.id = q /\ r.content = ""
        BY DEF Records, Types, Pieces
    <2> HIDE DEF r
    <2> QED BY <2>1, RecordIs
<1> HIDE DEF r
<1>4. ~F!AtFault(u, Len(trace) + 1)
    BY <1>1, <1>2, <1>3, OpenFault
<1>5. /\ requests \in [Ids -> F!Requests \cup {NoRequest}] /\ trace \in Seq(Records)
      /\ \A p \in Ids : CollectedIs(p, requests[p], trace)
    BY <1>2 DEF FcgiIs
<1>6. \A p \in Ids : CollectedIs(p, requests[p], u)
    BY <1>3, <1>5, CollectedStays
<1>7. FcgiIs("reading", u, wire, requests)
    BY <1>2, <1>3, <1>4, <1>5, <1>6, ReadingIs
<1> QED BY <1>1, <1>7 DEF FcgiOK

LEMMA StdinEndKeeps ==
    ASSUME FcgiOK, NEW q \in Ids, F!StdinEnd(q)
    PROVE  FcgiOK'
<1> DEFINE r == [type |-> "stdin", id |-> q, content |-> ""]
           u == Append(trace, r)
           n == Len(trace)
           x == requests[q]
           a == F!Answer(q, x)
<1>1. pc = "reading" /\ trace' = u /\ x # NoRequest /\ F!Respond(q, x)
    BY DEF F!StdinEnd, F!Receive
<1>2. FcgiIs("reading", trace, wire, requests)
    BY <1>1, FcgiReads
<1>3. /\ r \in Records /\ r.type = "stdin" /\ r.id = q /\ EndsBody(r)
      /\ ~IsPiece(r, q) /\ ~EndsParams(r, q) /\ ~IsBody(r, q) /\ F!IsEnd(r)
    <2>1. r \in Records /\ r.type = "stdin" /\ r.id = q /\ r.content = ""
        BY DEF Records, Types, Pieces
    <2> HIDE DEF r
    <2> QED BY <2>1, RecordIs
<1>4. x \in F!Requests /\ trace \in Seq(Records)
    BY <1>1, <1>2, OpenIs DEF FcgiIs
<1>5. /\ x.mode \in F!Modes /\ x.keep \in BOOLEAN /\ x.body \in Nat
      /\ F!Echo(x) \in Nat
    BY <1>4 DEF F!Requests, F!Echo
<1>6. a \in Answers /\ a.echo = F!Echo(x) /\ a.ended = (x.mode # "early")
    BY <1>5 DEF F!Answer, Answers
<1> HIDE DEF r
<1>7. AnswerIs(trace, r, q, x)
    BY <1>1, <1>2, <1>3, OpenAnswer
<1> HIDE DEF x
<1>8. PICK b \in 1 .. n :
          F!Meant(u, n + 1) = a /\ F!StartOf(u, q, n + 1) = {b} /\ (~x.keep <=> u[b].content = "close")
    BY <1>7 DEF AnswerIs
<1> HIDE DEF u, a, x
<1>9. F!AtFault(u, n + 1) <=> a.echo >= MaxContent
    BY <1>1, <1>2, <1>3, OpenFault DEF u, a, x
<1>10. a.echo >= MaxContent <=> 1 + F!Echo(x) > MaxContent
    <2>1. MaxContent \in Nat
        BY LimitAssumption
    <2> QED BY <1>5, <1>6, <2>1
<1>11. CASE 1 + F!Echo(x) > MaxContent /\ F!Fail
    <2>1. FcgiIs("failed", u, wire, requests)
        BY <1>2, <1>3, <1>9, <1>10, <1>11, FailedIs DEF u, n
    <2> QED BY <1>1, <1>11, <2>1 DEF FcgiOK, F!Fail
<1>12. CASE /\ 1 + F!Echo(x) <= MaxContent /\ wire' = Append(wire, a)
            /\ requests' = [requests EXCEPT ![q] = NoRequest]
            /\ pc' = IF F!Closes(x) THEN "closed" ELSE "reading"
    <2> DEFINE y == [requests EXCEPT ![q] = NoRequest]
               p == IF F!Closes(x) THEN "closed" ELSE "reading"
    <2>1. ~F!AtFault(u, n + 1)
        <3>1. MaxContent \in Nat
            BY LimitAssumption
        <3> QED BY <1>5, <1>9, <1>10, <1>12, <3>1
    <2>2. CollectedIs(q, NoRequest, u)
        BY <1>3, <1>4, CollectedEnds DEF u
    <2>3. /\ y \in [Ids -> F!Requests \cup {NoRequest}]
          /\ \A k \in Ids : CollectedIs(k, y[k], u)
        BY <1>2, <1>3, <2>2, CollectIs DEF u
    <2>4. p \in {"reading", "closed"} /\ (p = "closed" <=> F!Closes(x))
        OBVIOUS
    <2>5. p = "closed" <=> (~a.ended \/ u[b].content = "close")
        <3> HIDE DEF p
        <3> QED BY <1>6, <1>8, <2>4 DEF F!Closes
    <2> HIDE DEF y, p
    <2>6. FcgiIs(p, u, Append(wire, a), y)
        <3>1. /\ ~F!AtFault(Append(trace, r), Len(trace) + 1)
              /\ F!StartOf(Append(trace, r), r.id, Len(trace) + 1) = {b}
              /\ F!Meant(Append(trace, r), Len(trace) + 1) = a
              /\ p = "closed" <=> (~a.ended \/ Append(trace, r)[b].content = "close")
              /\ \A k \in Ids : CollectedIs(k, y[k], Append(trace, r))
            BY <1>3, <1>7, <1>8, <2>1, <2>3, <2>5 DEF u
        <3>2. b \in 1 .. Len(trace)
            OBVIOUS
        <3> HIDE DEF n
        <3>3. FcgiIs(p, Append(trace, r), Append(wire, a), y)
            BY <1>2, <1>3, <1>6, <2>3, <2>4, <3>1, <3>2, AnsweredIs
        <3> QED BY <3>3 DEF u
    <2> QED BY <1>1, <1>12, <2>6 DEF FcgiOK, y, p
<1> QED BY <1>1, <1>11, <1>12 DEF F!Respond, a

LEMMA GoneKeeps ==
    ASSUME FcgiOK, F!PeerEnds
    PROVE  FcgiOK'
<1>1. pc = "reading" /\ pc' = "gone" /\ UNCHANGED <<requests, wire, trace>>
    BY DEF F!PeerEnds
<1>2. FcgiIs("gone", trace, wire, requests)
    BY <1>1, FcgiReads, GoneIs
<1> QED BY <1>1, <1>2 DEF FcgiOK

LEMMA FcgiKeeps == FcgiOK /\ F!Next => FcgiOK'
BY InvalidKeeps, GoneKeeps, BeginKeeps, ParamsKeeps, ParamsEndKeeps, StdinKeeps, StdinEndKeeps,
   AbortKeeps, OtherKeeps, OrphanKeeps DEF F!Next

LEMMA FcgiStarts == F!Init => FcgiOK
<1> SUFFICES ASSUME F!Init PROVE FcgiOK
    OBVIOUS
<1>1. /\ pc = "reading" /\ requests = [q \in Ids |-> NoRequest] /\ wire = <<>> /\ trace = <<>>
    BY DEF F!Init
<1>2. FinishedIn(<<>>, "reading") = {}
    BY DEF FinishedIn
<1>3. Answered(<<>>, "reading", <<>>)
    <2>1. Len(<<>>) = 0 /\ Cardinality({}) = 0
        BY FS_EmptySet
    <2> QED BY <1>2, <2>1 DEF Answered
<1>4. EndedAs(<<>>, "reading")
    BY <1>2 DEF EndedAs
<1>5. ASSUME NEW q \in Ids PROVE CollectedIs(q, NoRequest, <<>>)
    <2>1. 1 .. Len(<<>>) + 1 - 1 = {}
        OBVIOUS
    <2>2. F!StartOf(<<>>, q, Len(<<>>) + 1) = {}
        BY <2>1 DEF F!StartOf
    <2> QED BY <2>2 DEF CollectedIs
<1>6. FcgiIs("reading", <<>>, <<>>, [q \in Ids |-> NoRequest])
    <2>1. <<>> \in Seq(Records) /\ <<>> \in Seq(Answers)
        OBVIOUS
    <2> QED BY <1>2, <1>3, <1>4, <1>5, <2>1 DEF FcgiIs
<1> QED BY <1>1, <1>6 DEF FcgiOK

\* What FcgiOK says is what the properties of FastCgi say.
LEMMA FcgiSays == FcgiOK => F!AnswersAsMeant /\ F!EndsAsMeant
<1> SUFFICES ASSUME FcgiOK PROVE F!AnswersAsMeant /\ F!EndsAsMeant
    OBVIOUS
<1>1. F!Finished = FinishedIn(trace, pc)
    BY DEF F!Finished, FinishedIn, EndsBody
<1>2. Answered(trace, pc, wire) /\ EndedAs(trace, pc)
    BY DEF FcgiOK, FcgiIs
<1>3. F!AnswersAsMeant
    <2>1. F!Cardinality(F!Finished) = Cardinality(FinishedIn(trace, pc))
        BY <1>1, SameCount
    <2>2. \A i : F!Cardinality(F!Finished \cap (1 .. i)) = Cardinality(FinishedIn(trace, pc) \cap (1 .. i))
        BY <1>1, SameCount
    <2> QED BY <1>1, <1>2, <2>1, <2>2 DEF F!AnswersAsMeant, Answered
<1>4. F!EndsAsMeant
    BY <1>1, <1>2 DEF F!EndsAsMeant, EndedAs
<1> QED BY <1>3, <1>4

-----------------------------------------------------------------------------
(* Of a handler *)

\* What each handler keeps, while it is the one that was called.
HandlerOK ==
    /\ protocol \in {"fastcgi", "http", "scgi"}
    /\ protocol = "fastcgi" => FcgiOK
    /\ protocol = "http" => StreamOK /\ HttpOK
    /\ protocol = "scgi" => StreamOK /\ ScgiOK

LEMMA HandlerStarts == HandlerInit => HandlerOK
<1>1. ASSUME protocol = "fastcgi", F!Init PROVE HandlerOK
    BY <1>1, FcgiStarts DEF HandlerOK
<1>2. ASSUME NEW p \in {"http", "scgi"}, H!InitOf(p) PROVE HandlerOK
    <2>1. /\ protocol = p /\ pc = "header" /\ wire = <<>> /\ pos = 0 /\ data = <<>>
          /\ head = [mode |-> "normal", length |-> 0]
          /\ stream \in Streams[p]
        BY <1>2 DEF H!InitOf
    <2>2. stream \in Seq(Units)
        BY <2>1, StreamAssumption
    <2>3. SubSeq(stream, 1, 0) = <<>>
        BY SubSeqEmpty
    <2>4. StreamOK
        BY <2>1, <2>2 DEF StreamOK
    <2>5. 0 <= MaxHeaders /\ 0 < MaxDigits
        BY LimitAssumption
    <2>6. HttpOK
        BY <2>1, <2>3, <2>5 DEF HttpOK
    <2>7. ScgiOK
        BY <2>1, <2>3, <2>5 DEF ScgiOK
    <2> QED BY <2>1, <2>4, <2>6, <2>7 DEF HandlerOK
<1> QED BY <1>1, <1>2 DEF HandlerInit, H!Init

LEMMA HandlerStep == HandlerOK /\ [HandlerNext]_handlerVars => HandlerOK'
<1> SUFFICES ASSUME HandlerOK, [HandlerNext]_handlerVars PROVE HandlerOK'
    OBVIOUS
<1>1. CASE HandleFastCgi
    <2>1. protocol = "fastcgi" /\ F!Next /\ protocol' = protocol
        BY <1>1 DEF HandleFastCgi
    <2>2. FcgiOK'
        BY <2>1, FcgiKeeps DEF HandlerOK
    <2> QED BY <2>1, <2>2 DEF HandlerOK
<1>2. CASE HandleOther
    <2>1. H!Next /\ protocol \in {"http", "scgi"}
        BY <1>2 DEF HandleOther, HandlerOK
    <2>2. CASE protocol = "http"
        <3>1. StreamOK /\ HttpOK
            BY <2>2 DEF HandlerOK
        <3>2. protocol' = protocol /\ StreamOK' /\ HttpOK'
            BY <2>1, <2>2, <3>1, HttpKeeps
        <3> QED BY <2>2, <3>2 DEF HandlerOK
    <2>3. CASE protocol = "scgi"
        <3>1. StreamOK /\ ScgiOK
            BY <2>3 DEF HandlerOK
        <3>2. protocol' = protocol /\ StreamOK' /\ ScgiOK'
            BY <2>1, <2>3, <3>1, ScgiKeeps
        <3> QED BY <2>3, <3>2 DEF HandlerOK
    <2> QED BY <2>1, <2>2, <2>3
<1>3. CASE UNCHANGED handlerVars
    <2>1. UNCHANGED <<protocol, pc, wire, requests, trace, stream, pos, data, head>>
        BY <1>3 DEF handlerVars
    <2>2. StreamOK' <=> StreamOK
        BY <2>1 DEF StreamOK
    <2>3. HttpOK' <=> HttpOK
        BY <2>1 DEF HttpOK, HttpBody, HttpTunnel, HeaderIs, H!IsMeant, H!Received
    <2>4. ScgiOK' <=> ScgiOK
        BY <2>1 DEF ScgiOK, ScgiHeaders, ScgiBody, NetstringIs, H!IsMeant, H!Received
    <2>5. FcgiOK' <=> FcgiOK
        BY <2>1 DEF FcgiOK
    <2> QED BY <2>1, <2>2, <2>3, <2>4, <2>5 DEF HandlerOK
<1> QED BY <1>1, <1>2, <1>3 DEF HandlerNext

\* What an HTTP or SCGI handler holds at each place is what it has received since
\* its last step, and what it has answered is what that means (handle_http,
\* handle_scgi).  What a FastCGI handler has collected under an id is what the
\* records of that id amount to since the begin of its open request
\* (handle_fastcgi).
THEOREM HandlersInvariant == HandlerSpec => []HandlerOK
<1>1. HandlerInit => HandlerOK
    BY HandlerStarts
<1>2. HandlerOK /\ [HandlerNext]_handlerVars => HandlerOK'
    BY HandlerStep
<1> QED BY <1>1, <1>2, PTL DEF HandlerSpec

\* The answer of the HTTP handler, and what it echoes in a tunnel, is what the
\* bytes received so far ask for, wherever they were cut: the header ends at the
\* first empty line, the last of its length and mode lines counts, and the body
\* is as long as it says (_recv_headers, handle_http).
THEOREM HttpAnswers == HandlerSpec => []HttpAsMeant
<1>1. HandlerOK => HttpAsMeant
    BY HttpSays DEF HandlerOK, HttpAsMeant, H!HttpAsMeant
<1> QED BY <1>1, HandlersInvariant, PTL

\* The answer of the SCGI handler is what the netstring received and the body
\* after it ask for, wherever they were cut, and nothing is answered to a prefix
\* of them (handle_scgi).
THEOREM ScgiAnswers == HandlerSpec => []ScgiAsMeant
<1>1. HandlerOK => ScgiAsMeant
    BY ScgiSays DEF HandlerOK, ScgiAsMeant, H!ScgiAsMeant
<1> QED BY <1>1, HandlersInvariant, PTL

\* However the records of several requests are interleaved and their parameters
\* are cut, each request whose body ends is answered once, as its own records
\* say, for every number of requests and records and all limits (handle_fastcgi).
THEOREM FcgiAnswers == HandlerSpec => []AnswersAsMeant
<1>1. HandlerOK => AnswersAsMeant
    BY FcgiSays DEF HandlerOK, AnswersAsMeant
<1> QED BY <1>1, HandlersInvariant, PTL

\* A FastCGI connection is given up exactly at a record that breaks the protocol
\* or a limit, and is closed exactly after an answer that breaks off or to a
\* request that did not ask to keep it (handle_fastcgi, _fcgi_respond).
THEOREM FcgiEnds == HandlerSpec => []EndsAsMeant
<1>1. HandlerOK => EndsAsMeant
    BY FcgiSays DEF HandlerOK, EndsAsMeant
<1> QED BY <1>1, HandlersInvariant, PTL

=============================================================================
