---------------------------- MODULE RedpinServer ----------------------------
(***************************************************************************)
(* main, doit and read_requesthdrs of server/redpin.c: the accept loop,    *)
(* the thread it starts for each connection, the hand-over of the          *)
(* descriptor through the shared variable connfd, and what clients may do  *)
(* meanwhile: stop at any point, hang up, or not read their reply.         *)
(*                                                                         *)
(* What serve_request does to the pins is the business of RedpinRegistry;  *)
(* here a request is known by how it is answered.  A thread is named after *)
(* the connection it was created for.                                      *)
(***************************************************************************)
EXTENDS Integers, Sequences, FiniteSets

CONSTANTS
    Client,    \* the connections clients make
    Good,      \* the ones of well-behaved clients, which finish what they start
    Ask,       \* what clients ask for
    MaxFd,     \* descriptors the process may have open for connections
    Peer,      \* the far end of a connection a /copy opens
    NULL

\* "small" replies fit the socket's buffers, "big" ones do not; "garbage" is a
\* line parse_request_line refuses, or a method or version doit refuses;
\* "copy" asks the server to fetch from another.
AskType == {"small", "big", "garbage", "copy"}

ASSUME ServerAssumption ==
    /\ Good \subseteq Client
    /\ Ask \subseteq AskType
    /\ MaxFd \in Nat \ {0}
    /\ NULL \notin Client /\ Peer \notin Client \cup {NULL}
    /\ NULL \notin AskType \cup Nat

Fd == 1..MaxFd

VARIABLES
    sent,       \* how much each client has sent
    ask,        \* what it asked for
    hungup,     \* it closed its end
    reads,      \* it reads what comes back
    answered,   \* a whole reply was written to its connection
    backlog,    \* connections the kernel has accepted and main has not
    main,       \* where main is
    connfd,     \* main's variable, which every thread is given the address of
    ready_sem,
    fdtab,      \* what each descriptor is connected to
    pc,         \* where the thread of each connection is
    fd,         \* its copy of the descriptor
    out,        \* the descriptor of get_server_results
    refused,    \* its status was not 200
    data_sem

clients == <<sent, ask, hungup, reads>>
mainvars == <<backlog, main, connfd>>
vars == <<clients, answered, mainvars, ready_sem, fdtab, pc, fd, out, refused, data_sem>>

Init ==
    /\ sent = [c \in Client |-> "nothing"]
    /\ ask = [c \in Client |-> NULL]
    /\ hungup = [c \in Client |-> FALSE]
    /\ reads = [c \in Client |-> FALSE]
    /\ answered = [c \in Client |-> FALSE]
    /\ backlog = <<>>
    /\ main = "accept" /\ connfd = NULL
    /\ ready_sem = 0 /\ data_sem = 1
    /\ fdtab = [f \in Fd |-> NULL]
    /\ pc = [c \in Client |-> "none"]
    /\ fd = [c \in Client |-> NULL]
    /\ out = [c \in Client |-> NULL]
    /\ refused = [c \in Client |-> FALSE]

(***************************************************************************)
(* Clients.                                                                *)
(***************************************************************************)
Server == <<answered, main, connfd, ready_sem, fdtab, pc, fd, out, refused, data_sem>>

Connect(c) ==
    /\ sent[c] = "nothing"
    /\ sent' = [sent EXCEPT ![c] = "connection"]
    /\ backlog' = Append(backlog, c)
    /\ UNCHANGED <<ask, hungup, reads>> /\ UNCHANGED Server

\* The request line, or a part of it before hanging up.
SendLine(c) ==
    /\ sent[c] = "connection" /\ ~hungup[c]
    /\ sent' = [sent EXCEPT ![c] = "line"]
    /\ \E a \in Ask : ask' = [ask EXCEPT ![c] = a]
    /\ UNCHANGED <<hungup, reads, backlog>> /\ UNCHANGED Server

\* The headers up to the empty line, and the POST data.
SendHeaders(c) ==
    /\ sent[c] = "line" /\ ~hungup[c]
    /\ sent' = [sent EXCEPT ![c] = "all"]
    /\ UNCHANGED <<ask, hungup, reads, backlog>> /\ UNCHANGED Server

StartReading(c) ==
    /\ sent[c] = "all" /\ ~hungup[c] /\ ~reads[c]
    /\ reads' = [reads EXCEPT ![c] = TRUE]
    /\ UNCHANGED <<sent, ask, hungup, backlog>> /\ UNCHANGED Server

\* A well-behaved client waits for its reply; any other may leave at any time.
HangUp(c) ==
    /\ sent[c] # "nothing" /\ ~hungup[c]
    /\ c \in Good => answered[c]
    /\ hungup' = [hungup EXCEPT ![c] = TRUE]
    /\ UNCHANGED <<sent, ask, reads, backlog>> /\ UNCHANGED Server

(***************************************************************************)
(* main.                                                                   *)
(***************************************************************************)
FreeFd == {f \in Fd : fdtab[f] = NULL}

\* Accept gives the lowest descriptor that is free.
Lowest(f) == f \in FreeFd /\ \A g \in FreeFd : f <= g

Accept ==
    /\ main = "accept" /\ backlog # <<>>
    /\ \E f \in Fd :
          /\ Lowest(f)
          /\ connfd' = f
          /\ fdtab' = [fdtab EXCEPT ![f] = Head(backlog)]
    /\ backlog' = Tail(backlog)
    /\ main' = "create"
    /\ UNCHANGED <<clients, answered, ready_sem, pc, fd, out, refused, data_sem>>

\* Without a free descriptor Accept reports an error and returns -1: main
\* goes around its loop until a descriptor is free.
AcceptFails ==
    /\ main = "accept" /\ backlog # <<>> /\ FreeFd = {}
    /\ connfd' = NULL
    /\ UNCHANGED <<clients, answered, backlog, main, ready_sem, fdtab, pc, fd, out, refused, data_sem>>

\* Pthread_create gives the new thread the address of connfd, not its value.
CreateThread ==
    /\ main = "create"
    /\ pc' = [pc EXCEPT ![fdtab[connfd]] = "start"]
    /\ main' = "wait"
    /\ UNCHANGED <<clients, answered, backlog, connfd, ready_sem, fdtab, fd, out, refused, data_sem>>

\* Not the code: main does not wait for the thread to read connfd.
WaitReadyNot ==
    /\ main = "wait"
    /\ main' = "accept"
    /\ UNCHANGED <<clients, answered, backlog, connfd, ready_sem, fdtab, pc, fd, out, refused, data_sem>>

\* P(&ready_sem): only then may the loop assign to connfd again.
WaitReady ==
    /\ main = "wait" /\ ready_sem > 0
    /\ ready_sem' = ready_sem - 1
    /\ main' = "accept"
    /\ UNCHANGED <<clients, answered, backlog, connfd, fdtab, pc, fd, out, refused, data_sem>>

Main == Accept \/ AcceptFails \/ CreateThread \/ WaitReady

(***************************************************************************)
(* A thread.                                                               *)
(***************************************************************************)
Goto(t, label) == pc' = [pc EXCEPT ![t] = label]
Unshared == UNCHANGED <<clients, answered, mainvars, refused>>

ReadFd(t) ==
    /\ pc[t] = "start"
    /\ fd' = [fd EXCEPT ![t] = connfd]
    /\ Goto(t, "post")
    /\ UNCHANGED <<ready_sem, fdtab, out, data_sem>> /\ Unshared

PostReady(t) ==
    /\ pc[t] = "post"
    /\ ready_sem' = ready_sem + 1
    /\ Goto(t, "line")
    /\ UNCHANGED <<fdtab, fd, out, data_sem>> /\ Unshared

\* The client at the other end of a thread's descriptor.
End(t) == fdtab[fd[t]]

Stay == UNCHANGED <<ready_sem, fdtab, fd, out, data_sem>> /\ Unshared

\* Rio_readlineb returns 0 at the end of a connection that sent nothing, and
\* -1 when the connection was reset, which may also lose what was sent and not
\* read: in both cases doit returns from there, and does not close.
ReadLine(t) ==
    /\ pc[t] = "line"
    /\ \/ /\ sent[End(t)] \in {"line", "all"}
          /\ Goto(t, IF ask[End(t)] = "garbage" THEN "error" ELSE "headers")
       \/ hungup[End(t)] /\ Goto(t, "dropped")
    /\ Stay

\* read_requesthdrs loops until its buffer holds the empty line.  At the end
\* of the connection, and once a reset has lost the rest of what was sent,
\* Rio_readlineb leaves the buffer as it is: the loop goes on for ever, unless
\* nothing was read into the buffer at all and the stack still holds the empty
\* line of an earlier request.
ReadHeaders(t) ==
    /\ pc[t] = "headers"
    /\ \/ sent[End(t)] = "all" /\ Goto(t, "lock")
       \/ hungup[End(t)] /\ (Goto(t, "lock") \/ Goto(t, "spin"))
    /\ Stay

Spin(t) == pc[t] = "spin" /\ UNCHANGED vars

\* P(&data_sem), in doit and after get_server_results.
Lock(t) ==
    /\ pc[t] \in {"lock", "relock"} /\ data_sem > 0
    /\ data_sem' = data_sem - 1
    /\ Goto(t, IF pc[t] = "lock" /\ ask[End(t)] = "copy" THEN "copy" ELSE "write")
    /\ UNCHANGED <<ready_sem, fdtab, fd, out>> /\ Unshared

\* Not the code: the other server is asked with data_sem held.
CopyUnderLock(t) ==
    /\ pc[t] = "copy"
    /\ Goto(t, "open")
    /\ Stay

ReleaseForCopy(t) ==
    /\ pc[t] = "copy"
    /\ data_sem' = data_sem + 1
    /\ Goto(t, "open")
    /\ UNCHANGED <<ready_sem, fdtab, fd, out>> /\ Unshared

\* Open_clientfd: the connection is made, or there is no descriptor for it or
\* nobody to answer.
OpenPeer(t) ==
    /\ pc[t] = "open"
    /\ \/ \E f \in Fd :
             /\ Lowest(f)
             /\ fdtab' = [fdtab EXCEPT ![f] = Peer]
             /\ out' = [out EXCEPT ![t] = f]
             /\ Goto(t, "await")
       \/ Goto(t, "relock") /\ UNCHANGED <<fdtab, out>>
    /\ UNCHANGED <<ready_sem, fd, data_sem>> /\ Unshared

\* get_server_results returns NULL for a status that is not 200, before it
\* closes its descriptor; with any other status or none at all it goes on.
PeerStatus(t) ==
    /\ pc[t] = "await"
    /\ \/ refused' = [refused EXCEPT ![t] = TRUE] /\ Goto(t, "relock")
       \/ Goto(t, "body") /\ UNCHANGED refused
    /\ UNCHANGED <<clients, answered, mainvars, ready_sem, fdtab, fd, out, data_sem>>

\* Not the code: the connection to the other server is left open.
PeerBodyLeftOpen(t) ==
    /\ pc[t] = "body"
    /\ Goto(t, "relock")
    /\ Stay

PeerBody(t) ==
    /\ pc[t] = "body"
    /\ fdtab' = [fdtab EXCEPT ![out[t]] = NULL]
    /\ out' = [out EXCEPT ![t] = NULL]
    /\ Goto(t, "relock")
    /\ UNCHANGED <<ready_sem, fd, data_sem>> /\ Unshared

PeerAnswers(t) == PeerStatus(t) \/ PeerBody(t)

\* Rio_writen returns once the socket has taken the whole reply, or at once
\* when the client is gone.
Delivers(t) ==
    IF hungup[End(t)] THEN UNCHANGED answered
                      ELSE answered' = [answered EXCEPT ![End(t)] = TRUE]

Write(t) ==
    /\ pc[t] = "write"
    /\ ask[End(t)] = "big" => reads[End(t)] \/ hungup[End(t)]
    /\ Delivers(t)
    /\ Goto(t, "unlock")
    /\ UNCHANGED <<clients, mainvars, ready_sem, fdtab, fd, out, refused, data_sem>>

Unlock(t) ==
    /\ pc[t] = "unlock"
    /\ data_sem' = data_sem + 1
    /\ Goto(t, "close")
    /\ UNCHANGED <<ready_sem, fdtab, fd, out>> /\ Unshared

\* Not the code: the error path releases a semaphore it never took.
WriteErrorThenUnlock(t) ==
    /\ pc[t] = "error"
    /\ Delivers(t)
    /\ Goto(t, "unlock")
    /\ UNCHANGED <<clients, mainvars, ready_sem, fdtab, fd, out, refused, data_sem>>

\* clienterror, for a request that never reaches serve_request.
WriteError(t) ==
    /\ pc[t] = "error"
    /\ Delivers(t)
    /\ Goto(t, "close")
    /\ UNCHANGED <<clients, mainvars, ready_sem, fdtab, fd, out, refused, data_sem>>

CloseFd(t) ==
    /\ pc[t] = "close"
    /\ fdtab' = [fdtab EXCEPT ![fd[t]] = NULL]
    /\ Goto(t, "exited")
    /\ UNCHANGED <<ready_sem, fd, out, data_sem>> /\ Unshared

\* What a thread does on its own; PeerAnswers waits for another server.
Step(t) ==
    \/ ReadFd(t) \/ PostReady(t) \/ ReadLine(t) \/ ReadHeaders(t) \/ Spin(t)
    \/ Lock(t) \/ ReleaseForCopy(t) \/ OpenPeer(t)
    \/ Write(t) \/ Unlock(t) \/ WriteError(t) \/ CloseFd(t)

Next ==
    \/ \E c \in Client : Connect(c) \/ SendLine(c) \/ SendHeaders(c) \/ StartReading(c) \/ HangUp(c)
    \/ Main
    \/ \E t \in Client : Step(t) \/ PeerAnswers(t)

Spec == Init /\ [][Next]_vars

\* main and every thread run when they can; well-behaved clients send the rest
\* of what they began and read the reply.  Nobody else has to do anything.
Fairness ==
    /\ WF_vars(Main)
    /\ \A t \in Client : WF_vars(Step(t))
    /\ \A c \in Good : WF_vars(SendLine(c) \/ SendHeaders(c) \/ StartReading(c))

FairSpec == Spec /\ Fairness

(***************************************************************************)
(* Properties.                                                             *)
(***************************************************************************)
Labels ==
    {"none", "start", "post", "line", "headers", "spin", "lock", "copy", "open",
     "await", "body", "relock", "write", "unlock", "error", "close", "exited", "dropped"}

\* The thread has read connfd and has not closed its descriptor.
HasFd(t) == pc[t] \notin {"none", "start", "exited"}

TypeOK ==
    /\ sent \in [Client -> {"nothing", "connection", "line", "all"}]
    /\ ask \in [Client -> AskType \cup {NULL}]
    /\ hungup \in [Client -> BOOLEAN]
    /\ reads \in [Client -> BOOLEAN]
    /\ answered \in [Client -> BOOLEAN]
    /\ backlog \in Seq(Client)
    /\ main \in {"accept", "create", "wait"}
    /\ connfd \in Fd \cup {NULL}
    /\ ready_sem \in {0, 1}
    /\ fdtab \in [Fd -> Client \cup {Peer, NULL}]
    /\ pc \in [Client -> Labels]
    /\ fd \in [Client -> Fd \cup {NULL}]
    /\ out \in [Client -> Fd \cup {NULL}]
    /\ refused \in [Client -> BOOLEAN]
    /\ data_sem \in {0, 1}

\* A thread serves the connection it was created for: it read connfd before
\* main stored the next descriptor in it, and nobody else closes a descriptor
\* that a thread has.
HandOver ==
    \A t \in Client : HasFd(t) => fd[t] \in Fd /\ fdtab[fd[t]] = t

\* data_sem is held by one thread at most, and by one exactly while it is 0.
Holds(t) == pc[t] \in {"copy", "write", "unlock"}
DataSem ==
    /\ \A t, u \in Client : Holds(t) /\ Holds(u) => t = u
    /\ data_sem = 1 <=> \A t \in Client : ~Holds(t)

\* A descriptor in use: on its way to a thread, that of a thread which is at
\* work on it, or that of a get_server_results under way.
InUse(f) ==
    \/ main = "create" /\ connfd = f
    \/ \E t \in Client :
          \/ pc[t] = "start" /\ connfd = f /\ fdtab[f] = t
          \/ HasFd(t) /\ pc[t] \notin {"dropped", "spin"} /\ fd[t] = f
          \/ pc[t] \in {"await", "body"} /\ out[t] = f

\* The server must not run out of resources by failing to close finished
\* connections: every open descriptor is in use.
NoLeak == \A f \in Fd : fdtab[f] # NULL => InUse(f)

\* The three ways in which the code loses one: doit returned when it could not
\* read a request line, the peer of a /copy had a status that is not 200, or
\* the client left and its thread loops in read_requesthdrs.
LostAtRequestLine(f) == \E t \in Client : pc[t] = "dropped" /\ fd[t] = f /\ fdtab[f] = t /\ hungup[t]
LostAtStatus(f) == \E t \in Client : refused[t] /\ out[t] = f /\ fdtab[f] = Peer
LostInHeaders(f) == \E t \in Client : pc[t] = "spin" /\ fd[t] = f /\ fdtab[f] = t /\ hungup[t]

Accounted(f) == InUse(f) \/ LostAtRequestLine(f) \/ LostAtStatus(f) \/ LostInHeaders(f)
\* No descriptor is lost in a fourth way, whatever clients and peers do: all
\* that is opened and not lost at one of the three places is closed in time.
DescriptorsAccounted == \A f \in Fd : fdtab[f] # NULL => Accounted(f)

\* What may keep every other client waiting for ever: a reply larger than the
\* socket's buffers is being written, with data_sem held, to a client that
\* neither reads nor hangs up; or all descriptors are taken while a connection
\* waits to be accepted.
Hopeless ==
    \/ \E t \in Client :
          pc[t] = "write" /\ ask[t] = "big" /\ ~reads[t] /\ ~hungup[t]
    \/ main = "accept" /\ backlog # <<>> /\ FreeFd = {}

\* The server goes on answering whatever its clients do: a well-behaved one
\* gets its reply.  Only the reply to a /copy waits for another server.
GoodAlwaysAnswered == \A c \in Good : sent[c] = "connection" ~> answered[c] \/ ask[c] = "copy"

\* The two ways in which the code fails in that are the only ones: unless the
\* server stays hopeless a well-behaved client gets its reply, also while a
\* thread spins in its header loop or waits for another server.
GoodAnswered == (<>[]~Hopeless) => GoodAlwaysAnswered
=============================================================================
