------------------------- MODULE RedpinServerProofs -------------------------
(***************************************************************************)
(* The hand-over of descriptors and the use of data_sem in RedpinServer,   *)
(* for any number of clients and descriptors.                              *)
(***************************************************************************)
EXTENDS RedpinServer, TLAPS

Starting(t) == pc[t] \in {"start", "post"}

\* ready_sem counts the threads that have read connfd and that main has not
\* noticed: there is one thread at most between its creation and that moment,
\* and connfd is still its descriptor until it has read it.
Handshake ==
    /\ \A t, u \in Client : Starting(t) /\ Starting(u) => t = u
    /\ main \in {"accept", "create"} \/ ready_sem = 1 =>
          \A t \in Client : ~Starting(t)
    /\ main \in {"accept", "create"} => ready_sem = 0
    /\ main = "create" =>
          /\ connfd \in Fd /\ fdtab[connfd] \in Client
          /\ pc[fdtab[connfd]] = "none"
          /\ sent[fdtab[connfd]] # "nothing"
    /\ \A t \in Client : pc[t] = "start" => connfd \in Fd /\ fdtab[connfd] = t

\* A connection is accepted once: it waits in the backlog, then main has it,
\* then its thread.
Queue ==
    /\ \A i \in DOMAIN backlog : pc[backlog[i]] = "none" /\ sent[backlog[i]] # "nothing"
    /\ \A i, j \in DOMAIN backlog : backlog[i] = backlog[j] => i = j
    /\ main = "create" => \A i \in DOMAIN backlog : backlog[i] # fdtab[connfd]
    /\ \A c \in Client : sent[c] = "nothing" => pc[c] = "none"

\* get_server_results has a descriptor of its own for its peer until it closes
\* it, and keeps it for ever when it does not.
Fetching(t) == pc[t] \in {"await", "body"}
Copies ==
    /\ \A t \in Client : Fetching(t) => out[t] \in Fd /\ fdtab[out[t]] = Peer
    /\ \A t, u \in Client : Fetching(t) /\ Fetching(u) /\ out[t] = out[u] => t = u
    /\ \A t, u \in Client : refused[t] /\ Fetching(u) => out[t] # out[u]
    /\ \A t \in Client : refused[t] =>
          /\ out[t] \in Fd /\ fdtab[out[t]] = Peer
          /\ pc[t] \in {"relock", "write", "unlock", "close", "exited"}

IInv == TypeOK /\ HandOver /\ DataSem /\ Handshake /\ Queue /\ Copies

\* Everything holds before the first client connects.
LEMMA InitIInv == Init => IInv
<1> SUFFICES ASSUME Init PROVE IInv
  OBVIOUS
<1>1. TypeOK
  BY DEF Init, TypeOK, Labels
<1>2. HandOver /\ DataSem
  BY DEF Init, HandOver, DataSem, HasFd, Holds
<1>3. Handshake /\ Queue /\ Copies
  BY DEF Init, Handshake, Queue, Copies, Fetching, Starting
<1> QED
  BY <1>1, <1>2, <1>3 DEF IInv

\* No step of a client, of main or of a thread breaks it: one step of the proof
\* for each action and, under it, one for each part the action can disturb.
LEMMA NextIInv == IInv /\ [Next]_vars => IInv'
<1> SUFFICES ASSUME IInv, [Next]_vars PROVE IInv'
  OBVIOUS
<1> USE ServerAssumption DEF IInv
<1>1. ASSUME NEW c \in Client, Connect(c) PROVE IInv'
  <2>1. TypeOK'
    BY <1>1 DEF Connect, Server, TypeOK, Labels
  <2>2. Handshake'
    BY <1>1 DEF Connect, Server, TypeOK, Handshake, Starting
  <2>3. Queue'
    <3>1. /\ DOMAIN backlog = 1..Len(backlog) /\ Len(backlog) \in Nat
          /\ DOMAIN backlog' = 1..(Len(backlog) + 1)
          /\ \A i \in 1..Len(backlog) : backlog'[i] = backlog[i] /\ backlog[i] # c
          /\ backlog'[Len(backlog) + 1] = c
      BY <1>1 DEF Connect, TypeOK, Queue
    <3>2. pc' = pc /\ connfd' = connfd /\ fdtab' = fdtab /\ main' = main
      BY <1>1 DEF Connect, Server
    <3>3. pc[c] = "none" /\ (main = "create" => fdtab[connfd] # c)
      BY <1>1 DEF Connect, Queue, Handshake
    <3>4. \A d \in Client : sent'[d] = IF d = c THEN "connection" ELSE sent[d]
      BY <1>1 DEF Connect, TypeOK
    <3>5. \A i \in DOMAIN backlog : backlog[i] \in Client
      BY <3>1 DEF TypeOK
    <3> QED
      BY <3>1, <3>2, <3>3, <3>4, <3>5 DEF Queue
  <2>4. HandOver' /\ DataSem' /\ Copies'
    BY <1>1 DEF Connect, Server, HandOver, HasFd, DataSem, Holds, Copies, Fetching
  <2> QED
    BY <2>1, <2>2, <2>3, <2>4
<1>2. ASSUME NEW c \in Client, SendLine(c) PROVE IInv'
  <2>1. TypeOK'
    BY <1>2 DEF SendLine, Server, AskType, TypeOK, Labels
  <2>2. Handshake'
    BY <1>2 DEF SendLine, Server, AskType, TypeOK, Handshake, Starting
  <2>3. Queue'
    BY <1>2 DEF SendLine, Server, AskType, TypeOK, Queue
  <2>4. HandOver' /\ DataSem' /\ Copies'
    BY <1>2 DEF SendLine, Server, AskType, HandOver, HasFd, DataSem, Holds, Copies, Fetching
  <2> QED
    BY <2>1, <2>2, <2>3, <2>4
<1>3. ASSUME NEW c \in Client, SendHeaders(c) PROVE IInv'
  <2>1. TypeOK'
    BY <1>3 DEF SendHeaders, Server, TypeOK, Labels
  <2>2. Handshake'
    BY <1>3 DEF SendHeaders, Server, TypeOK, Handshake, Starting
  <2>3. Queue'
    BY <1>3 DEF SendHeaders, Server, TypeOK, Queue
  <2>4. HandOver' /\ DataSem' /\ Copies'
    BY <1>3 DEF SendHeaders, Server, HandOver, HasFd, DataSem, Holds, Copies, Fetching
  <2> QED
    BY <2>1, <2>2, <2>3, <2>4
<1>4. ASSUME NEW c \in Client, StartReading(c) PROVE IInv'
  <2>1. TypeOK'
    BY <1>4 DEF StartReading, Server, TypeOK, Labels
  <2>2. HandOver' /\ DataSem' /\ Handshake' /\ Queue' /\ Copies'
    BY <1>4 DEF StartReading, Server, HandOver, HasFd, DataSem, Holds, Handshake, Starting, Queue, Copies, Fetching
  <2> QED
    BY <2>1, <2>2
<1>5. ASSUME NEW c \in Client, HangUp(c) PROVE IInv'
  <2>1. TypeOK'
    BY <1>5 DEF HangUp, Server, TypeOK, Labels
  <2>2. HandOver' /\ DataSem' /\ Handshake' /\ Queue' /\ Copies'
    BY <1>5 DEF HangUp, Server, HandOver, HasFd, DataSem, Holds, Handshake, Starting, Queue, Copies, Fetching
  <2> QED
    BY <2>1, <2>2
<1>6. ASSUME Accept PROVE IInv'
  <2>1. TypeOK'
    BY <1>6 DEF Accept, clients, Lowest, FreeFd, TypeOK, Labels
  <2>2. HandOver'
    BY <1>6 DEF Accept, clients, Lowest, FreeFd, TypeOK, HandOver, HasFd
  <2>3. Handshake'
    <3>1. Head(backlog) = backlog[1] /\ 1 \in DOMAIN backlog /\ Head(backlog) \in Client
      BY <1>6 DEF Accept, TypeOK
    <3>2. pc[Head(backlog)] = "none" /\ sent[Head(backlog)] # "nothing"
      BY <3>1 DEF Queue
    <3>3. \A t \in Client : ~Starting(t)
      BY <1>6 DEF Accept, Handshake
    <3>4. connfd' \in Fd /\ fdtab'[connfd'] = Head(backlog)
      BY <1>6 DEF Accept, Lowest, FreeFd, TypeOK
    <3> QED
      BY <1>6, <3>1, <3>2, <3>3, <3>4 DEF Accept, clients, Handshake, Starting
  <2>4. Queue'
    BY <1>6 DEF Accept, clients, Lowest, FreeFd, TypeOK, Queue
  <2>5. Copies'
    BY <1>6 DEF Accept, clients, Lowest, FreeFd, TypeOK, Copies, Fetching
  <2>6. DataSem'
    BY <1>6 DEF Accept, clients, Lowest, FreeFd, DataSem, Holds
  <2> QED
    BY <2>1, <2>2, <2>3, <2>4, <2>5, <2>6
<1>7. ASSUME AcceptFails PROVE IInv'
  <2>1. TypeOK'
    BY <1>7 DEF AcceptFails, clients, TypeOK, Labels
  <2>2. Handshake'
    BY <1>7 DEF AcceptFails, clients, TypeOK, Handshake, Starting
  <2>3. Queue'
    BY <1>7 DEF AcceptFails, clients, TypeOK, Queue
  <2>4. HandOver' /\ DataSem' /\ Copies'
    BY <1>7 DEF AcceptFails, clients, HandOver, HasFd, DataSem, Holds, Copies, Fetching
  <2> QED
    BY <2>1, <2>2, <2>3, <2>4
<1>8. ASSUME CreateThread PROVE IInv'
  <2>1. TypeOK'
    BY <1>8 DEF CreateThread, clients, TypeOK, Labels
  <2>2. HandOver'
    BY <1>8 DEF CreateThread, clients, TypeOK, HandOver, HasFd
  <2>3. DataSem'
    <3> DEFINE c == fdtab[connfd]
    <3>1. c \in Client /\ pc[c] = "none" /\ sent[c] # "nothing"
      BY <1>8 DEF CreateThread, Handshake
    <3>2. \A t \in Client : pc'[t] = IF t = c THEN "start" ELSE pc[t]
      BY <1>8, <3>1 DEF CreateThread, TypeOK
    <3>3. \A t \in Client : Holds(t)' <=> Holds(t)
      BY <3>1, <3>2 DEF Holds
    <3> QED
      BY <1>8, <3>3 DEF CreateThread, DataSem
  <2>4. Handshake'
    BY <1>8 DEF CreateThread, clients, TypeOK, Handshake, Starting
  <2>5. Queue'
    <3> DEFINE c == fdtab[connfd]
    <3>1. c \in Client /\ pc[c] = "none" /\ sent[c] # "nothing"
      BY <1>8 DEF CreateThread, Handshake
    <3>2. \A t \in Client : pc'[t] = IF t = c THEN "start" ELSE pc[t]
      BY <1>8, <3>1 DEF CreateThread, TypeOK
    <3>3. \A i \in DOMAIN backlog : backlog[i] \in Client /\ backlog[i] # c
      BY <1>8 DEF CreateThread, TypeOK, Queue
    <3> QED
      BY <1>8, <3>1, <3>2, <3>3 DEF CreateThread, clients, Queue
  <2>6. Copies'
    BY <1>8 DEF CreateThread, clients, TypeOK, Copies, Fetching, Handshake
  <2> QED
    BY <2>1, <2>2, <2>3, <2>4, <2>5, <2>6
<1>9. ASSUME WaitReady PROVE IInv'
  <2>1. TypeOK'
    BY <1>9 DEF WaitReady, clients, TypeOK, Labels
  <2>2. Handshake'
    BY <1>9 DEF WaitReady, clients, TypeOK, Handshake, Starting
  <2>3. Queue'
    BY <1>9 DEF WaitReady, clients, TypeOK, Queue
  <2>4. HandOver' /\ DataSem' /\ Copies'
    BY <1>9 DEF WaitReady, clients, HandOver, HasFd, DataSem, Holds, Copies, Fetching
  <2> QED
    BY <2>1, <2>2, <2>3, <2>4
<1>10. ASSUME NEW t \in Client, ReadFd(t) PROVE IInv'
  <2>1. TypeOK'
    BY <1>10 DEF ReadFd, Goto, Unshared, clients, mainvars, TypeOK, Labels
  <2>2. HandOver'
    BY <1>10 DEF ReadFd, Goto, Unshared, clients, mainvars, TypeOK, HandOver, HasFd, Handshake
  <2>3. DataSem'
    BY <1>10 DEF ReadFd, Goto, Unshared, clients, mainvars, TypeOK, DataSem, Holds
  <2>4. Handshake'
    BY <1>10 DEF ReadFd, Goto, Unshared, clients, mainvars, TypeOK, Handshake, Starting
  <2>5. Queue'
    BY <1>10 DEF ReadFd, Goto, Unshared, clients, mainvars, TypeOK, Queue
  <2>6. Copies'
    BY <1>10 DEF ReadFd, Goto, Unshared, clients, mainvars, TypeOK, Copies, Fetching
  <2> QED
    BY <2>1, <2>2, <2>3, <2>4, <2>5, <2>6
<1>11. ASSUME NEW t \in Client, PostReady(t) PROVE IInv'
  <2>1. TypeOK'
    <3>1. ready_sem = 0
      BY <1>11 DEF PostReady, TypeOK, Handshake, Starting
    <3> QED
      BY <1>11, <3>1 DEF PostReady, Goto, Unshared, clients, mainvars, TypeOK, Labels
  <2>2. HandOver'
    BY <1>11 DEF PostReady, Goto, Unshared, clients, mainvars, TypeOK, HandOver, HasFd
  <2>3. DataSem'
    BY <1>11 DEF PostReady, Goto, Unshared, clients, mainvars, TypeOK, DataSem, Holds
  <2>4. Handshake'
    BY <1>11 DEF PostReady, Goto, Unshared, clients, mainvars, TypeOK, Handshake, Starting
  <2>5. Queue'
    BY <1>11 DEF PostReady, Goto, Unshared, clients, mainvars, TypeOK, Queue
  <2>6. Copies'
    BY <1>11 DEF PostReady, Goto, Unshared, clients, mainvars, TypeOK, Copies, Fetching
  <2> QED
    BY <2>1, <2>2, <2>3, <2>4, <2>5, <2>6
<1>12. ASSUME NEW t \in Client, ReadLine(t) PROVE IInv'
  <2>1. TypeOK'
    BY <1>12 DEF ReadLine, Goto, Stay, Unshared, clients, mainvars, TypeOK, Labels
  <2>2. HandOver'
    BY <1>12 DEF ReadLine, Goto, Stay, Unshared, clients, mainvars, TypeOK, HandOver, HasFd
  <2>3. DataSem'
    BY <1>12 DEF ReadLine, Goto, Stay, Unshared, clients, mainvars, TypeOK, DataSem, Holds
  <2>4. Handshake'
    BY <1>12 DEF ReadLine, Goto, Stay, Unshared, clients, mainvars, TypeOK, Handshake, Starting
  <2>5. Queue'
    BY <1>12 DEF ReadLine, Goto, Stay, Unshared, clients, mainvars, TypeOK, Queue
  <2>6. Copies'
    BY <1>12 DEF ReadLine, Goto, Stay, Unshared, clients, mainvars, TypeOK, Copies, Fetching
  <2> QED
    BY <2>1, <2>2, <2>3, <2>4, <2>5, <2>6
<1>13. ASSUME NEW t \in Client, ReadHeaders(t) PROVE IInv'
  <2>1. TypeOK'
    BY <1>13 DEF ReadHeaders, Goto, Stay, Unshared, clients, mainvars, TypeOK, Labels
  <2>2. HandOver'
    BY <1>13 DEF ReadHeaders, Goto, Stay, Unshared, clients, mainvars, TypeOK, HandOver, HasFd
  <2>3. DataSem'
    BY <1>13 DEF ReadHeaders, Goto, Stay, Unshared, clients, mainvars, TypeOK, DataSem, Holds
  <2>4. Handshake'
    BY <1>13 DEF ReadHeaders, Goto, Stay, Unshared, clients, mainvars, TypeOK, Handshake, Starting
  <2>5. Queue'
    BY <1>13 DEF ReadHeaders, Goto, Stay, Unshared, clients, mainvars, TypeOK, Queue
  <2>6. Copies'
    BY <1>13, SMTT(40) DEF ReadHeaders, Goto, Stay, Unshared, clients, mainvars, TypeOK, Copies, Fetching
  <2> QED
    BY <2>1, <2>2, <2>3, <2>4, <2>5, <2>6
<1>14. ASSUME NEW t \in Client, Lock(t) PROVE IInv'
  <2>1. TypeOK'
    BY <1>14 DEF Lock, Goto, Unshared, clients, mainvars, TypeOK, Labels
  <2>2. HandOver'
    BY <1>14 DEF Lock, Goto, Unshared, clients, mainvars, TypeOK, HandOver, HasFd
  <2>3. DataSem'
    BY <1>14 DEF Lock, Goto, Unshared, clients, mainvars, TypeOK, DataSem, Holds
  <2>4. Handshake'
    BY <1>14 DEF Lock, Goto, Unshared, clients, mainvars, TypeOK, Handshake, Starting
  <2>5. Queue'
    BY <1>14 DEF Lock, Goto, Unshared, clients, mainvars, TypeOK, Queue
  <2>6. Copies'
    BY <1>14 DEF Lock, Goto, Unshared, clients, mainvars, TypeOK, Copies, Fetching
  <2> QED
    BY <2>1, <2>2, <2>3, <2>4, <2>5, <2>6
<1>15. ASSUME NEW t \in Client, ReleaseForCopy(t) PROVE IInv'
  <2>1. TypeOK'
    <3>1. data_sem = 0
      BY <1>15 DEF ReleaseForCopy, TypeOK, DataSem, Holds
    <3> QED
      BY <1>15, <3>1 DEF ReleaseForCopy, Goto, Unshared, clients, mainvars, TypeOK, Labels
  <2>2. HandOver'
    BY <1>15 DEF ReleaseForCopy, Goto, Unshared, clients, mainvars, TypeOK, HandOver, HasFd
  <2>3. DataSem'
    BY <1>15 DEF ReleaseForCopy, Goto, Unshared, clients, mainvars, TypeOK, DataSem, Holds
  <2>4. Handshake'
    BY <1>15 DEF ReleaseForCopy, Goto, Unshared, clients, mainvars, TypeOK, Handshake, Starting
  <2>5. Queue'
    BY <1>15 DEF ReleaseForCopy, Goto, Unshared, clients, mainvars, TypeOK, Queue
  <2>6. Copies'
    BY <1>15 DEF ReleaseForCopy, Goto, Unshared, clients, mainvars, TypeOK, Copies, Fetching
  <2> QED
    BY <2>1, <2>2, <2>3, <2>4, <2>5, <2>6
<1>16. ASSUME NEW t \in Client, OpenPeer(t) PROVE IInv'
  <2>1. TypeOK'
    BY <1>16, SMTT(40) DEF OpenPeer, Goto, Unshared, clients, mainvars, Lowest, FreeFd, TypeOK, Labels
  <2>2. HandOver'
    BY <1>16 DEF OpenPeer, Goto, Unshared, clients, mainvars, Lowest, FreeFd, TypeOK, HandOver, HasFd
  <2>3. DataSem'
    BY <1>16 DEF OpenPeer, Goto, Unshared, clients, mainvars, Lowest, FreeFd, TypeOK, DataSem, Holds
  <2>4. Handshake'
    BY <1>16 DEF OpenPeer, Goto, Unshared, clients, mainvars, Lowest, FreeFd, TypeOK, Handshake, Starting
  <2>5. Queue'
    BY <1>16 DEF OpenPeer, Goto, Unshared, clients, mainvars, Lowest, FreeFd, TypeOK, Queue, Handshake
  <2>6. Copies'
    <3>1. ~refused[t] /\ UNCHANGED refused
      BY <1>16 DEF OpenPeer, Unshared, Copies
    <3>2. ASSUME NEW g \in Fd, Lowest(g), fdtab' = [fdtab EXCEPT ![g] = Peer],
                 out' = [out EXCEPT ![t] = g], Goto(t, "await")
          PROVE Copies'
      BY <3>1, <3>2 DEF Goto, Lowest, FreeFd, TypeOK, Copies, Fetching
    <3>3. CASE UNCHANGED <<fdtab, out>> /\ Goto(t, "relock")
      BY <3>1, <3>3 DEF Goto, TypeOK, Copies, Fetching
    <3> QED
      BY <1>16, <3>2, <3>3 DEF OpenPeer
  <2> QED
    BY <2>1, <2>2, <2>3, <2>4, <2>5, <2>6
<1>17. ASSUME NEW t \in Client, PeerStatus(t) PROVE IInv'
  <2>1. TypeOK'
    BY <1>17 DEF PeerStatus, Goto, Stay, Unshared, clients, mainvars, TypeOK, Labels
  <2>2. HandOver'
    BY <1>17 DEF PeerStatus, Goto, Stay, Unshared, clients, mainvars, TypeOK, HandOver, HasFd, Copies, Fetching
  <2>3. DataSem'
    BY <1>17 DEF PeerStatus, Goto, Stay, Unshared, clients, mainvars, TypeOK, DataSem, Holds
  <2>4. Handshake'
    BY <1>17 DEF PeerStatus, Goto, Stay, Unshared, clients, mainvars, TypeOK, Handshake, Starting
  <2>5. Queue'
    BY <1>17 DEF PeerStatus, Goto, Stay, Unshared, clients, mainvars, TypeOK, Queue, Copies, Fetching, Handshake
  <2>6. Copies'
    BY <1>17 DEF PeerStatus, Goto, Stay, Unshared, clients, mainvars, TypeOK, Copies, Fetching
  <2> QED
    BY <2>1, <2>2, <2>3, <2>4, <2>5, <2>6
<1>24. ASSUME NEW t \in Client, PeerBody(t) PROVE IInv'
  <2>1. TypeOK'
    BY <1>24 DEF PeerBody, Goto, Stay, Unshared, clients, mainvars, TypeOK, Labels
  <2>2. HandOver'
    BY <1>24 DEF PeerBody, Goto, Stay, Unshared, clients, mainvars, TypeOK, HandOver, HasFd, Copies, Fetching
  <2>3. DataSem'
    BY <1>24 DEF PeerBody, Goto, Stay, Unshared, clients, mainvars, TypeOK, DataSem, Holds
  <2>4. Handshake'
    BY <1>24 DEF PeerBody, Goto, Stay, Unshared, clients, mainvars, TypeOK, Handshake, Starting, Copies, Fetching
  <2>5. Queue'
    BY <1>24 DEF PeerBody, Goto, Stay, Unshared, clients, mainvars, TypeOK, Queue, Copies, Fetching, Handshake
  <2>6. Copies'
    BY <1>24 DEF PeerBody, Goto, Stay, Unshared, clients, mainvars, TypeOK, Copies, Fetching
  <2> QED
    BY <2>1, <2>2, <2>3, <2>4, <2>5, <2>6
<1>18. ASSUME NEW t \in Client, Write(t) PROVE IInv'
  <2>1. TypeOK'
    BY <1>18 DEF Write, Goto, Delivers, clients, mainvars, TypeOK, Labels
  <2>2. HandOver'
    BY <1>18 DEF Write, Goto, Delivers, clients, mainvars, TypeOK, HandOver, HasFd
  <2>3. DataSem'
    BY <1>18 DEF Write, Goto, Delivers, clients, mainvars, TypeOK, DataSem, Holds
  <2>4. Handshake'
    BY <1>18 DEF Write, Goto, Delivers, clients, mainvars, TypeOK, Handshake, Starting
  <2>5. Queue'
    BY <1>18 DEF Write, Goto, Delivers, clients, mainvars, TypeOK, Queue
  <2>6. Copies'
    BY <1>18 DEF Write, Goto, Delivers, clients, mainvars, TypeOK, Copies, Fetching
  <2> QED
    BY <2>1, <2>2, <2>3, <2>4, <2>5, <2>6
<1>19. ASSUME NEW t \in Client, Unlock(t) PROVE IInv'
  <2>1. TypeOK'
    <3>1. data_sem = 0
      BY <1>19 DEF Unlock, TypeOK, DataSem, Holds
    <3> QED
      BY <1>19, <3>1 DEF Unlock, Goto, Unshared, clients, mainvars, TypeOK, Labels
  <2>2. HandOver'
    BY <1>19 DEF Unlock, Goto, Unshared, clients, mainvars, TypeOK, HandOver, HasFd
  <2>3. DataSem'
    BY <1>19 DEF Unlock, Goto, Unshared, clients, mainvars, TypeOK, DataSem, Holds
  <2>4. Handshake'
    BY <1>19 DEF Unlock, Goto, Unshared, clients, mainvars, TypeOK, Handshake, Starting
  <2>5. Queue'
    BY <1>19 DEF Unlock, Goto, Unshared, clients, mainvars, TypeOK, Queue
  <2>6. Copies'
    BY <1>19 DEF Unlock, Goto, Unshared, clients, mainvars, TypeOK, Copies, Fetching
  <2> QED
    BY <2>1, <2>2, <2>3, <2>4, <2>5, <2>6
<1>20. ASSUME NEW t \in Client, WriteError(t) PROVE IInv'
  <2>1. TypeOK'
    BY <1>20 DEF WriteError, Goto, Delivers, clients, mainvars, TypeOK, Labels
  <2>2. HandOver'
    BY <1>20 DEF WriteError, Goto, Delivers, clients, mainvars, TypeOK, HandOver, HasFd
  <2>3. DataSem'
    BY <1>20 DEF WriteError, Goto, Delivers, clients, mainvars, TypeOK, DataSem, Holds
  <2>4. Handshake'
    BY <1>20 DEF WriteError, Goto, Delivers, clients, mainvars, TypeOK, Handshake, Starting
  <2>5. Queue'
    BY <1>20 DEF WriteError, Goto, Delivers, clients, mainvars, TypeOK, Queue
  <2>6. Copies'
    BY <1>20 DEF WriteError, Goto, Delivers, clients, mainvars, TypeOK, Copies, Fetching
  <2> QED
    BY <2>1, <2>2, <2>3, <2>4, <2>5, <2>6
<1>21. ASSUME NEW t \in Client, CloseFd(t) PROVE IInv'
  <2>1. TypeOK'
    BY <1>21 DEF CloseFd, Goto, Unshared, clients, mainvars, TypeOK, Labels
  <2>2. HandOver'
    BY <1>21 DEF CloseFd, Goto, Unshared, clients, mainvars, TypeOK, HandOver, HasFd
  <2>3. DataSem'
    BY <1>21 DEF CloseFd, Goto, Unshared, clients, mainvars, TypeOK, DataSem, Holds
  <2>4. Handshake'
    BY <1>21 DEF CloseFd, Goto, Unshared, clients, mainvars, TypeOK, Handshake, Starting, HandOver, HasFd
  <2>5. Queue'
    BY <1>21 DEF CloseFd, Goto, Unshared, clients, mainvars, TypeOK, Queue
  <2>6. Copies'
    BY <1>21 DEF CloseFd, Goto, Unshared, clients, mainvars, TypeOK, Copies, Fetching, HandOver, HasFd
  <2> QED
    BY <2>1, <2>2, <2>3, <2>4, <2>5, <2>6
<1>22. ASSUME UNCHANGED vars PROVE IInv'
  BY <1>22 DEF vars, clients, mainvars, TypeOK, HandOver, HasFd, DataSem, Holds,
     Handshake, Starting, Queue, Copies, Fetching
<1>23. ASSUME NEW t \in Client, Spin(t) PROVE IInv'
  BY <1>22, <1>23 DEF Spin
<1> QED
  BY <1>1, <1>2, <1>3, <1>4, <1>5, <1>6, <1>7, <1>8, <1>9, <1>10, <1>11, <1>12, <1>13, <1>14, <1>15, <1>16, <1>17, <1>18, <1>19, <1>20, <1>21, <1>22, <1>23, <1>24
     DEF Next, Main, Step, PeerAnswers

\* The inductive invariant of the server.
LEMMA SpecIInv == Spec => []IInv
  BY InitIInv, NextIInv, PTL DEF Spec

\* Every variable of the server has its type; in particular neither semaphore
\* is ever posted twice.
THEOREM TypeCorrect == Spec => []TypeOK
<1>1. IInv => TypeOK
  BY DEF IInv
<1> QED
  BY <1>1, SpecIInv, PTL

\* Every thread serves the connection it was created for: main cannot assign
\* to connfd before the thread has read it, and no descriptor in use is closed.
THEOREM HandOverSafe == Spec => []HandOver
<1>1. IInv => HandOver
  BY DEF IInv
<1> QED
  BY <1>1, SpecIInv, PTL

\* At most one thread is between P(&data_sem) and V(&data_sem), and the
\* semaphore is 0 exactly while there is one.
THEOREM DataSemExclusive == Spec => []DataSem
<1>1. IInv => DataSem
  BY DEF IInv
<1> QED
  BY <1>1, SpecIInv, PTL

\* A thread has no descriptor for a peer before it opens one.
NoPeerYet ==
    \A t \in Client :
        pc[t] \in {"none", "start", "post", "line", "headers", "lock", "copy", "open"}
            => out[t] = NULL /\ ~refused[t]

AInv == IInv /\ NoPeerYet /\ DescriptorsAccounted

LEMMA NextNoPeerYet == IInv /\ NoPeerYet /\ [Next]_vars => NoPeerYet'
<1> SUFFICES ASSUME IInv, NoPeerYet, [Next]_vars PROVE NoPeerYet'
  OBVIOUS
<1> USE DEF IInv, TypeOK, NoPeerYet
<1>1. ASSUME NEW c \in Client,
             Connect(c) \/ SendLine(c) \/ SendHeaders(c) \/ StartReading(c) \/ HangUp(c)
      PROVE NoPeerYet'
  BY <1>1 DEF Connect, SendLine, SendHeaders, StartReading, HangUp, Server
<1>2. ASSUME Main PROVE NoPeerYet'
  BY <1>2 DEF Main, Accept, AcceptFails, CreateThread, WaitReady, Handshake
<1>3. ASSUME NEW t \in Client, Step(t) PROVE NoPeerYet'
  BY <1>3 DEF Step, ReadFd, PostReady, ReadLine, ReadHeaders, Spin, Lock, ReleaseForCopy,
     OpenPeer, Write, Unlock, WriteError, CloseFd, Goto, Stay, Unshared, vars
<1>4. ASSUME NEW t \in Client, PeerAnswers(t) PROVE NoPeerYet'
  BY <1>4 DEF PeerAnswers, PeerStatus, PeerBody, Goto, Unshared
<1>5. ASSUME UNCHANGED vars PROVE NoPeerYet'
  BY <1>5 DEF vars
<1> QED
  BY <1>1, <1>2, <1>3, <1>4, <1>5 DEF Next

\* A descriptor that is accounted for stays so, unless it is closed: when its
\* own thread moves on, to another label or into one of the ways to lose it.
LEMMA NextAccounted == AInv /\ [Next]_vars => DescriptorsAccounted'
<1> SUFFICES ASSUME AInv, [Next]_vars, NEW f \in Fd, fdtab'[f] # NULL
             PROVE Accounted(f)'
  BY DEF DescriptorsAccounted
<1> USE ServerAssumption DEF AInv, IInv, Accounted, InUse, LostAtRequestLine, LostAtStatus, LostInHeaders, HasFd
<1>0. fdtab[f] # NULL => Accounted(f)
  BY DEF DescriptorsAccounted
<1>1. ASSUME NEW c \in Client, Connect(c) PROVE Accounted(f)'
  BY <1>0, <1>1 DEF Connect, Server, TypeOK
<1>2. ASSUME NEW c \in Client, SendLine(c) PROVE Accounted(f)'
  BY <1>0, <1>2 DEF SendLine, Server, AskType, TypeOK
<1>3. ASSUME NEW c \in Client, SendHeaders(c) PROVE Accounted(f)'
  BY <1>0, <1>3 DEF SendHeaders, Server, TypeOK
<1>4. ASSUME NEW c \in Client, StartReading(c) PROVE Accounted(f)'
  BY <1>0, <1>4 DEF StartReading, Server, TypeOK
<1>5. ASSUME NEW c \in Client, HangUp(c) PROVE Accounted(f)'
  BY <1>0, <1>5 DEF HangUp, Server, TypeOK
<1>6. ASSUME Accept PROVE Accounted(f)'
  BY <1>0, <1>6 DEF Accept, clients, Lowest, FreeFd, TypeOK, Handshake, Starting
<1>7. ASSUME AcceptFails PROVE Accounted(f)'
  BY <1>0, <1>7 DEF AcceptFails, clients, TypeOK, Handshake, Starting
<1>8. ASSUME CreateThread PROVE Accounted(f)'
  BY <1>0, <1>8 DEF CreateThread, clients, TypeOK, Handshake
<1>9. ASSUME WaitReady PROVE Accounted(f)'
  BY <1>0, <1>9 DEF WaitReady, clients, TypeOK
<1>10. ASSUME NEW t \in Client, ReadFd(t) PROVE Accounted(f)'
  BY <1>0, <1>10 DEF ReadFd, Goto, Unshared, clients, mainvars, TypeOK, Handshake
<1>11. ASSUME NEW t \in Client, PostReady(t) PROVE Accounted(f)'
  BY <1>0, <1>11 DEF PostReady, Goto, Unshared, clients, mainvars, TypeOK
<1>12. ASSUME NEW t \in Client, ReadLine(t) PROVE Accounted(f)'
  BY <1>0, <1>12 DEF ReadLine, Goto, Unshared, clients, mainvars, Stay, TypeOK, End, HandOver
<1>13. ASSUME NEW t \in Client, ReadHeaders(t) PROVE Accounted(f)'
  BY <1>0, <1>13 DEF ReadHeaders, Goto, Unshared, clients, mainvars, Stay, TypeOK, End, HandOver
<1>14. ASSUME NEW t \in Client, Lock(t) PROVE Accounted(f)'
  BY <1>0, <1>14 DEF Lock, Goto, Unshared, clients, mainvars, TypeOK
<1>15. ASSUME NEW t \in Client, ReleaseForCopy(t) PROVE Accounted(f)'
  BY <1>0, <1>15 DEF ReleaseForCopy, Goto, Unshared, clients, mainvars, TypeOK
<1>16. ASSUME NEW t \in Client, OpenPeer(t) PROVE Accounted(f)'
  <2>0. UNCHANGED <<main, connfd, fd, hungup, refused>> /\ pc[t] = "open" /\ out[t] = NULL /\ ~refused[t]
    BY <1>16 DEF OpenPeer, Unshared, clients, mainvars, NoPeerYet
  <2>1. ASSUME NEW g \in Fd, Lowest(g), fdtab' = [fdtab EXCEPT ![g] = Peer],
               out' = [out EXCEPT ![t] = g], pc' = [pc EXCEPT ![t] = "await"]
        PROVE Accounted(f)'
    <3>1. CASE f = g
      BY <2>1, <3>1 DEF TypeOK
    <3>2. CASE f # g
      <4>1. fdtab'[f] = fdtab[f] /\ Accounted(f)
        BY <1>0, <2>1, <3>2 DEF TypeOK
      <4>2. /\ \A u \in Client : u # t => out'[u] = out[u] /\ pc'[u] = pc[u]
            /\ pc'[t] = "await" /\ out[t] # f
        BY <2>0, <2>1 DEF TypeOK, Fd
      <4> QED
        BY <2>0, <4>1, <4>2
    <3> QED
      BY <3>1, <3>2
  <2>2. CASE UNCHANGED <<fdtab, out>> /\ Goto(t, "relock")
    BY <1>0, <2>0, <2>2 DEF Goto, TypeOK
  <2> QED
    BY <1>16, <2>1, <2>2 DEF OpenPeer, Goto
<1>17. ASSUME NEW t \in Client, PeerStatus(t) PROVE Accounted(f)'
  BY <1>0, <1>17 DEF PeerStatus, Goto, Unshared, clients, mainvars, TypeOK, Copies, Fetching
<1>18. ASSUME NEW t \in Client, PeerBody(t) PROVE Accounted(f)'
  BY <1>0, <1>18 DEF PeerBody, Goto, Unshared, clients, mainvars, TypeOK, Copies, Fetching
<1>19. ASSUME NEW t \in Client, Write(t) PROVE Accounted(f)'
  BY <1>0, <1>19 DEF Write, Goto, Unshared, clients, mainvars, Delivers, TypeOK
<1>20. ASSUME NEW t \in Client, Unlock(t) PROVE Accounted(f)'
  BY <1>0, <1>20 DEF Unlock, Goto, Unshared, clients, mainvars, TypeOK
<1>21. ASSUME NEW t \in Client, WriteError(t) PROVE Accounted(f)'
  BY <1>0, <1>21 DEF WriteError, Goto, Unshared, clients, mainvars, Delivers, TypeOK
<1>22. ASSUME NEW t \in Client, CloseFd(t) PROVE Accounted(f)'
  BY <1>0, <1>22 DEF CloseFd, Goto, Unshared, clients, mainvars, TypeOK, HandOver
<1>23. ASSUME UNCHANGED vars PROVE Accounted(f)'
  BY <1>0, <1>23 DEF vars, clients, mainvars
<1>24. ASSUME NEW t \in Client, Spin(t) PROVE Accounted(f)'
  BY <1>23, <1>24 DEF Spin
<1> QED
  BY <1>1, <1>2, <1>3, <1>4, <1>5, <1>6, <1>7, <1>8, <1>9, <1>10, <1>11, <1>12, <1>13, <1>14, <1>15, <1>16, <1>17, <1>18, <1>19, <1>20, <1>21, <1>22, <1>23, <1>24
     DEF Next, Main, Step, PeerAnswers

\* The three places where the code loses a descriptor are the only ones.
THEOREM OnlyKnownLeaks == Spec => []DescriptorsAccounted
<1>1. Init => AInv
  BY InitIInv DEF AInv, Init, NoPeerYet, DescriptorsAccounted
<1>2. AInv /\ [Next]_vars => AInv'
  BY NextIInv, NextNoPeerYet, NextAccounted DEF AInv, IInv
<1>3. AInv => DescriptorsAccounted
  BY DEF AInv
<1> QED
  BY <1>1, <1>2, <1>3, PTL DEF Spec
=============================================================================
