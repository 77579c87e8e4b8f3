--------------------------- MODULE IPCUnixSocket ----------------------------
(***************************************************************************)
(* IPCUnixSocket (ipc_unixsocket.cpp): a message goes as two datagrams, a  *)
(* header with the sizes and the payload.  The receiver takes the header   *)
(* in one event and the payload in another when it is not there yet.       *)
(*                                                                         *)
(* Each socket of Socks is the end a proxy sends with; the other end is    *)
(* bound by the worker, whose readyRead slot calls receive().  A message   *)
(* is a number, in the order of the calls of send().  The queue of the     *)
(* kernel is bounded and does not block: a datagram that does not fit is   *)
(* refused.  It belongs to the socket, which the parent keeps open: it     *)
(* survives the worker.                                                    *)
(***************************************************************************)
EXTENDS Naturals, Sequences, SequencesExt

CONSTANTS
    Socks,
    MaxMessages,    \* bound: the messages sent altogether
    QueueLimit,     \* datagrams that fit in the queue of a socket
    NoMessage

Messages == 1 .. MaxMessages

Datagrams == {"header", "payload"} \X Messages

VARIABLES
    bound,      \* isBound() of the sending end
    peerBound,  \* isBound() of the receiving end
    queue,      \* the datagrams on their way
    header,     \* headerReceived_ and header_ of the receiving end
    last,       \* the last message whose header was sent
    sending,    \* the message whose header was sent and whose payload was not
    sent,       \* the messages for which send() returned success
    received,   \* the header and the payload of the messages received
    torn        \* a header was sent whose payload was refused

socketVars == <<bound, peerBound, queue, header, last, sending, sent, received,
                torn>>

SocketInit ==
    /\ bound = [s \in Socks |-> FALSE]
    /\ peerBound = [s \in Socks |-> FALSE]
    /\ queue = [s \in Socks |-> <<>>]
    /\ header = [s \in Socks |-> NoMessage]
    /\ last = 0
    /\ sending = [s \in Socks |-> NoMessage]
    /\ sent = [s \in Socks |-> <<>>]
    /\ received = [s \in Socks |-> <<>>]
    /\ torn = [s \in Socks |-> FALSE]

(* create(): a pair of sockets, the first of which is bound.               *)
Create(s) ==
    /\ bound' = [bound EXCEPT ![s] = TRUE]
    /\ UNCHANGED <<peerBound, queue, header, last, sending, sent, received, torn>>

(* bind() of the other end, in the worker.                                 *)
Bind(s) ==
    /\ ~peerBound[s]
    /\ peerBound' = [peerBound EXCEPT ![s] = TRUE]
    /\ UNCHANGED <<bound, queue, header, last, sending, sent, received, torn>>

(* close() of the receiving end: its process is gone.                      *)
ClosePeer(s) ==
    /\ peerBound' = [peerBound EXCEPT ![s] = FALSE]
    /\ header' = [header EXCEPT ![s] = NoMessage]
    /\ UNCHANGED <<bound, queue, last, sending, sent, received, torn>>

(* close() of the sending end.                                             *)
Close(s) ==
    /\ sending[s] = NoMessage
    /\ bound' = [bound EXCEPT ![s] = FALSE]
    /\ UNCHANGED <<peerBound, queue, header, last, sending, sent, received, torn>>

Fits(s) == Len(queue[s]) < QueueLimit

(* send(): the header.  Refused, nothing has happened.                     *)
SendHeader(s) ==
    /\ bound[s] /\ sending[s] = NoMessage
    /\ Fits(s)
    /\ last < MaxMessages
    /\ last' = last + 1
    /\ queue' = [queue EXCEPT ![s] = Append(@, <<"header", last + 1>>)]
    /\ sending' = [sending EXCEPT ![s] = last + 1]
    /\ UNCHANGED <<bound, peerBound, header, sent, received, torn>>

(* sendData() of the payload.  If it is refused, the header remains.       *)
SendData(s) ==
    /\ sending[s] # NoMessage
    /\ sending' = [sending EXCEPT ![s] = NoMessage]
    /\ \/ /\ Fits(s)
          /\ queue' = [queue EXCEPT ![s] = Append(@, <<"payload", sending[s]>>)]
          /\ sent' = [sent EXCEPT ![s] = Append(@, sending[s])]
          /\ UNCHANGED torn
       \/ /\ ~Fits(s)
          /\ torn' = [torn EXCEPT ![s] = TRUE]
          /\ UNCHANGED <<queue, sent>>
    /\ UNCHANGED <<bound, peerBound, header, last, received>>

(* Mistake: a header is expected whenever the notifier is activated.       *)
TakeAlways(s) == TRUE

HeaderExpected(s) == header[s] = NoMessage

HeaderAfterReceive(h) == NoMessage

(* dataNotifier(): the header unless it is there, and if there is more,    *)
(* readyRead and the receive() of its slot.                                *)
DataNotifier(s) ==
    LET first == IF HeaderExpected(s) THEN Head(queue[s]) ELSE header[s]
        rest == IF HeaderExpected(s) THEN Tail(queue[s]) ELSE queue[s]
    IN  /\ peerBound[s]
        /\ queue[s] # <<>>
        /\ \/ /\ rest = <<>>
              /\ header' = [header EXCEPT ![s] = first]
              /\ queue' = [queue EXCEPT ![s] = rest]
              /\ UNCHANGED received
           \/ /\ rest # <<>>
              /\ header' = [header EXCEPT ![s] = HeaderAfterReceive(first)]
              /\ queue' = [queue EXCEPT ![s] = Tail(rest)]
              /\ received' = [received EXCEPT ![s] = Append(@, <<first, Head(rest)>>)]
        /\ UNCHANGED <<bound, peerBound, last, sending, sent, torn>>

-----------------------------------------------------------------------------
(***************************************************************************)
(* Properties.                                                             *)
(***************************************************************************)

Whole(m) == <<<<"header", m>>, <<"payload", m>>>>

(* A header is never taken for a payload: as long as no message was torn   *)
(* and no worker died between the halves of one, what the worker received  *)
(* is what was sent, in the order of the calls.                            *)
MessagesWhole ==
    \A s \in Socks : ~torn[s] /\ peerBound[s] =>
        /\ Len(received[s]) <= Len(sent[s])
        /\ \A i \in DOMAIN received[s] : received[s][i] = Whole(sent[s][i])

(* A message that was sent is received, unless one was torn or the worker  *)
(* goes.                                                                   *)
MessagesReceived ==
    \A s \in Socks, m \in Messages :
        (m \in ToSet(sent[s]) /\ peerBound[s]) ~>
            (Whole(m) \in ToSet(received[s]) \/ torn[s] \/ ~peerBound[s])
=============================================================================
