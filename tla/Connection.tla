----------------------------- MODULE Connection -----------------------------
(***************************************************************************)
(* One connection of the servers of build_redis: the client, the two       *)
(* kernel buffers between it and the server, the server's Conn and the     *)
(* part of the poll loop that serves it.  The servers differ in what they  *)
(* do with a query (try_one_request): EchoServer.tla and RedisServer.tla   *)
(* extend this module with that step and have their own Next.              *)
(*                                                                         *)
(* A byte is <<i, j>>, the j-th byte of the client's i-th query or of the  *)
(* answer to it, so that a byte that is lost, doubled or out of place can  *)
(* be told; its value matters only in a header, where it is the length of  *)
(* the message.                                                            *)
(***************************************************************************)
EXTENDS Integers, Sequences, SequencesExt

CONSTANTS
    HeaderSize,  \* bytes of the length in front of a message (4)
    k_max_msg,   \* longest message (4096)
    QueryLen,    \* lengths of the client's queries
    AnswerLen,   \* lengths of the server's answers
    SockBuf      \* bytes the kernel holds in each direction

ASSUME ConnectionAssumption ==
    /\ HeaderSize \in Nat \ {0}
    /\ k_max_msg \in Nat
    /\ QueryLen \in Seq(Nat)
    /\ AnswerLen \in Seq(Nat) /\ Len(AnswerLen) = Len(QueryLen)
    /\ SockBuf \in Nat \ {0}

VARIABLES
    pipelining,  \* the client sends all its queries before it reads an answer
    nsent,       \* bytes it has written
    received,    \* bytes it has read
    hungup,      \* it has closed its socket
    c2s, s2c,    \* what the kernel holds for the server, for the client
    accepted,    \* the life of the Conn: "no", "yes", "closed"
    state,       \* Conn::state
    rbuf,        \* Conn::rbuf, rbuf_size bytes of it
    wbuf,        \* Conn::wbuf, wbuf_size bytes of it
    wbuf_sent,   \* Conn::wbuf_sent
    pc,          \* where the poll loop is with this connection
    caller       \* where state_res returns to

clientVars == <<pipelining, nsent, received, hungup>>
bufVars == <<rbuf, wbuf, wbuf_sent>>
serverVars == <<accepted, state, bufVars, pc, caller>>
vars == <<clientVars, c2s, s2c, serverVars>>

Message(lengths, i) == [j \in 1..HeaderSize + lengths[i] |-> <<i, j>>]
Messages(lengths) == FlattenSeq([i \in DOMAIN lengths |-> Message(lengths, i)])
Queries == Messages(QueryLen)

\* AnswersEnd[i]: the bytes of the first i answers.
AnswersEnd ==
    [i \in 0..Len(AnswerLen) |-> Len(Messages(SubSeq(AnswerLen, 1, i)))]

RbufCap == HeaderSize + k_max_msg
Room == SockBuf - Len(s2c)

------------------------------------------------------------------------------
(* The client *)

\* A client that does not pipeline sends a query when it has read all the
\* answers before.
ClientWrite ==
    /\ ~hungup
    /\ nsent < Len(Queries)
    /\ Len(c2s) < SockBuf
    /\ LET byte == Queries[nsent + 1]
       IN  /\ pipelining \/ Len(received) >= AnswersEnd[byte[1] - 1]
           /\ c2s' = Append(c2s, byte)
    /\ nsent' = nsent + 1
    /\ UNCHANGED <<pipelining, received, hungup, s2c, serverVars>>

\* A pipelining client reads when it has written everything.
ClientRead ==
    /\ ~hungup
    /\ s2c # <<>>
    /\ pipelining => nsent = Len(Queries)
    /\ received' = Append(received, Head(s2c))
    /\ s2c' = Tail(s2c)
    /\ UNCHANGED <<pipelining, nsent, hungup, c2s, serverVars>>

\* The client closes its socket, or dies, at any time; what it has written
\* still reaches the server.
ClientHangsUp ==
    /\ ~hungup
    /\ hungup' = TRUE
    /\ s2c' = <<>>
    /\ UNCHANGED <<pipelining, nsent, received, c2s, serverVars>>

------------------------------------------------------------------------------
(* The poll loop of main *)

accept_new_conn ==
    /\ accepted = "no"
    /\ accepted' = "yes"
    /\ state' = "STATE_REQ"
    /\ rbuf' = <<>> /\ wbuf' = <<>> /\ wbuf_sent' = 0
    /\ UNCHANGED <<clientVars, c2s, s2c, pc, caller>>

\* A socket the peer has closed is ready for reading and for writing.
Readable == c2s # <<>> \/ hungup
Writable == Room > 0 \/ hungup

\* Mutant of PollReports: poll() is always asked for POLLIN.
PollReports_AlwaysPollin == Readable

\* What poll() is asked for: POLLIN in STATE_REQ, POLLOUT otherwise.
PollReports == IF state = "STATE_REQ" THEN Readable ELSE Writable

\* poll() reports the socket, and connection_io calls the state's function.
connection_io ==
    /\ accepted = "yes"
    /\ pc = "poll"
    /\ PollReports
    /\ pc' = CASE state = "STATE_REQ" -> "try_fill_buffer"
               [] state = "STATE_RES" -> "try_flush_buffer"
               [] OTHER -> "aborted"
    /\ caller' = "main"
    /\ UNCHANGED <<clientVars, c2s, s2c, accepted, state, bufVars>>

\* Back in main, which drops a connection in STATE_END.
IoDone ==
    /\ pc = "main" \/ (pc = "flushed" /\ caller = "main")
    /\ pc' = "poll"
    /\ accepted' = IF state = "STATE_END" THEN "closed" ELSE accepted
    /\ UNCHANGED <<clientVars, c2s, s2c, state, bufVars, caller>>

------------------------------------------------------------------------------
(* state_req: try_fill_buffer until it returns false.  Its second assertion *)
(* leaves half of rbuf free, so its first one, of a byte free, never fails.  *)

\* read() returns what there is, nothing (EAGAIN), the end of the stream, or an
\* error.
FillReads ==
    /\ pc = "try_fill_buffer"
    /\ c2s # <<>>
    /\ LET n == IF Len(c2s) < RbufCap - Len(rbuf) THEN Len(c2s)
                ELSE RbufCap - Len(rbuf)
       IN  /\ rbuf' = rbuf \o SubSeq(c2s, 1, n)
           /\ c2s' = SubSeq(c2s, n + 1, Len(c2s))
    /\ pc' = IF Len(rbuf') <= RbufCap - Len(rbuf') THEN "try_one_request"
             ELSE "aborted"
    /\ UNCHANGED <<clientVars, s2c, accepted, state, wbuf, wbuf_sent, caller>>

FillWouldBlock ==
    /\ pc = "try_fill_buffer"
    /\ c2s = <<>> /\ ~hungup
    /\ pc' = "main"
    /\ UNCHANGED <<clientVars, c2s, s2c, accepted, state, bufVars, caller>>

FillEnds ==
    /\ pc = "try_fill_buffer"
    /\ c2s = <<>> /\ hungup
    /\ state' = "STATE_END"
    /\ pc' = "main"
    /\ UNCHANGED <<clientVars, c2s, s2c, accepted, bufVars, caller>>

\* The client has reset the connection: read() fails, whatever is in c2s.
FillFails ==
    /\ pc = "try_fill_buffer"
    /\ hungup
    /\ state' = "STATE_END"
    /\ pc' = "main"
    /\ UNCHANGED <<clientVars, c2s, s2c, accepted, bufVars, caller>>

------------------------------------------------------------------------------
(* state_res: try_flush_buffer until it returns false *)

\* write() takes some of the bytes; those for a client that is gone are lost.
FlushWrites ==
    /\ pc = "try_flush_buffer"
    /\ \E n \in 0..Len(wbuf) - wbuf_sent :
          /\ n = 0 => wbuf_sent = Len(wbuf)
          /\ ~hungup => n <= Room
          /\ s2c' = IF hungup THEN s2c
                    ELSE s2c \o SubSeq(wbuf, wbuf_sent + 1, wbuf_sent + n)
          /\ IF wbuf_sent + n = Len(wbuf)
             THEN /\ state' = "STATE_REQ"
                  /\ wbuf' = <<>> /\ wbuf_sent' = 0
                  /\ pc' = "flushed"
             ELSE /\ wbuf_sent' = wbuf_sent + n
                  /\ UNCHANGED <<state, wbuf, pc>>
    /\ UNCHANGED <<clientVars, c2s, accepted, rbuf, caller>>

\* Mutant of FlushWouldBlock: EAGAIN is tried again at once, like EINTR.
FlushWouldBlock_Retries ==
    /\ pc = "try_flush_buffer"
    /\ Room = 0 /\ ~hungup
    /\ wbuf_sent # Len(wbuf)
    /\ UNCHANGED vars

FlushWouldBlock ==
    /\ pc = "try_flush_buffer"
    /\ Room = 0 /\ ~hungup
    /\ wbuf_sent # Len(wbuf)
    /\ pc' = "flushed"
    /\ UNCHANGED <<clientVars, c2s, s2c, accepted, state, bufVars, caller>>

\* write() fails: the client has reset the connection.
FlushFails ==
    /\ pc = "try_flush_buffer"
    /\ hungup
    /\ state' = "STATE_END"
    /\ pc' = "flushed"
    /\ UNCHANGED <<clientVars, c2s, s2c, accepted, bufVars, caller>>

\* Or it raises SIGPIPE, which the servers do not handle: the process ends.
FlushKills ==
    /\ pc = "try_flush_buffer"
    /\ hungup
    /\ pc' = "killed"
    /\ UNCHANGED <<clientVars, c2s, s2c, accepted, state, bufVars, caller>>

------------------------------------------------------------------------------
Init ==
    /\ pipelining \in BOOLEAN
    /\ nsent = 0 /\ received = <<>> /\ hungup = FALSE
    /\ c2s = <<>> /\ s2c = <<>>
    /\ accepted = "no" /\ state = "STATE_REQ"
    /\ rbuf = <<>> /\ wbuf = <<>> /\ wbuf_sent = 0
    /\ pc = "poll" /\ caller = "main"

Client == ClientWrite \/ ClientRead

\* What both servers do; try_one_request is theirs to add.
ServerCommon ==
    \/ accept_new_conn \/ connection_io \/ IoDone
    \/ FillReads \/ FillWouldBlock \/ FillEnds \/ FillFails
    \/ FlushWrites \/ FlushWouldBlock \/ FlushFails \/ FlushKills

------------------------------------------------------------------------------
(* Properties of both *)

\* An assert of the server fails.
AssertionsHold == pc # "aborted"

\* "STATE_REQ = 0, // reading requests", "STATE_RES = 1, // sending responses":
\* a connection with bytes of an answer still to send is in STATE_RES, where
\* poll() waits for POLLOUT, and one without reads.
StateTellsWork ==
    state # "STATE_END" => (state = "STATE_RES" <=> wbuf_sent < Len(wbuf))
==============================================================================
