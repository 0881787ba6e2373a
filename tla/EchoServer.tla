----------------------------- MODULE EchoServer -----------------------------
(***************************************************************************)
(* The server of build_redis/chapter6/server.cpp: it answers every query   *)
(* with the query itself.                                                  *)
(***************************************************************************)
EXTENDS Connection

ASSUME EchoAssumption == AnswerLen = QueryLen

\* The length at the front of a buffer.  Bytes that are no header make a number
\* that is too long for a message, as text does.
Decode(buf) ==
    IF \A j \in 1..HeaderSize : buf[j] = <<buf[1][1], j>>
    THEN QueryLen[buf[1][1]] ELSE k_max_msg + 1

\* What the header at the front of rbuf says of the query behind it.
HasHeader == Len(rbuf) >= HeaderSize
TooLong == HasHeader /\ Decode(rbuf) > k_max_msg
HasQuery == HasHeader /\ ~TooLong /\ HeaderSize + Decode(rbuf) <= Len(rbuf)

\* The first query in rbuf, and what is behind it.
Query == SubSeq(rbuf, 1, HeaderSize + Decode(rbuf))
Behind == SubSeq(rbuf, HeaderSize + Decode(rbuf) + 1, Len(rbuf))

\* The query goes to wbuf, the rest to the front of rbuf, and state_res sends.
Echo(query, rest) ==
    /\ pc = "try_one_request"
    /\ wbuf' = query
    /\ rbuf' = rest
    /\ caller' = "try_one_request"
    /\ pc' = "try_flush_buffer"
    /\ UNCHANGED <<clientVars, c2s, s2c, accepted, wbuf_sent>>

\* Mutants of RequestEchoed: the query stays in rbuf; what is behind it is
\* dropped; the state stays as it is; an incomplete query is answered.
RequestEchoed_Again == HasQuery /\ Echo(Query, rbuf) /\ state' = "STATE_RES"
RequestEchoed_DropsRest == HasQuery /\ Echo(Query, <<>>) /\ state' = "STATE_RES"
RequestEchoed_InReq == HasQuery /\ Echo(Query, Behind) /\ UNCHANGED state
RequestEchoed_Partial ==
    IF HasQuery THEN Echo(Query, Behind) /\ state' = "STATE_RES"
    ELSE HasHeader /\ ~TooLong /\ Echo(rbuf, <<>>) /\ state' = "STATE_RES"

\* There is a complete query.
RequestEchoed == HasQuery /\ Echo(Query, Behind) /\ state' = "STATE_RES"

\* try_fill_buffer goes on to the next query only when the answer is out.
RequestDone ==
    /\ pc = "flushed" /\ caller = "try_one_request"
    /\ pc' = IF state = "STATE_REQ" THEN "try_one_request" ELSE "main"
    /\ UNCHANGED <<clientVars, c2s, s2c, accepted, state, bufVars, caller>>

RequestTooLong ==
    /\ pc = "try_one_request"
    /\ TooLong
    /\ state' = "STATE_END"
    /\ pc' = "main"
    /\ UNCHANGED <<clientVars, c2s, s2c, accepted, bufVars, caller>>

\* No complete query: state_req reads on.
RequestIncomplete ==
    /\ pc = "try_one_request"
    /\ ~TooLong /\ ~HasQuery
    /\ pc' = "try_fill_buffer"
    /\ UNCHANGED <<clientVars, c2s, s2c, accepted, state, bufVars, caller>>

Server ==
    ServerCommon \/ RequestEchoed \/ RequestDone \/ RequestTooLong \/ RequestIncomplete

------------------------------------------------------------------------------
(* A client without end: when it has the answer to each of its queries that  *)
(* has one it may send them again, under the same numbers.                   *)

\* How many queries are in front of the first that is too long.
Answerable ==
    SelectInSeq(Append(QueryLen, k_max_msg + 1), LAMBDA len : len > k_max_msg) - 1
AllAnswers == Messages(SubSeq(QueryLen, 1, Answerable))

ClientStartsOver ==
    /\ ~hungup
    /\ received = AllAnswers /\ nsent = Len(received)
    /\ nsent' = 0 /\ received' = <<>>
    /\ UNCHANGED <<pipelining, hungup, c2s, s2c, serverVars>>

------------------------------------------------------------------------------
Next == Client \/ ClientHangsUp \/ ClientStartsOver \/ Server

\* The client and the server run when they can; nothing makes the client hang
\* up or start over.
Spec == Init /\ [][Next]_vars /\ WF_vars(Client) /\ WF_vars(Server)

------------------------------------------------------------------------------
(* Properties *)

\* However reads and writes are cut up, every byte the client has sent is in one
\* place, in order: no answer is lost, doubled, mixed with another or written
\* over before it is out, and the bytes left in rbuf are the ones behind it.
BytesConserved ==
    ~hungup => received \o s2c \o SubSeq(wbuf, wbuf_sent + 1, Len(wbuf)) \o rbuf \o c2s
                 = SubSeq(Queries, 1, nsent)

\* A query is answered when all of it has arrived, never on its first bytes.
WholeQueriesOnly ==
    \A byte \in ToSet(received \o s2c \o wbuf) :
        \E n \in 1..nsent - Len(c2s) : Queries[n] = <<byte[1], HeaderSize + QueryLen[byte[1]]>>

\* connection_io comes back to the poll loop, so that the server's other
\* connections are served, whatever this client does but one thing: state_req
\* reads until there is nothing to read, and a client that goes on writing for
\* ever can keep it from that.
BackToPoll ==
    []<><<ClientWrite>>_vars \/ (pc # "poll" ~> pc \in {"poll", "aborted", "killed"})

\* A client that waits for each answer gets it, up to a query that is too long,
\* if it does not hang up.  (One that pipelines may not: an answer that has to
\* wait for POLLOUT is sent by connection_io, which leaves the queries that are
\* in rbuf already until more bytes come.)
EveryQueryAnswered ==
    ~pipelining => <>(hungup \/ received = AllAnswers)
==============================================================================
