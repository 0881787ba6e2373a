----------------------------- MODULE RedisServer -----------------------------
(***************************************************************************)
(* The server of build_redis/chapter9/server.cpp (chapters 7, 8 and 11 have *)
(* the same loop) as far as its connections go: what the commands answer is *)
(* in KVStore.tla, here an answer is a message of some length: AnswerLen[i] *)
(* is its wlen, that of the error ERR_TOO_BIG when what do_request writes   *)
(* would be longer than a message may be.                                   *)
(***************************************************************************)
EXTENDS Connection

CONSTANT Malformed   \* the queries parse_req refuses

QueryAtFront == rbuf[1][1]
QuerySize == HeaderSize + QueryLen[QueryAtFront]
HasQuery == Len(rbuf) >= HeaderSize /\ Len(rbuf) >= QuerySize

\* The query is executed and its answer put into wbuf, over what may be there;
\* wbuf_sent stays as it is.
RequestAnswered ==
    /\ pc = "try_one_request"
    /\ HasQuery /\ QueryAtFront \notin Malformed
    /\ wbuf' = Message(AnswerLen, QueryAtFront)
    /\ rbuf' = SubSeq(rbuf, QuerySize + 1, Len(rbuf))
    /\ state' = "STATE_RES"
    /\ caller' = "try_one_request"
    /\ pc' = "try_flush_buffer"
    /\ UNCHANGED <<clientVars, c2s, s2c, accepted, wbuf_sent>>

\* "bad req"
RequestRefused ==
    /\ pc = "try_one_request"
    /\ HasQuery /\ QueryAtFront \in Malformed
    /\ state' = "STATE_END"
    /\ pc' = "main"
    /\ UNCHANGED <<clientVars, c2s, s2c, accepted, bufVars, caller>>

\* return (conn->state = STATE_REQ), which is an assignment and false:
\* try_fill_buffer leaves its loop, finds STATE_REQ and is called again.
RequestDone ==
    /\ pc = "flushed" /\ caller = "try_one_request"
    /\ state' = "STATE_REQ"
    /\ pc' = "try_fill_buffer"
    /\ UNCHANGED <<clientVars, c2s, s2c, accepted, bufVars, caller>>

\* Nothing compares the length in the header with rbuf_size: of a query that has
\* arrived in part, parse_req reads whatever is in rbuf behind that part.  It
\* fails, or it succeeds and memmove is given a negative size.
RequestMisread ==
    /\ pc = "try_one_request"
    /\ Len(rbuf) >= HeaderSize /\ ~HasQuery
    /\ \/ state' = "STATE_END" /\ pc' = "main"
       \/ pc' = "killed" /\ UNCHANGED state
    /\ UNCHANGED <<clientVars, c2s, s2c, accepted, bufVars, caller>>

RequestIncomplete ==
    /\ pc = "try_one_request"
    /\ Len(rbuf) < HeaderSize
    /\ pc' = "try_fill_buffer"
    /\ UNCHANGED <<clientVars, c2s, s2c, accepted, state, bufVars, caller>>

\* More has been sent than the answer is long: what is left to send is negative,
\* a huge size_t.  write() fails, or sends what is behind wbuf and the assertion
\* on wbuf_sent fails.
FlushOverruns ==
    /\ pc = "try_flush_buffer"
    /\ wbuf_sent > Len(wbuf)
    /\ \/ state' = "STATE_END" /\ pc' = "flushed"
       \/ pc' = "aborted" /\ UNCHANGED state
    /\ UNCHANGED <<clientVars, c2s, s2c, accepted, bufVars, caller>>

Server ==
    \/ ServerCommon
    \/ RequestAnswered \/ RequestRefused \/ RequestDone \/ RequestMisread \/ RequestIncomplete
    \/ FlushOverruns

Next == Client \/ ClientHangsUp \/ Server

Spec == Init /\ [][Next]_vars /\ WF_vars(Client) /\ WF_vars(Server)

------------------------------------------------------------------------------
(* Properties *)

\* "STATE_RES = 1, // sending responses" (connection.hpp): a connection that has
\* bytes of an answer to send to a client that is there is in that state, in
\* which poll() waits for POLLOUT.
UnsentMeansSending == ~hungup /\ wbuf_sent < Len(wbuf) => state = "STATE_RES"
==============================================================================
