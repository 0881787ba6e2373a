---------------------------- MODULE MCEchoServer ----------------------------
(* Queries of one, zero, two and too many bytes behind a two-byte header,     *)
(* through kernel buffers of three bytes.  Messages may have eighteen bytes:  *)
(* then the queries that are answered fit in half of rbuf, as those of        *)
(* client.cpp do.  MCEchoLong.cfg sends one legal message of more than half   *)
(* of rbuf.                                                                   *)
EXTENDS EchoServer

MCQueryLen == <<1, 0, 2, 19>>
LongQueryLen == <<3>>
==============================================================================
