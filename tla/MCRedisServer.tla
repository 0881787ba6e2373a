---------------------------- MODULE MCRedisServer ----------------------------
(* Three short queries, of which the last is no request; the answer to the    *)
(* first is longer than the kernel takes at once.                             *)
EXTENDS RedisServer

MCQueryLen == <<1, 1, 1>>
MCAnswerLen == <<3, 0, 0>>
==============================================================================
