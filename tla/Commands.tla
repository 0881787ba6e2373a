------------------------------ MODULE Commands ------------------------------
(***************************************************************************)
(* What the key-value servers and their client say to each other, and      *)
(* do_request of build_redis/chapter11/commands.hpp: the commands over     *)
(* strings and over sorted sets.  A request is a list of strings           *)
(* (client.cpp, parse_req of commands.hpp), an answer a tree of tagged     *)
(* values (serialization.hpp).  Bytes are numbers 0..255; the counts and   *)
(* lengths the model writes are below 65536, and those it reads below      *)
(* 2^31.  The map is what KVStore shows it to be and a sorted set what     *)
(* ZSet does; names are numbers in the order of memcmp.  Types and         *)
(* functions the file uses and no other file defines (entry_new, T_ZSET,   *)
(* zset_delete, zset_seekge, znode_offset, out_begin_arr) are taken for    *)
(* what their uses ask of them.                                            *)
(***************************************************************************)
EXTENDS Integers, Sequences, SequencesExt

CONSTANTS
    k_max_msg,
    k_max_args,
    BadReq,            \* what parse_req returns of bytes that are not a request
    DbKey, Text,       \* strings
    Name, Score,
    Limit, Offset,
    NotANumber,    \* an argument str2dbl and str2int refuse
    Denormal       \* a double too small for printf to show any digit of it

VARIABLES
    db,     \* the Entry of each key, or Missing
    cmd,    \* the last command
    out     \* and its answer: the values do_request has written

vars == <<db, cmd, out>>

Bytes4(n) == <<n % 256, n \div 256, 0, 0>>
Bytes8(n) == Bytes4(n) \o <<0, 0, 0, 0>>

\* memcpy from the four bytes behind the first pos.
Number4(data, pos) ==
    data[pos + 1] + 256 * data[pos + 2] + 65536 * data[pos + 3] + 16777216 * data[pos + 4]

After(data, pos) == SubSeq(data, pos + 1, Len(data))

------------------------------------------------------------------------------
(* Requests *)

Strings(words) == FlattenSeq([i \in DOMAIN words |-> Bytes4(Len(words[i])) \o words[i]])

\* send_req writes the length in front, unless the request is too long.
send_req(words) ==
    LET body == Bytes4(Len(words)) \o Strings(words)
    IN  IF Len(body) > k_max_msg THEN <<>> ELSE Bytes4(Len(body)) \o body

\* The loop of parse_req, with n strings to come behind the first pos bytes.
RECURSIVE ParseStrings(_, _, _, _)
ParseStrings(data, pos, n, read) ==
    IF n = 0 THEN IF pos = Len(data) THEN read ELSE BadReq
    ELSE IF pos + 4 > Len(data) \/ pos + 4 + Number4(data, pos) > Len(data) THEN BadReq
    ELSE LET end == pos + 4 + Number4(data, pos)
         IN  ParseStrings(data, end, n - 1, Append(read, SubSeq(data, pos + 5, end)))

parse_req(data) ==
    IF Len(data) < 4 \/ Number4(data, 0) > k_max_args THEN BadReq
    ELSE ParseStrings(data, 4, Number4(data, 0), <<>>)

------------------------------------------------------------------------------
(* Answers *)

SER_NIL == 0
SER_ERR == 1
SER_STR == 2
SER_INT == 3
SER_DBL == 4
SER_ARR == 5

\* What is written: the tag of a value and what it carries.  A score is in
\* tenths, and the parameter of out_dbl is an int64_t.
out_nil == <<SER_NIL>>
out_str(val) == <<SER_STR, val>>
out_int(val) == <<SER_INT, val>>
out_dbl(val) == <<SER_DBL, val \div 10>>
out_err(code, message) == <<SER_ERR, code, message>>
out_arr(n) == <<SER_ARR, n>>

\* The bytes each of them appends to the answer.
Serialized(v) ==
    <<v[1]>> \o CASE v[1] = SER_NIL -> <<>>
                  [] v[1] = SER_STR -> Bytes4(Len(v[2])) \o v[2]
                  [] v[1] \in {SER_INT, SER_DBL} -> Bytes8(v[2])
                  [] v[1] = SER_ERR -> Bytes4(v[2]) \o Bytes4(Len(v[3])) \o v[3]
                  [] v[1] = SER_ARR -> Bytes4(v[2])

Bytes(answer) == FlattenSeq([i \in DOMAIN answer |-> Serialized(answer[i])])

\* The double that has the bytes of a small integer: 0, or next to it.
AsDouble(data, pos) == IF Number4(data, pos) = 0 THEN 0 ELSE Denormal

\* What on_response makes of the data: rv is how many bytes the value it begins
\* with has, or -1, and values what was read, with the elements of an array
\* behind its count.
Bad == [rv |-> -1, values |-> <<>>]

RECURSIVE on_response(_)
on_response(data) ==
    LET size == Len(data)
        Read(rv, value) == IF size < rv THEN Bad ELSE [rv |-> rv, values |-> <<value>>]
        Behind(all) ==              \* and the value that comes after these
            LET one == on_response(After(data, all.rv))
            IN  IF one.rv < 0 THEN Bad
                ELSE [rv |-> all.rv + one.rv, values |-> all.values \o one.values]
        Elements[n \in Nat] ==
            IF n = 0 THEN [rv |-> 5, values |-> <<out_arr(Number4(data, 1))>>]
            ELSE LET all == Elements[n - 1] IN IF all.rv < 0 THEN Bad ELSE Behind(all)
        len == IF size < 5 THEN 0 ELSE Number4(data, 1)
        errlen == IF size < 9 THEN 0 ELSE Number4(data, 5)
    IN  IF size < 1 THEN Bad
        ELSE CASE data[1] = SER_NIL -> Read(1, out_nil)
               [] data[1] = SER_INT -> Read(9, out_int(len))
               [] data[1] = SER_DBL /\ size >= 9 -> Read(9, <<SER_DBL, AsDouble(data, 1)>>)
               [] data[1] = SER_ERR ->
                    Read(9 + errlen, out_err(len, SubSeq(data, 10, 9 + errlen)))
               [] data[1] = SER_STR -> Read(5 + len, out_str(SubSeq(data, 6, 5 + len)))
               [] data[1] = SER_ARR /\ size >= 5 -> Elements[len]
               [] OTHER -> Bad

\* read_res, of an answer that has come in whole behind its length.
read_res(data) ==
    LET read == on_response(data)
    IN  IF Len(data) > k_max_msg \/ (read.rv > 0 /\ read.rv # Len(data)) THEN Bad ELSE read

------------------------------------------------------------------------------
(* Commands *)

Missing == [type |-> "none", val |-> <<>>, zset |-> <<>>]
T_STR == "str"
T_ZSET == "zset"

ERR_UNKNOWN == 1
ERR_BAD_TYP == 3
ERR_BAD_ARG == 4

Request(c) == cmd' = c
SayAll(answer) == out' = answer
Say(value) == SayAll(<<value>>)
SayOnly(value) == Say(value) /\ UNCHANGED db

Known(key) == db[key].type # "none"
ExpectsZset == SayOnly(out_err(ERR_BAD_TYP, <<>>))

\* expect_zset: a key that is not there is an empty set.
IsZset(key) == db[key].type \in {"none", T_ZSET}
Members(key) == DOMAIN db[key].zset

------------------------------------------------------------------------------
do_get(key) ==
    /\ Request(<<"get", key>>)
    /\ SayOnly(IF Known(key) THEN out_str(db[key].val) ELSE out_nil)

\* An entry that is there keeps its type.
do_set(key, val) ==
    /\ Request(<<"set", key, val>>)
    /\ db' = IF Known(key) THEN [db EXCEPT ![key].val = val]
             ELSE [db EXCEPT ![key] = [Missing EXCEPT !.type = T_STR, !.val = val]]
    /\ Say(out_nil)

do_del(key) ==
    /\ Request(<<"del", key>>)
    /\ db' = [db EXCEPT ![key] = Missing]
    /\ Say(out_int(IF Known(key) THEN 1 ELSE 0))

do_keys ==
    LET keys == SetToSeq({key \in DbKey : Known(key)})
    IN  /\ Request(<<"keys">>)
        /\ SayAll(<<out_arr(Len(keys))>> \o [i \in DOMAIN keys |-> out_str(keys[i])])
        /\ UNCHANGED db

do_zadd(key, score, name) ==
    /\ Request(<<"zadd", key, score, name>>)
    /\ IF score = NotANumber THEN SayOnly(out_err(ERR_BAD_ARG, <<>>))
       ELSE IF ~IsZset(key) THEN ExpectsZset
       ELSE /\ db' = [db EXCEPT ![key].type = T_ZSET, ![key].zset = (name :> score) @@ @]
            /\ Say(out_int(IF name \in Members(key) THEN 0 ELSE 1))

do_zrem(key, name) ==
    /\ Request(<<"zrem", key, name>>)
    /\ IF ~IsZset(key) THEN ExpectsZset
       ELSE /\ db' = [db EXCEPT ![key].zset = [n \in Members(key) \ {name} |-> @[n]]]
            /\ Say(out_int(IF name \in Members(key) THEN 1 ELSE 0))

do_zscore(key, name) ==
    /\ Request(<<"zscore", key, name>>)
    /\ IF ~IsZset(key) THEN ExpectsZset
       ELSE SayOnly(IF name \in Members(key) THEN out_dbl(db[key].zset[name]) ELSE out_nil)

\* The members in the order of zless.
InOrder(key) ==
    LET z == db[key].zset
    IN  SetToSortSeq(Members(key), LAMBDA a, b : z[a] < z[b] \/ (z[a] = z[b] /\ a < b))

\* The place zset_seekge finds, 0 when nothing is there.
SeekGE(key, score, name) ==
    LET z == db[key].zset
        Before == {n \in Members(key) : z[n] < score \/ (z[n] = score /\ n < name)}
    IN  IF Before = Members(key) THEN 0 ELSE Cardinality(Before) + 1


\* Mutant of Page: n is increased once for each pair.
Page_CountsPairs(found, length, limit) ==
    LET pairs == IF found \in 1..length THEN Min({limit, length - found + 1}) ELSE 0
    IN  [pairs |-> pairs, n |-> pairs]

\* How many pairs do_zquery writes from there, and n, which counts their
\* parts: the pair that brings it to the limit or past it is the last.
Page(found, length, limit) ==
    LET pairs == IF found \in 1..length THEN Min({(limit + 1) \div 2, length - found + 1}) ELSE 0
    IN  [pairs |-> pairs, n |-> 2 * pairs]

do_zquery(key, score, name, offset, limit) ==
    LET seek == SeekGE(key, score, name)
        found == IF seek = 0 THEN 0 ELSE seek + offset
        page == Page(found, Cardinality(Members(key)), limit)
        Pair(m) == <<out_str(<<m>>), out_dbl(db[key].zset[m])>>
    IN  /\ Request(<<"zquery", key, score, name, offset, limit>>)
        /\ UNCHANGED db
        /\ IF NotANumber \in {score, offset, limit} THEN Say(out_err(ERR_BAD_ARG, <<>>))
           ELSE IF ~IsZset(key) THEN Say(out_err(ERR_BAD_TYP, <<>>))
           ELSE IF limit <= 0 THEN Say(out_arr(0))
           ELSE SayAll(<<out_arr(page.n)>> \o
                  FlattenSeq([i \in 1..page.pairs |-> Pair(InOrder(key)[found + i - 1])]))

\* Anything else: another name, or another number of arguments.
Unknown == Request(<<"unknown">>) /\ SayOnly(out_err(ERR_UNKNOWN, <<>>))

------------------------------------------------------------------------------
Init ==
    /\ db = [key \in DbKey |-> Missing]
    /\ cmd = <<>>
    /\ out = <<out_nil>>

OnKey(key) ==
    \/ do_get(key) \/ do_del(key)
    \/ \E val \in Text : do_set(key, val)
    \/ \E name \in Name :
        \/ do_zrem(key, name) \/ do_zscore(key, name)
        \/ \E score \in Score \cup {NotANumber} :
            \/ do_zadd(key, score, name)
            \/ \E offset \in Offset, limit \in Limit \cup {NotANumber} :
                  do_zquery(key, score, name, offset, limit)

do_request == do_keys \/ Unknown \/ \E key \in DbKey : OnKey(key)

Spec == Init /\ [][do_request]_vars

------------------------------------------------------------------------------
\* The client takes every answer as one value, leaves no byte of it and misses
\* none, and reads what was written, doubles excepted: an array announces as
\* many values as follow, whatever the offset and the limit, and if an answer is
\* cut short the client notices.
AnswersReadBack ==
    LET data == Bytes(out)
        read == read_res(data)
    IN  /\ read.rv = Len(data)
        /\ Len(read.values) = Len(out)
        /\ \A i \in DOMAIN out :
              IF out[i][1] = SER_DBL THEN read.values[i][1] = SER_DBL ELSE read.values[i] = out[i]
        /\ \A n \in 0..(Len(data) - 1) : read_res(SubSeq(data, 1, n)).rv = -1

\* What zscore answers about a member is, when the client has read it, its score
\* (test_cmds.py:16-17, "$ ./client zscore zset n1" and "(dbl) 1.1").
ScoresReadBack ==
    \A key \in DbKey : \A name \in Members(key) :
        cmd = <<"zscore", key, name>> =>
            read_res(Bytes(out)).values = <<<<SER_DBL, db[key].zset[name]>>>>
==============================================================================
