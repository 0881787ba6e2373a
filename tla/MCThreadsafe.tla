---------------------------- MODULE MCThreadsafe ----------------------------
(* For each container, calls that meet each other: pops that race for the  *)
(* last value, sleepers and spurious wakeups, walks between removals.      *)
EXTENDS Threadsafe, TLC

CONSTANTS t1, t2, t3

Calls(a, b, c) == t1 :> a @@ t2 :> b @@ t3 :> c
Of(ops, n) == UNION {[1..k -> ops] : k \in 0..n}

MCJobs == [
    fine |->
        {Calls(<<"push", "push">>, <<a, b>>, <<c, d>>) :
            a, c \in {"wait_and_pop", "try_pop"}, b \in {"try_pop", "empty"}, d \in {"push", "try_pop"}},
    coarse |->
        {Calls(<<"push", "push">>, <<a, b>>, <<c, d>>) :
            a, c \in {"wait_and_pop", "try_pop"}, b \in {"wait_and_pop", "empty"}, d \in {"push", "wait_and_pop"}},
    list_queue |-> {Calls(s, <<>>, <<>>) : s \in Of({"push", "try_pop"}, 6)},
    dummy_queue |-> {Calls(s, <<>>, <<>>) : s \in Of({"push", "try_pop"}, 6)},
    lock_free |->
        {Calls(<<"push">>, <<"push">>, <<"try_pop", "try_pop">>),
         Calls(<<"push", "try_pop">>, <<"push">>, <<"try_pop">>),
         Calls(<<"push", "push">>, <<"try_pop">>, <<"try_pop">>)},
    list |->
        {Calls(<<"push_front", "push_front", a>>, <<"push_front", b>>, <<c>>) :
            a \in {"for_each", "find_first_if"}, b \in {"remove_if", "for_each"}, c \in {"remove_if"}},
    table |->
        {Calls(<<"add_or_update", a>>, <<"add_or_update", "get_map">>, <<b>>) :
            a \in {"remove", "value_for"}, b \in {"get_map", "add_or_update"}}]
=============================================================================
