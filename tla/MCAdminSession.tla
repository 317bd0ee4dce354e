--------------------------- MODULE MCAdminSession ---------------------------
(* Instances of AdminSession for TLC. The longest line that passes and the   *)
(* shortest that does not differ by one letter.                              *)
EXTENDS AdminSession

SomeCalls == Lists \cup {"getpid", "version", "cancel job"}

A == <<"a">>
One == <<"1">>
Rows(rows) == Outcome("ok", rows)
Refusal == Outcome("server_error", << << <<"c">>, <<"x", SP, "y">> >> >>)

SomeAnswers ==
    [c \in SomeCalls |->
       CASE c = "status" -> {Rows(<<>>), Rows(<< << <<".", "a">>, One, Zero, <<"1", "2">> >> >>)}
         [] c = "prioritystatus" -> {Rows(<< <<A, One, Zero, One, Zero>> >>)}
         [] c = "show jobs" -> {Rows(<< <<A, Zero, True, False>>, <<A, One, False, True>> >>)}
         [] c = "show unique jobs" ->
              {Rows(<< <<A, <<"a", TAB, "b">> >>, << <<".", "c">> >> >>),
               Rows(<< << <<"a", "a", "a", "a", "a", "a", "a", "a", "a">> >> >>),
               Rows(<< << <<"a", "a", "a", "a", "a", "a", "a", "a", "a", "a">> >> >>),
               Rows(<< << <<"a", "a", "a", "a", "a", "a", "a", "a", "a", Lead, Trail>> >> >>),
               Rows(<< << <<NotUtf8>> >>, <<A>> >>)}
         [] c = "workers" ->
              {Rows(<< <<One, <<":", ":", "1">>, A, A>>, <<One, A, <<":">> >> >>),
               Rows(<< <<One, A, <<"a", SP, "b">> >>, <<One, A, A>> >>)}
         [] c = "getpid" -> {Rows(<< << <<"1", "2">> >> >>), Refusal}
         [] c = "version" -> {Rows(<< << <<"1", "a">> >> >>)}
         [] c = "cancel job" -> {Rows(<<>>), Refusal}]
=============================================================================
