------------------------------ MODULE MCRunAll ------------------------------
(***************************************************************************)
(* The instance TLC checks: soaks of a few slots, two drivers in a batch,  *)
(* and registries over two generated and two supplemental identifiers.     *)
(***************************************************************************)
EXTENDS RunAll

MCSchedules == {duration_schedule(slots, 0) : slots \in {1, 5, 9}} \cup {iteration_schedule(0, 0)}

MCRecordings == {1, 2, 3, 9, 255, 256, 257, 300}

Migration(kind, from, to) == [kind |-> kind, from |-> from, to |-> to]

MCMigrations ==
  {<<>>, <<Migration("rename", <<"a">>, <<"b">>)>>, <<Migration("retire", <<"a">>, <<>>)>>,
   <<Migration("retire", <<"a", "b">>, <<>>)>>, <<Migration("split", <<"a">>, <<"b", "s">>)>>,
   <<Migration("retire", <<"a">>, <<>>), Migration("rename", <<"a">>, <<"b">>)>>}

MCExemptions ==
  {<<>>} \cup {<<[id |-> id, expires_on |-> day]>> : id \in {"a", "s"}, day \in 1..3}

MCRegistries ==
  [generated : {{"a"}, {"b"}, {"a", "b"}}, snapshot : {<<>>, <<"a">>, <<"b">>, <<"a", "b">>, <<"a", "a">>},
   lock : {<<"a">>, <<"a", "b">>}, supplemental : {<<>>, <<"s">>, <<"a">>},
   generated_real : {{"a"}}, reviewed : {<<real, <<>>, <<>>>> : real \in {<<>>, <<"s">>}}
                                          \cup {<<<<"s">>, <<"s">>, <<>>>>},
   migrations : MCMigrations, exemptions : MCExemptions]
=============================================================================
