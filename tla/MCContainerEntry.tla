-------------------------- MODULE MCContainerEntry --------------------------
(* Instances of ContainerEntry for TLC.                                     *)
EXTENDS ContainerEntry, TLC

Numbers == "2" :> 2 @@ "3" :> 3 @@ "5" :> 5 @@ "9" :> 9
Std == 0 :> "std" @@ 1 :> "std" @@ 2 :> "std"

\* Every line of up to three tokens, and the longer ones that say something.
Tokens == {"--", "--secret-path", "--secret-pipe-fd", "--secret-pipe-timeout", "5", "run"}
Lines == UNION {[1..n -> Tokens] : n \in 0..3}
         \cup {<<"--secret-path", "p", "--secret-pipe-fd", "5", "run">>,
               <<"--secret-pipe-fd", "3", "--secret-pipe-fd", "5", "run">>,
               <<"--secret-pipe-timeout", "5", "--secret-path", "p", "run", "--secret-path">>,
               <<"--secret-pipe-fd", "2", "run">>, <<"--secret-pipe-fd", "3", "run">>,
               <<"--secret-pipe-fd", "9", "run">>, <<"--secret-pipe-fd", "x", "run">>,
               <<"--secret-pipe-timeout", "x", "run">>}

Runtimes == {Std, Std @@ 3 :> "stray", Std @@ 3 :> "pipeR" @@ 4 :> "pipeW",
             Std @@ 3 :> "pipeW" @@ 5 :> "pipeR", Std @@ 4 :> "stray" @@ 5 :> "pipeR",
             Std @@ 5 :> "pipeW"}

File(k, m, s, n) == [kind |-> k, magic |-> m, size |-> s, names |-> n]
Delivered == {File("regular", "memory", 0, 1), File("regular", "memory", 2, 1),
              File("regular", "memory", 3, 1), File("regular", "memory", 2, 2),
              File("special", "memory", 1, 1), File("regular", "disk", 1, 1),
              File("regular", "unknown", 1, 1)}
=============================================================================
