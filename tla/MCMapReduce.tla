---------------------------- MODULE MCMapReduce -----------------------------
(* Small instances of MapReduce for TLC. *)
EXTENDS MapReduce, TLC

MCHash == ("a" :> 2 @@ "b" :> 3)
MCKey == {"a", "b"}

\* Two input files, with a key they share and a file with one key twice.
TwoFiles == (0 :> <<"a", "b">> @@ 1 :> <<"b", "b">>)

=============================================================================
