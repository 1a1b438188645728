---------------------------- MODULE MCMapReduce ----------------------------
(* Instances of MapReduce for TLC.  With three reducers the characters 0, 1 *)
(* and 2 are the lower-case letters, 3 is any other character.              *)
EXTENDS MapReduce

\* No line at all, one, one for each of three mappers, and one too many.
MCInputs == {<<>>,
             << <<1, 3, 0>> >>,
             << <<0, 1>>, <<1, 3>>, <<2, 1>> >>,
             << <<2, 2>>, <<3>>, <<0>>, <<1>> >>}

=============================================================================
