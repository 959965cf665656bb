-------------------------------- MODULE MCOsh ---------------------------------
(* Model-checking instance: the lines of example.txt in the forms the code *)
(* tells apart.                                                             *)
EXTENDS Osh

Plain == {
  <<>>, <<"exit">>, <<"!!">>, <<"!!", "once", "more">>,
  <<"ls">>, <<"ls", ">", "out">>, <<"ls", ">", "dir">>,
  <<"sort", "<", "in">>, <<"sort", "<", "missing">>,
  <<"sort", "<", "in", ">", "out">>,
  <<"ls", "|", "less">>, <<"ls", "|", "less", "&">>, <<"big", "|", "less">>,
  <<"nothing", "|", "less">>, <<"ls", "|", "nothing">>}

Reading == {<<"cat", "proc">>, <<"cat", "proc", "&">>}
Leaving == {<<"head", "proc", "&">>}
Writing == {<<"echo", "1", ">", "proc">>, <<"echo", "9", ">", "proc", "&">>,
            <<"echo", "word", ">", "proc">>}

MCSessions == [e \in {"none", "jiffies", "seconds", "pid"} |->
  CASE e = "none" -> [lines |-> Plain, length |-> 4]
    [] e = "pid"  -> [lines |-> Reading \cup Leaving \cup Writing, length |-> 3]
    [] OTHER      -> [lines |-> Reading, length |-> 2]]

MCOutput == [w \in {"ls", "big", "sort", "less", "cat", "head", "echo"} |->
               CASE w = "ls" -> 2 [] w = "big" -> 3 [] OTHER -> 0]
MCNumeral == [w \in {"1", "9"} |-> IF w = "1" THEN 1 ELSE 9]

ASSUME LinesAreSupported == SupportedLines
=============================================================================
