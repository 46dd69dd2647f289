---------------------------- MODULE MCDirectory -----------------------------
(* A small instance of Directory: a directory d and files d/x, used by     *)
(* absolute paths, from inside and through "..".                           *)
EXTENDS Directory

Do(call, absolute, path, name) ==
  [call |-> call, absolute |-> absolute, path |-> path, name |-> name]

MCCalls == {Do("mkdir", TRUE, << >>, "d"),
            Do("chdir", TRUE, <<"d">>, ""),
            Do("create", TRUE, <<"d">>, "x"),
            Do("open", TRUE, <<"d">>, "x"),
            Do("mkdir", TRUE, <<"d">>, "x"),
            Do("chdir", TRUE, <<"d", "x">>, ""),
            Do("open", FALSE, <<"..">>, ""),
            Do("open", FALSE, << >>, "."),
            Do("remove", TRUE, << >>, "d"),
            Do("remove", TRUE, <<"d">>, "x"),
            Do("remove", FALSE, <<"..">>, "d"),
            Do("chdir", FALSE, <<"..">>, ""),
            Do("remove", FALSE, << >>, "x")}
=============================================================================
