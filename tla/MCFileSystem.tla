----------------------------- MODULE MCFileSystem -----------------------------
(* FileSystem for TLC: the paths of a small tree. *)
EXTENDS FileSystem

MCName == {"a", "b", "c"}
MCPath == {<<"a">>, <<"a", "a">>, <<"a", "b">>, <<"a", "c">>, <<"a", "b", "a">>}
====
