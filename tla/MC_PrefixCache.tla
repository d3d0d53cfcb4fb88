---------------------------- MODULE MC_PrefixCache ----------------------------
(***************************************************************************)
(* The prefix cache by itself, for TLC: conversations with the same        *)
(* beginning, one after another, in an LLM runner of any kind of layers.   *)
(***************************************************************************)
EXTENDS PrefixCache

SomePrompts == {<<"a", "b", "c", "d", "e">>, <<"a", "b", "d", "d">>, <<"a", "b">>}
===============================================================================
