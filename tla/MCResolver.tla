---------------------------- MODULE MCResolver ------------------------------
(* Values, paths and mappings for the run of DataResolver.                 *)
EXTENDS DataResolver, TLC

CONSTANTS leaf, empty, flat, deep, list, nil

(* empty = {}, flat = {"x": leaf}, nil = [], list = [leaf, flat],          *)
(* deep = {"x": list, "0": flat, "output": nil}                            *)
SomeKind ==
  (leaf :> "leaf") @@ (empty :> "dict") @@ (flat :> "dict") @@ (deep :> "dict")
    @@ (list :> "list") @@ (nil :> "list")

SomeFields ==
  (empty :> [key \in {} |-> leaf]) @@ (flat :> ("x" :> leaf))
    @@ (deep :> (("x" :> list) @@ ("0" :> flat) @@ ("output" :> nil)))

SomeItems == (nil :> <<>>) @@ (list :> <<leaf, flat>>)

SomeNumber == ("0" :> 0) @@ ("-1" :> -1) @@ ("-3" :> -3)

Parts == {"$input", "a", "output", "x", "0", "-1", "-3"}

(* All paths of up to three parts, and the longer ones that begin like a   *)
(* reference to an output.                                                 *)
Paths ==
  UNION {[1..k -> Parts] : k \in 1..3}
    \cup {<<"a", "output">> \o tail : tail \in [1..2 -> Parts] \cup [1..3 -> {"x", "0", "-1"}]}

(* One parameter with any of them, or two with some.                       *)
SomePairs ==
  {<<"$input">>, <<"$input", "x">>, <<"a", "output", "x">>, <<"a", "output", "x", "x">>, <<"b", "output", "x">>}

SomeMappings == {<<>>} \cup {<<path>> : path \in Paths} \cup (SomePairs \X SomePairs)
=============================================================================
