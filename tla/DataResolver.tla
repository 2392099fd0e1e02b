---------------------------- MODULE DataResolver ----------------------------
(***************************************************************************)
(* execution/data_resolver.py: resolve() turns the input_mapping of a node *)
(* into the payload for its agent.  The paths are taken in order, and each *)
(* is followed key by key through nested dicts and lists; a step is one    *)
(* key.  Every behaviour starts from one call, with its mapping, the input *)
(* of the workflow and the output of the node "a" the paths may name.      *)
(*                                                                         *)
(* JSON values are objects: Kind, Fields and Items say what each is.  A    *)
(* path is the sequence of its parts, what path.split(".") returns.        *)
(*                                                                         *)
(* NamesOutputShort, NamesOutputLong and ItemOffByOne are wrong variants   *)
(* of the definitions that follow them.                                    *)
(***************************************************************************)
EXTENDS Integers, Sequences

CONSTANTS
  Objects,    \* the values that occur in inputs and outputs
  Kind,       \* Kind[o]: "dict", "list", or "leaf" for everything else
  Fields,     \* Fields[o]: the entries of a dict, a function of its keys
  Items,      \* Items[o]: the elements of a list
  Number,     \* int(), defined for the keys that are spelled as integers
  Mappings,   \* the input mappings of the run, as sequences of paths
  None,       \* the output of a node that has none
  Missing     \* the node has no entry in node_results

Dicts == {o \in Objects : Kind[o] = "dict"}

ASSUME ValuesAssumption ==
  /\ \A o \in Dicts : \A key \in DOMAIN Fields[o] : Fields[o][key] \in Objects
  /\ \A o \in Objects : Kind[o] = "list" => Items[o] \in Seq(Objects)
  /\ \A key \in DOMAIN Number : Number[key] \in Int
  /\ {None, Missing} \cap Objects = {}
  /\ Mappings \subseteq Seq(Seq(STRING) \ {<<>>})

VARIABLES
  mapping,    \* node.input_mapping
  input,      \* workflow_input
  result,     \* node_results["a"].output
  current,    \* _traverse(): where it has got to, or None between two paths
  keys,       \* the keys it has still to follow
  resolved,   \* the values resolved so far, in the order of the parameters
  outcome     \* "pending", "resolved", or the exception resolve() raised

vars == <<mapping, input, result, current, keys, resolved, outcome>>

TypeOK ==
  /\ mapping \in Mappings
  /\ input \in Dicts
  /\ result \in Dicts \cup {None, Missing}
  /\ current \in Objects \cup {None}
  /\ keys \in Seq(STRING)
  /\ resolved \in Seq(Objects)
  /\ outcome \in {"pending", "resolved", "DataResolverError", "ValueError"}

Init ==
  /\ mapping \in Mappings
  /\ input \in Dicts
  /\ result \in Dicts \cup {None, Missing}
  /\ current = None
  /\ keys = <<>>
  /\ resolved = <<>>
  /\ outcome = "pending"
-----------------------------------------------------------------------------
From(seq, i) == SubSeq(seq, i, Len(seq))

(* _resolve_path() up to _traverse(): the root of a path and the keys to   *)
(* follow from it.  No root: the path is malformed, or the node it names   *)
(* has no result or no output.                                             *)
NamesOutputShort(path) == Len(path) >= 2 /\ path[2] = "output"
NamesOutputLong(path) == Len(path) > 3 /\ path[2] = "output"
NamesOutput(path) == Len(path) >= 3 /\ path[2] = "output"

Root(path) ==
  CASE path[1] = "$input"                      -> input
    [] path[1] = "a" /\ NamesOutput(path)
         /\ result \notin {None, Missing}      -> result
    [] OTHER                                   -> None

KeysOf(path) == From(path, IF path[1] = "$input" THEN 2 ELSE 3)

Raise(error) ==
  /\ outcome' = error
  /\ UNCHANGED <<mapping, input, result, current, keys, resolved>>

(* The next path, when there is one and none is being followed.            *)
BeginPath ==
  /\ outcome = "pending"
  /\ current = None
  /\ Len(resolved) < Len(mapping)
  /\ LET path == mapping[Len(resolved) + 1]
     IN  \/ /\ Root(path) = None
            /\ Raise("DataResolverError")
         \/ /\ Root(path) # None
            /\ current' = Root(path)
            /\ keys' = KeysOf(path)
            /\ UNCHANGED <<mapping, input, result, resolved, outcome>>

(* Python's sequence index: from the front, or from the end when negative. *)
ItemOffByOne(list, i) ==
  CASE i \in 0..(Len(list) - 1)  -> list[i + 1]
    [] i \in (1 - Len(list))..(-1)  -> list[Len(list) + i]
    [] OTHER                     -> None

Item(list, i) ==
  CASE i \in 0..(Len(list) - 1)  -> list[i + 1]
    [] i \in (-Len(list))..(-1)  -> list[Len(list) + i + 1]
    [] OTHER                     -> None

(* One key of _traverse(): where it leads, or None for the exceptions.     *)
Entry(v, key) ==
  CASE Kind[v] = "dict" /\ key \in DOMAIN Fields[v] -> Fields[v][key]
    [] Kind[v] = "list" /\ key \in DOMAIN Number    -> Item(Items[v], Number[key])
    [] OTHER                                        -> None

(* KeyError, IndexError and TypeError become a DataResolverError in        *)
(* resolve(); the ValueError of int() does not.                            *)
Error(v, key) ==
  IF Kind[v] = "list" /\ key \notin DOMAIN Number THEN "ValueError" ELSE "DataResolverError"

FollowKey ==
  /\ outcome = "pending" /\ current # None /\ keys # <<>>
  /\ \/ /\ Entry(current, Head(keys)) # None
        /\ current' = Entry(current, Head(keys))
        /\ keys' = Tail(keys)
        /\ UNCHANGED <<mapping, input, result, resolved, outcome>>
     \/ /\ Entry(current, Head(keys)) = None
        /\ Raise(Error(current, Head(keys)))

EndPath ==
  /\ outcome = "pending" /\ current # None /\ keys = <<>>
  /\ resolved' = Append(resolved, current)
  /\ current' = None
  /\ UNCHANGED <<mapping, input, result, keys, outcome>>

Return ==
  /\ outcome = "pending"
  /\ current = None
  /\ Len(resolved) = Len(mapping)
  /\ outcome' = "resolved"
  /\ UNCHANGED <<mapping, input, result, current, keys, resolved>>

Next == BeginPath \/ FollowKey \/ EndPath \/ Return

Spec == Init /\ [][Next]_vars
-----------------------------------------------------------------------------
(* What a path means, without an algorithm: w is a child of v by a key     *)
(* when v is a dict with that entry, or a list of which w is the element   *)
(* that many places from the front or, counted down, from the end.         *)
Child(v, key, w) ==
  \/ Kind[v] = "dict" /\ key \in DOMAIN Fields[v] /\ Fields[v][key] = w
  \/ /\ Kind[v] = "list" /\ key \in DOMAIN Number
     /\ \E i \in DOMAIN Items[v] :
          Items[v][i] = w /\ Number[key] \in {i - 1, i - 1 - Len(Items[v])}

(* Following the keys from v arrives at w.                                 *)
Leads(v, path, w) ==
  \E trail \in [0..Len(path) -> Objects] :
    /\ trail[0] = v
    /\ trail[Len(path)] = w
    /\ \A k \in DOMAIN path : Child(trail[k - 1], path[k], trail[k])

(* What the documentation at the head of the file calls a reference:       *)
(* "$input" and keys, or a node, "output" and at least one key.            *)
Denotes(path, w) ==
  \/ /\ Head(path) = "$input"
     /\ Leads(input, From(path, 2), w)
  \/ /\ result \in Objects /\ Len(path) > 2
     /\ SubSeq(path, 1, 2) = <<"a", "output">>
     /\ Leads(result, From(path, 3), w)

(* The payload holds, for each parameter, the value its path denotes.      *)
ResolvesWhatPathsDenote ==
  outcome = "resolved" =>
    /\ Len(resolved) = Len(mapping)
    /\ \A i \in DOMAIN mapping : Denotes(mapping[i], resolved[i])

(* Some way along the path is a list, and the next key is not a number.    *)
IndexesListByWord(path) ==
  \E k \in DOMAIN path, list \in Objects :
    /\ Kind[list] = "list" /\ path[k] \notin DOMAIN Number
    /\ k > 1 /\ Denotes(SubSeq(path, 1, k - 1), list)

(* resolve() raises for the first path that denotes nothing and for no     *)
(* other.  Its docstring announces a DataResolverError, the failure of the *)
(* node; nothing else may escape and end the run (ResolveFails in          *)
(* ExecutionManager), but for the ValueError of a list indexed by a word,  *)
(* of which the property neither asks that it escapes nor that it is       *)
(* wrapped.                                                                *)
FirstFailureDecides ==
  outcome \in {"DataResolverError", "ValueError"} =>
    LET failed == Len(resolved) + 1
    IN  /\ failed \in DOMAIN mapping
        /\ \A w \in Objects : ~Denotes(mapping[failed], w)
        /\ \A i \in 1..(failed - 1) : Denotes(mapping[i], resolved[i])
        /\ outcome = "ValueError" => IndexesListByWord(mapping[failed])

(* A mapping that names the node resolves only when the node has an output *)
(* with something in it: what Resolvable in ExecutionManager stands for.   *)
NeedsNonEmptyOutput ==
  outcome = "resolved" /\ (\E i \in DOMAIN mapping : Head(mapping[i]) = "a") =>
    result \in Dicts /\ DOMAIN Fields[result] # {}
=============================================================================
