----------------------------- MODULE Interfaces -----------------------------
(***************************************************************************)
(* The comparison of two public interfaces (api.rs), which decides the     *)
(* step that an API change requires.                                       *)
(*                                                                         *)
(* An interface maps the path of each declaration to what it declares.  A  *)
(* path is <<module>>, <<module, kind, name>> with the kind function,      *)
(* constant, alias or type, or <<module, "type", name, constructor>>.  A   *)
(* declaration is the sequence of its type's tokens, where a token is a    *)
(* type variable <<"var", id>> or a concrete type <<"type", name>>, and a  *)
(* documentation text.                                                     *)
(***************************************************************************)
EXTENDS Naturals, Sequences

Declaration(tokens, text) == [tokens |-> tokens, doc |-> text]
Var(id) == <<"var", id>>
Type(name) == <<"type", name>>

(* The signature of a declaration: documentation is absent, and a type     *)
(* variable is named by its first occurrence, so a rename by the compiler  *)
(* changes nothing.                                                        *)
Signature(declaration) ==
  LET tokens == declaration.tokens
      first(i) == CHOOSE j \in DOMAIN tokens :
                    /\ tokens[j] = tokens[i]
                    /\ \A k \in DOMAIN tokens : tokens[k] = tokens[i] => j <= k
  IN [i \in DOMAIN tokens |-> IF tokens[i][1] = "var" THEN <<"var", first(i)>> ELSE tokens[i]]

Surface(interface) == [path \in DOMAIN interface |-> Signature(interface[path])]

IsConstructor(path) == Len(path) = 4
(* What a declaration belongs to: nothing, its module, or its type. *)
Parents(path) ==
  CASE Len(path) = 1 -> {}
    [] Len(path) = 3 -> {<<path[1]>>}
    [] OTHER -> {<<path[1], path[2], path[3]>>}

(* Every declaration belongs to one that is there. *)
IsInterface(interface) ==
  \A path \in DOMAIN interface :
    Len(path) \in {1, 3, 4} /\ Parents(path) \subseteq DOMAIN interface

(* The changes from one surface to another.  A declaration that came or    *)
(* went with its parent is no change of its own, and a new constructor     *)
(* breaks the exhaustive matches on its type.                              *)
Change(kind, path, breaking) == [kind |-> kind, path |-> path, breaking |-> breaking]
AddedQuietly(old, new) ==
  {Change("added", path, FALSE) :
     path \in {p \in DOMAIN new \ DOMAIN old : Parents(p) \subseteq DOMAIN old}}
Added(old, new) ==
  {Change(IF IsConstructor(path) THEN "constructor_added" ELSE "added", path, IsConstructor(path)) :
     path \in {p \in DOMAIN new \ DOMAIN old : Parents(p) \subseteq DOMAIN old}}
Removed(old, new) ==
  {Change("removed", path, TRUE) :
     path \in {p \in DOMAIN old \ DOMAIN new : Parents(p) \subseteq DOMAIN new}}
Altered(old, new) ==
  {Change("changed", path, TRUE) :
     path \in {p \in DOMAIN old \cap DOMAIN new : old[p] # new[p]}}
Changes(old, new) ==
  LET before == Surface(old)
      after  == Surface(new)
  IN Added(before, after) \cup Removed(before, after) \cup Altered(before, after)

(* The step that the changes require. *)
Impact(old, new) ==
  LET changes == Changes(old, new)
  IN CASE changes = {} -> "none"
       [] \E change \in changes : change.breaking -> "major"
       [] OTHER -> "minor"

-----------------------------------------------------------------------------
(* A client's code compiles against an interface when every declaration it *)
(* uses has the type it was written for, and every type it matches on has  *)
(* exactly the constructors it handles.  A client of the old interface may *)
(* use all of it.                                                          *)
ClientsBuild(old, new) ==
  LET before == Surface(old)
      after  == Surface(new)
  IN /\ \A path \in DOMAIN before : path \in DOMAIN after /\ after[path] = before[path]
     /\ \A path \in DOMAIN after \ DOMAIN before :
          IsConstructor(path) => ~(Parents(path) \subseteq DOMAIN before)
=============================================================================
