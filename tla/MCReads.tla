------------------------------ MODULE MCReads ------------------------------
(* The clients of the services, for TLC: headers that name no delay, a     *)
(* short one, one above both caps and one that no word holds; lists of up  *)
(* to three pages that change at most twice while they are read.  And what *)
(* the program prints of their errors, redacted of two secrets, and every  *)
(* archive of up to three entries that they may get.  The three share no   *)
(* state, so they are checked one at a time.                               *)
EXTENDS Reads, Redaction, Archives

SomeHeaders == [digits : {FALSE}, number : {0}]
               \cup [digits : {TRUE}, number : {1, 90, MaxWord + 1}]

MCWidth == [byte \in Starts |-> IF byte = "lead" THEN 2 ELSE 1]
Utf8(length) == {s \in [1..length -> Bytes] : IsUtf8(s)}
MCTexts == UNION {Utf8(length) : length \in 0..4}
MCSecretLists == {<<one, other>> : one, other \in UNION {Utf8(length) : length \in 0..3}}

MCNames == {"", "..", "a", "A", "m.gleam", "m.erl", "VERSION", "CHECKSUM", "metadata", "contents"}
MCPortable == MCNames \ {"", ".."}
MCStored == [name \in MCNames |-> IF name = "A" THEN "a" ELSE name]
MCOuterPaths == {<<"VERSION">>, <<"CHECKSUM">>, <<"metadata">>, <<"contents">>}
MCErlang == [path \in {<<"m.gleam">>} |-> <<"m.erl">>]

An(kind, path, size) ==
  [kind |-> kind, path |-> path, size |-> size, whole |-> TRUE, content |-> "one"]
Cut(entry) == [entry EXCEPT !.whole = FALSE]
SomePaths == {<<"a">>, <<"A">>, <<"a", "A">>, <<"A", "a">>, <<"a", "..">>,
              <<"m.gleam">>, <<"m.erl">>}
SomeEntries ==
  {An("file", path, 1) : path \in SomePaths}
  \cup {[An("file", path, 1) EXCEPT !.content = "other"] : path \in {<<"A">>, <<"A", "a">>}}
  \cup {An("file", <<"a", "">>, 2), An("file", <<"a">>, 3), Cut(An("file", <<"a">>, 1))}
  \cup {An("dir", <<"a", "">>, size) : size \in 0..1}
  \cup {An("path", path, 1) : path \in {<<"a">>, <<"m.erl">>, <<"a", "A">>, <<>>}}
  \cup {Cut(An("path", <<"a">>, 1)), An("link", <<"a">>, 0), An("global", <<>>, 0)}
SomeSequences(length) == UNION {[1..n -> SomeEntries] : n \in 0..length}

MCOuter == <<An("file", <<"VERSION">>, 1), An("file", <<"CHECKSUM">>, 1),
             An("file", <<"metadata">>, 1), An("file", <<"contents">>, 1)>>
Hex(outer, inner) == [hex |-> TRUE, size |-> 1, outer |-> outer, inner |-> inner,
                      version |-> TRUE, checksum |-> TRUE]
Tree(inner) == [Hex(<<>>, inner) EXCEPT !.hex = FALSE]
MCTarballs ==
  {Hex(MCOuter, inner) : inner \in SomeSequences(3)} \cup {Tree(inner) : inner \in SomeSequences(2)}
  \cup {Hex([MCOuter EXCEPT ![k] = entry], <<>>) : k \in {1, 4}, entry \in SomeEntries}
  \cup {Hex(SubSeq(MCOuter, 1, 3), <<>>),
        [Hex(MCOuter, <<>>) EXCEPT !.version = FALSE],
        [Hex(MCOuter, <<>>) EXCEPT !.checksum = FALSE],
        [Hex(MCOuter, <<>>) EXCEPT !.size = 2],
        Tree([k \in 1..5 |-> An("dir", <<"a", "">>, 0)])}

ReadsRest ==
  /\ task = [op |-> "get", credential |-> FALSE, organization |-> FALSE,
             write |-> "allowed", read |-> "allowed"]
  /\ call = [Fresh(0) EXCEPT !.pc = "done"]
  /\ bearers = {} /\ found = 0 /\ result = "none"
  /\ listed = "unknown" /\ entries = <<>> /\ edits = 0
NothingToRedact ==
  text = <<>> /\ secrets = <<>> /\ at = 1 /\ tried = 0 /\ reach = 1 /\ segments = <<>>
NothingToUnpack ==
  /\ tarball = Hex(<<>>, <<>>) /\ reading = "refused"
  /\ next = 1 /\ total = 0 /\ pending = NoPath /\ output = {} /\ files = {}
  /\ directories = {} /\ left = {} /\ disk = {}

MCInit ==
  \/ Init /\ NothingToRedact /\ NothingToUnpack
  \/ ReadsRest /\ RedactionInit /\ NothingToUnpack
  \/ ReadsRest /\ NothingToRedact /\ ArchivesInit
MCNext ==
  \/ Next /\ UNCHANGED <<redactionVars, archiveVars>>
  \/ RedactionNext /\ UNCHANGED <<vars, archiveVars>>
  \/ ArchivesNext /\ UNCHANGED <<vars, redactionVars>>
MCSpec == MCInit /\ [][MCNext]_<<vars, redactionVars, archiveVars>> /\ WF_vars(ClientNext)
============================================================================
