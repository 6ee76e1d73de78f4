---------------------------- MODULE MCPlanning ----------------------------
(* Planning with contents that differ in every way the planner tells apart: *)
(* one base; its internals, documentation and type variable names changed;  *)
(* and a constructor more, with a function more.  And the changelog, which  *)
(* shares no state with that: the two are checked one at a time.            *)
EXTENDS Planning, Changelogs, TLC

MCContents == {"base", "internal", "constructor"}
Base(text, variable) ==
  (<<"widget">> :> Declaration(<<>>, text))
  @@ (<<"widget", "function", "id">> :> Declaration(<<Var(variable), Var(variable)>>, text))
  @@ (<<"widget", "type", "t">> :> Declaration(<<>>, text))
  @@ (<<"widget", "type", "t", "A">> :> Declaration(<<Type("int")>>, text))
MCInterfaceOf ==
  [content \in MCContents |->
     CASE content = "base" -> Base("old", 1)
       [] content = "internal" -> Base("new", 7)
       [] OTHER ->
            Base("old", 1) @@ (<<"widget", "type", "t", "B">> :> Declaration(<<>>, "old"))
            @@ (<<"widget", "function", "more">> :> Declaration(<<Type("int")>>, "old"))]

MCMessages == {"none", "minor"}
MCAsked == {Version(<<1, 1, 0>>, Train("beta", 2)), Version(<<2, 0, 0>>, <<Label("dev"), Digits(1)>>)}
MCFirstContents == {"base"}
MCFirstVersions == {Version(<<1, 0, 0>>, Stable)}

(* A changelog that a person began without the heading. *)
MCBooks == {Book({Hand(0)}, <<>>)}

PlanningRests ==
  /\ history = <<>> /\ hex = <<>> /\ tags = <<>> /\ refs = <<>> /\ cache = <<>>
  /\ plan = NoPlan
ChangelogRests ==
  landed = <<>> /\ notes = {} /\ target = 1 /\ proposal = NoProposal /\ published = <<>>
MCInit == (Init /\ ChangelogRests) \/ (PlanningRests /\ ChangelogInit)
MCNext ==
  \/ history # <<>> /\ Next /\ UNCHANGED changelogVars
  \/ landed # <<>> /\ ChangelogNext /\ UNCHANGED vars
MCSpec == MCInit /\ [][MCNext]_<<vars, changelogVars>>
=============================================================================
