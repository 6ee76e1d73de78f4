----------------------------- MODULE Changelogs -----------------------------
(***************************************************************************)
(* The changelog over the life of a package (changelog.rs, and what        *)
(* planner.rs, forge.rs and the release-pr command feed it): the job on    *)
(* every push renders the section of the next version from the commits     *)
(* since the last release, their pull requests and the structured notes;   *)
(* a person merges that, and the section is published as release notes.    *)
(*                                                                         *)
(* A version is a number.  The lines of a section are a set: their order   *)
(* and their categories are layout.                                        *)
(***************************************************************************)
EXTENDS Integers, Sequences, FiniteSets

CONSTANTS
  Planned,        \* the versions that are planned
  MaxAttributed,  \* over so many commits, no pull request is looked up
  FirstBooks,     \* what the changelog holds at first
  MaxPushes,      \* bounds the commits of people on the default branch
  MaxNotes        \* bounds the structured notes

ASSUME ChangelogAssumption == Planned \subseteq Nat \ {0} /\ MaxAttributed \in Nat

VARIABLES
  landed,    \* the commits of the default branch, oldest first
  notes,     \* the note files, each with the commit that added it
  target,    \* the version that a plan of the tip selects
  proposal,  \* the open release PR, if any
  published  \* the releases, in order

changelogVars == <<landed, notes, target, proposal, published>>

Last(s) == s[Len(s)]
Highest == IF published = <<>> THEN 0 ELSE Last(published).version
Since == IF published = <<>> THEN 0 ELSE Last(published).at

-----------------------------------------------------------------------------
(* A changelog file: the lines under its Unreleased heading, or before the *)
(* first section when it has none, and the sections of versions.           *)
Book(loose, sections) == [loose |-> loose, sections |-> sections]
Line(by, id, pull) == [by |-> by, id |-> id, pull |-> pull]
Prepared == {Line("prepared", 0, 0)}
Hand(id) == Line("hand", id, 0)
(* The lines that a file may hold, and what a file is: sections of planned *)
(* versions.                                                               *)
Lines == [by : {"prepared", "hand", "commit", "pull", "note"}, id : Nat, pull : Nat]
IsBook(book) ==
  /\ book \in [loose : SUBSET Lines, sections : [DOMAIN book.sections -> SUBSET Lines]]
  /\ DOMAIN book.sections \subseteq Planned
ASSUME BooksAssumption == \A book \in FirstBooks : IsBook(book)

(* render: the section of a version is replaced where it stands.  A new    *)
(* one goes right after the Unreleased heading, before whatever followed   *)
(* it, which so becomes part of the new section.                           *)
Render(book, version, entries) ==
  LET lines == IF entries = {} THEN Prepared ELSE entries
      others == [v \in DOMAIN book.sections \ {version} |-> book.sections[v]]
      section == IF version \in DOMAIN book.sections THEN lines ELSE lines \cup book.loose
  IN Book(IF version \in DOMAIN book.sections THEN book.loose ELSE {},
          [v \in DOMAIN others \cup {version} |-> IF v = version THEN section ELSE others[v]])

(* released_note_ids of the whole file, or without the section that is     *)
(* about to be rendered.                                                   *)
LinesOf(book, versions) ==
  book.loose \cup UNION {book.sections[v] : v \in DOMAIN book.sections \cap versions}
IdsMarked(book, versions) == {line.id : line \in {l \in LinesOf(book, versions) : l.by = "note"}}
HistoricalWhole(book, version) == IdsMarked(book, Planned)
Historical(book, version) == IdsMarked(book, Planned \ {version})

(* changes_for_commits: a pull request stands for all its commits, and a   *)
(* commit without one for itself; .github/release.yml excludes some, by    *)
(* their author or their labels, which an unattributed commit has not.     *)
Attributed(commits) == Cardinality(commits) <= MaxAttributed
ByCommit(i) == Line("commit", i, 0)
Entry(commits, i) ==
  IF Attributed(commits) /\ landed[i].pull # 0 THEN Line("pull", landed[i].pull, landed[i].pull)
  ELSE ByCommit(i)
IsExcluded(commits, i) == landed[i].excluded /\ (landed[i].pull = 0 \/ Attributed(commits))
Entries(commits) == {Entry(commits, i) : i \in {j \in commits : ~IsExcluded(commits, j)}}

(* merge_supplemental_notes, in the order of the files: a note whose pull  *)
(* request is described already is dropped.                                *)
Merged(entries, pending) ==
  LET described == {entry.pull : entry \in entries}
      dropped == {n \in pending :
                    n.pull # 0 /\ (\/ n.pull \in described
                                   \/ \E other \in pending : other.id < n.id /\ other.pull = n.pull)}
  IN entries \cup {Line("note", n.id, n.pull) : n \in pending \ dropped}

(* prepare_release_files at the tip. *)
Rendered ==
  LET book == Last(landed).book
      commits == {i \in DOMAIN landed : i > Since}
      pending == {n \in notes : n.id \notin Historical(book, target)}
  IN Render(book, target, Merged(Entries(commits), pending))

-----------------------------------------------------------------------------
(* A commit of the default branch: its pull request, whether it is left    *)
(* out of changelogs, the files as of it, the version that a plan of it    *)
(* selects, and the commit that its release files were rendered from.      *)
Landing(pull, excluded, book, version, selects, from) ==
  [pull |-> pull, excluded |-> excluded, book |-> book, version |-> version,
   selects |-> selects, from |-> from]
NoProposal == [version |-> 0, book |-> Book({}, <<>>), from |-> 0]
Pulls == {landed[i].pull : i \in DOMAIN landed} \ {0}

ChangelogInit ==
  /\ target \in Planned
  /\ \E book \in FirstBooks : landed = <<Landing(0, FALSE, book, 0, target, 0)>>
  /\ notes = {} /\ proposal = NoProposal /\ published = <<>>

(* A push to the default branch, of a pull request or without one, perhaps *)
(* with a note on any pull request so far, or with a line under the        *)
(* Unreleased heading.  Every push asks for a release, and can raise the   *)
(* version.                                                                *)
Selectable(version) == version \in Planned /\ version > Highest
IsMerge(i) == i > 1 /\ landed[i].from # landed[i - 1].from
Lands ==
  /\ Cardinality({i \in DOMAIN landed : ~IsMerge(i)}) < MaxPushes
  /\ \E pull \in {0, Len(landed) + 1}, excluded \in BOOLEAN, written \in {"nothing", "note", "line"} :
       /\ \E v \in Planned :
            /\ Selectable(v) /\ v >= Last(landed).version
            /\ target' = v
            /\ landed' = Append(landed,
                 Landing(pull, excluded,
                        IF written = "line"
                          THEN [Last(landed).book EXCEPT !.loose = @ \cup {Hand(Len(landed) + 1)}]
                          ELSE Last(landed).book,
                        Last(landed).version, v, Last(landed).from))
       /\ IF written = "note"
          THEN /\ Cardinality(notes) < MaxNotes
               /\ \E about \in Pulls \cup {0, pull} :
                    notes' = notes \cup {[id |-> Cardinality(notes) + 1, pull |-> about,
                                          since |-> Len(landed) + 1]}
          ELSE notes' = notes
  /\ UNCHANGED <<proposal, published>>

(* The release-pr job at the tip.  It leaves the merge of the PR for that  *)
(* version alone, and has nothing to write when the tip holds the files.   *)
ProposesRelease ==
  /\ Len(landed) > Since /\ Selectable(target)
  /\ ~(IsMerge(Len(landed)) /\ Last(landed).version = target)
  /\ Rendered # Last(landed).book \/ target # Last(landed).version
  /\ proposal' = [version |-> target, book |-> Rendered, from |-> Len(landed)]
  /\ UNCHANGED <<landed, notes, target, published>>

(* The same job after the release: with nothing to release, it closes what *)
(* is open.                                                                *)
ClosesProposal ==
  /\ Len(landed) = Since /\ proposal # NoProposal
  /\ proposal' = NoProposal
  /\ UNCHANGED <<landed, notes, target, published>>

(* A person merges the release PR, which git does only while the release   *)
(* files on the default branch are those it was rendered from.             *)
Merges ==
  /\ proposal # NoProposal
  /\ landed[proposal.from].book = Last(landed).book
  /\ landed[proposal.from].version = Last(landed).version
  /\ landed' = Append(landed, Landing(Len(landed) + 1, FALSE, proposal.book, proposal.version,
                                     proposal.version, proposal.from))
  /\ target' = IF Selectable(proposal.version) THEN proposal.version ELSE target
  /\ proposal' = NoProposal
  /\ UNCHANGED <<notes, published>>

(* The Candidate of a commit is published whose manifest has the version   *)
(* that its plan selects, with that section as its notes.  What is not     *)
(* released yet is planned for a version after it.                         *)
Publishes ==
  /\ \E at \in Since + 1 .. Len(landed) :
       /\ Selectable(landed[at].version) /\ landed[at].version = landed[at].selects
       /\ published' = Append(published,
            [version |-> landed[at].version, at |-> at,
             notes |-> landed[at].book.sections[landed[at].version]])
       /\ target' = IF target > landed[at].version THEN target ELSE landed[at].version + 1
  /\ UNCHANGED <<landed, notes, proposal>>

ChangelogNext == Lands \/ ProposesRelease \/ ClosesProposal \/ Merges \/ Publishes
ChangelogSpec == ChangelogInit /\ [][ChangelogNext]_changelogVars

-----------------------------------------------------------------------------
(* However renderings, merges, late publications and abandoned versions    *)
(* interleave, the notes of a release tell every change since the release  *)
(* before it, up to the commit that they were rendered from, unless it is  *)
(* excluded; and every structured note by then is in the changelog of that *)
(* release, or the pull request that it is about is.                       *)
Told(lines, i) ==
  \E line \in lines : line = ByCommit(i) \/ (line.by = "pull" /\ line.pull = landed[i].pull)
ChangesAreTold ==
  \A k \in DOMAIN published :
    LET commit == landed[published[k].at]
        before == IF k = 1 THEN 0 ELSE published[k - 1].at
    IN /\ \A i \in before + 1 .. commit.from :
            landed[i].excluded \/ Told(published[k].notes, i)
       /\ \A n \in notes : n.since <= commit.from =>
            \/ n.id \in IdsMarked(commit.book, Planned)
            \/ n.pull # 0 /\ \E line \in LinesOf(commit.book, Planned) : line.pull = n.pull
=============================================================================
