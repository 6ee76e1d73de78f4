------------------------------ MODULE Archives ------------------------------
(***************************************************************************)
(* How an archive becomes a directory (artifact.rs, archive_path.rs): a    *)
(* Hex package, from which the compiler exports the interface of a         *)
(* published version, or the tree of a commit, which git archives.         *)
(*                                                                         *)
(* read_tar_files takes the archive entry by entry, and claims each file   *)
(* under the path that a file system stores it under which ignores letter  *)
(* case and the normalization of characters.  The directory that the files *)
(* are then written to may be on such a file system.                       *)
(*                                                                         *)
(* A path is a sequence of names.  What an extension header states wrongly *)
(* is the empty path.                                                      *)
(***************************************************************************)
EXTENDS Integers, Sequences

CONSTANTS
  Names,         \* the names in paths, in any bytes
  Portable,      \* those that every supported OS stores as they are
  NoName,        \* the empty one
  Stored,        \* how a name is stored where case doesn't count
  Tarballs,      \* the archives, good and bad
  OuterPaths,    \* the four entries of a Hex package
  Erlang,        \* for a Gleam module, the Erlang file that is compiled from it
  MaxTarEntries, MaxEntrySize, MaxTotal, MaxArchive

EntryKinds == {"file", "dir", "link", "path", "global"}
Entries == [kind : EntryKinds, path : Seq(Names), size : Nat, whole : BOOLEAN,
            content : {"one", "other"}]

ASSUME ArchivesAssumption ==
  /\ NoName \in Names /\ Portable \subseteq Names \ {NoName}
  /\ Tarballs \subseteq [hex : BOOLEAN, size : Nat, outer : Seq(Entries), inner : Seq(Entries),
                         version : BOOLEAN, checksum : BOOLEAN]
  /\ {MaxTarEntries, MaxEntrySize, MaxTotal, MaxArchive} \subseteq Nat

VARIABLES
  tarball,      \* the archive that is read
  reading,      \* which of its two levels is, or how far it got
  next,         \* the entry that comes next
  total,        \* the size of those before, as their headers state it
  pending,      \* the path that the last header states for the next entry
  output,       \* the files so far
  files, directories,  \* and what they claim, as it is stored
  left,         \* the files to write,
  disk          \* and those that are written, as they are stored

archiveVars == <<tarball, reading, next, total, pending, output, files, directories, left, disk>>

NoPath == <<>>
File(path, content) == [path |-> path, content |-> content]

(***************************************************************************)
(* Paths (archive_path.rs).                                                *)
(***************************************************************************)
(* A path loses its trailing slashes, behind each of which is an empty name. *)
ArchivePath(raw) ==
  [k \in {n \in DOMAIN raw : \E m \in DOMAIN raw : n <= m /\ raw[m] # NoName} |-> raw[k]]

IsPortable(path) == path # NoPath /\ \A k \in DOMAIN path : path[k] \in Portable

Folded(path) == [k \in DOMAIN path |-> Stored[path[k]]]

DirectoriesAbove(folded) == {[k \in 1..n |-> folded[k]] : n \in 1..Len(folded) - 1}

(* A path collides with a file or a directory of the same stored path, and *)
(* with a file that it would lie in.                                       *)
CollidesOutside(folded) == folded \in files \cup directories
Collides(folded) ==
  \/ folded \in files \cup directories
  \/ DirectoriesAbove(folded) \cap files # {}

(***************************************************************************)
(* read_tar_files.                                                         *)
(***************************************************************************)
EntriesRead == IF reading = "outer" THEN tarball.outer ELSE tarball.inner
Reading == reading \in {"outer", "inner"}
Current == EntriesRead[next]

Takes(kinds) == Reading /\ next \in DOMAIN EntriesRead /\ Current.kind \in kinds

(* What every entry has to keep to, counted before anything of it is read. *)
WithinLimits ==
  /\ next <= MaxTarEntries
  /\ Current.size <= MaxEntrySize
  /\ total + Current.size <= MaxTotal

(* The path of the entry, which a header before it may state.              *)
EntryPath == IF pending # NoPath THEN pending ELSE ArchivePath(Current.path)

Advances ==
  /\ next' = next + 1
  /\ total' = total + Current.size
  /\ UNCHANGED <<tarball, reading, left, disk>>

(* A GNU or PAX header that states the path of the next entry.             *)
AcceptsExtension ==
  /\ WithinLimits
  /\ pending = NoPath
  /\ Current.whole
  /\ IsPortable(ArchivePath(Current.path))

ReadsExtension ==
  /\ Takes({"path"})
  /\ AcceptsExtension
  /\ pending' = ArchivePath(Current.path)
  /\ Advances
  /\ UNCHANGED <<output, files, directories>>

AcceptsDirectory ==
  /\ WithinLimits
  /\ IsPortable(EntryPath)
  /\ reading = "inner"
  /\ Current.size = 0

SkipsDirectory ==
  /\ Takes({"dir"})
  /\ AcceptsDirectory
  /\ pending' = NoPath
  /\ Advances
  /\ UNCHANGED <<output, files, directories>>

AcceptsFile ==
  /\ WithinLimits
  /\ IsPortable(EntryPath)
  /\ \A file \in output : file.path # EntryPath
  /\ ~Collides(Folded(EntryPath))
  /\ Current.whole

(* claim_path records the file and every directory above it.               *)
ClaimsFile ==
  /\ Takes({"file"})
  /\ AcceptsFile
  /\ output' = output \cup {File(EntryPath, Current.content)}
  /\ files' = files \cup {Folded(EntryPath)}
  /\ directories' = directories \cup DirectoriesAbove(Folded(EntryPath))
  /\ pending' = NoPath
  /\ Advances

Refuses ==
  /\ reading' = "refused"
  /\ UNCHANGED <<tarball, next, total, pending, output, files, directories, left, disk>>

RefusesEntry ==
  /\ \/ Takes({"link", "global"})
     \/ Takes({"path"}) /\ ~AcceptsExtension
     \/ Takes({"dir"}) /\ ~AcceptsDirectory
     \/ Takes({"file"}) /\ ~AcceptsFile
  /\ Refuses

(***************************************************************************)
(* The levels of an archive (expand_hex_tarball, unpack_tar_bytes).        *)
(***************************************************************************)
AtEnd == Reading /\ next = Len(EntriesRead) + 1

RefusesArchive ==
  /\ \/ reading = "new" /\ tarball.size > MaxArchive
     \/ AtEnd /\ pending # NoPath
     \/ /\ AtEnd /\ pending = NoPath /\ reading = "outer"
        /\ \/ {file.path : file \in output} # OuterPaths
           \/ ~tarball.version \/ ~tarball.checksum
  /\ Refuses

Begins(level) ==
  /\ reading' = level
  /\ next' = 1 /\ total' = 0 /\ pending' = NoPath
  /\ output' = {} /\ files' = {} /\ directories' = {}
  /\ UNCHANGED <<tarball, left, disk>>

Opens ==
  /\ reading = "new" /\ tarball.size <= MaxArchive
  /\ Begins(IF tarball.hex THEN "outer" ELSE "inner")

OpensContents ==
  /\ AtEnd /\ pending = NoPath /\ reading = "outer"
  /\ {file.path : file \in output} = OuterPaths
  /\ tarball.version /\ tarball.checksum
  /\ Begins("inner")

(* What a package holds of its own; the Erlang that the compiler wrote of  *)
(* a Gleam module in it is left out (generated_erlang_paths).              *)
SourceOf(read) ==
  LET paths == {file.path : file \in read}
      generated == {Erlang[path] : path \in paths \cap DOMAIN Erlang}
  IN {file \in read : tarball.hex => file.path \notin generated}

ReadsAll ==
  /\ AtEnd /\ pending = NoPath /\ reading = "inner"
  /\ reading' = "read"
  /\ left' = SourceOf(output)
  /\ UNCHANGED <<tarball, next, total, pending, output, files, directories, disk>>

(* A file system refuses a file in the place of a directory, and one under *)
(* a file.  It overwrites one that it stores under the same path.          *)
Blocked(folded) ==
  \E other \in disk : \/ other.path \in DirectoriesAbove(folded)
                      \/ folded \in DirectoriesAbove(other.path)

Overwrites(file) ==
  {other \in disk : other.path # Folded(file.path)}
    \cup {File(Folded(file.path), file.content)}

WritesFile(file) ==
  /\ left' = left \ {file}
  /\ disk' = IF Blocked(Folded(file.path)) THEN disk ELSE Overwrites(file)
  /\ reading' = IF Blocked(Folded(file.path)) THEN "broken" ELSE "read"
  /\ UNCHANGED <<tarball, next, total, pending, output, files, directories>>

Unpacks == reading = "read" /\ \E file \in left : WritesFile(file)

ArchivesInit ==
  /\ tarball \in Tarballs
  /\ reading = "new"
  /\ next = 1 /\ total = 0 /\ pending = NoPath
  /\ output = {} /\ files = {} /\ directories = {}
  /\ left = {} /\ disk = {}

ArchivesNext ==
  \/ Opens \/ OpensContents \/ ReadsAll
  \/ ReadsExtension \/ SkipsDirectory \/ ClaimsFile
  \/ RefusesEntry \/ RefusesArchive
  \/ Unpacks

ArchivesSpec == ArchivesInit /\ [][ArchivesNext]_archiveVars

(***************************************************************************)
(* What an archive says, read as tar describes it: the content of each     *)
(* file under its path, which the header before it may state.              *)
(***************************************************************************)
DeclaredPath(entries, i) ==
  ArchivePath(entries[IF i > 1 /\ entries[i - 1].kind = "path" THEN i - 1 ELSE i].path)

Declared(entries, upTo) ==
  {File(DeclaredPath(entries, i), entries[i].content) :
     i \in {k \in 1..upTo : entries[k].kind = "file"}}

(* An archive that is accepted can be unpacked on every supported OS, and  *)
(* its directory then holds each file of its own under its path with its   *)
(* content: none replaces another, and none is in the way of another.      *)
UnpacksAsDeclared ==
  /\ reading # "broken"
  /\ reading = "read" =>
       LET own == SourceOf(Declared(tarball.inner, Len(tarball.inner)))
       IN /\ left \subseteq own
          /\ disk = {File(Folded(file.path), file.content) : file \in own \ left}
          /\ \A one, other \in own : Folded(one.path) = Folded(other.path) => one = other
=============================================================================
