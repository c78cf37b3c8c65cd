----------------------------- MODULE FileNames -----------------------------
(***************************************************************************)
(* The names files get in nrdiag-output.zip (tasks/fileCopyEnvelope.go).   *)
(*                                                                         *)
(* A base name such as "agent(1).log" is a stem, "agent.log", and the      *)
(* numbers in parentheses that end it, <<1>>: SplitName puts a duplicate's *)
(* number before the extension, so appending a number to the sequence is   *)
(* what Sprintf("%s(%d)%s") does to the string.  A folder is what          *)
(* filepath.Dir leaves of an identifier: category and subcategory, or "."  *)
(* for the empty identifier.                                               *)
(***************************************************************************)
EXTENDS Integers, Sequences

CONSTANTS
  Path,       \* the paths of the files a run meets
  BaseName,   \* BaseName[path]: [stem, numbers]
  Folder,     \* category/subcategory of the tasks
  Stream,     \* the streams tasks hand to the collector
  NoStream,   \* the nil stream of an envelope for a file on disk
  MaxTries    \* how many names are tried for one file (49)

ASSUME FileNamesAssumption ==
  /\ Path \subseteq STRING
  /\ BaseName \in [Path -> [stem : STRING, numbers : Seq(Nat)]]
  /\ Folder \subseteq STRING \ {".", ""}
  /\ NoStream \notin Stream
  /\ MaxTries \in Nat \ {0}

\* The folder of an envelope whose Identifier is the empty string.
NoFolder == "."

Envelope == [path : Path, stream : Stream \cup {NoStream},
             folder : Folder \cup {NoFolder}, instance : Nat]

\* The name of an entry of the archive; files that main copies itself are kept
\* under "Include/" and "ScriptOutput/".
StoredName == [folder : Folder \cup {NoFolder, "", "Include", "ScriptOutput"},
               stem : STRING, numbers : Seq(Nat)]

\* Name: the folder, a slash, the base name of the path.
Name(e) == [folder |-> e.folder, stem |-> BaseName[e.path].stem,
            numbers |-> BaseName[e.path].numbers]

\* StoreName removes "./" from the name of a first instance, and only there.
StoreName(e) ==
  IF e.instance = 0
  THEN [Name(e) EXCEPT !.folder = IF @ = NoFolder THEN "" ELSE @]
  ELSE [Name(e) EXCEPT !.numbers = Append(@, e.instance)]

\* IncrementDuplicateCount, n times.
Instance(e, n) == [e EXCEPT !.instance = @ + n]

\* "Set the identifier if not previously set".
WithFolder(e, folder) == IF e.folder = NoFolder THEN [e EXCEPT !.folder = folder] ELSE e

\* The increments after which the name of the envelope is free, within the
\* tries the loop of ProcessFilesChannel makes.
FreeInstances(e, names) ==
  {n \in 0 .. MaxTries - 1 : StoreName(Instance(e, n)) \notin names}

=============================================================================
