----------------------------- MODULE MCFileWalk -----------------------------
(* Small file systems for the programs of FileCounters.                     *)
EXTENDS FileCounters

\* The file system with these entries of the root, of "sub" and of "deep".
FileSystem(ofRoot, ofSub, ofDeep, locked) ==
  [children |-> [n \in Node |-> CASE n = Root -> ofRoot [] n = "sub" -> ofSub
                                  [] n = "deep" -> ofDeep [] OTHER -> {}],
   files |-> {"a", "b", "c"}, unreadable |-> locked]

\* A single file; a directory with files and an empty directory; files on
\* three levels; two directories side by side; one of them not to be listed; a
\* root that cannot be listed.
SomeTrees ==
  {[FileSystem({}, {}, {}, {}) EXCEPT !.files = {Root}],
   FileSystem({"a", "b", "sub"}, {}, {}, {}),
   FileSystem({"a", "sub"}, {"b", "deep"}, {"c"}, {}),
   FileSystem({"sub", "deep"}, {"a"}, {"b", "c"}, {}),
   FileSystem({"a", "sub", "deep"}, {"b"}, {"c"}, {"deep"}),
   FileSystem({"a", "sub"}, {"b"}, {}, {Root})}
=============================================================================
