---------------------------- MODULE MCIndexFiles ----------------------------
(* Bounds for IndexFiles: sessions and rows with a vector are interchangeable. *)
EXTENDS IndexFiles, TLC

MCWorkloads == {{"DROP", "REINDEX"}, {"RENAME"}, {"REWRITE"}}
MCTruncate == {{"REWRITE"}}
MCRename == {{"RENAME"}}
MCCreateOnly == {{}}
MCSymmetry == Permutations(Row \ NullRow) \union Permutations(Backend)
=============================================================================
