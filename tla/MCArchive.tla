------------------------------ MODULE MCArchive ------------------------------
(* Small trees for Archive: one node of every kind, nesting, every mode. *)
EXTENDS Archive

Node(kind, parent, writable, inside) ==
    [kind |-> kind, parent |-> parent, writable |-> writable, inside |-> inside]

\* A directory with a file, a directory below it with a file, and a link.
Nested == << Node("dir", 0, TRUE, TRUE), Node("file", 1, TRUE, TRUE), Node("dir", 1, TRUE, TRUE),
             Node("file", 3, FALSE, TRUE), Node("link", 1, TRUE, TRUE) >>
\* The source is a single file.
Single == << Node("file", 0, TRUE, TRUE) >>
\* A directory without write permission, filled and empty.
Sealed == << Node("dir", 0, TRUE, TRUE), Node("dir", 1, FALSE, TRUE), Node("file", 1, TRUE, TRUE) >>
SealedFull == << Node("dir", 0, FALSE, TRUE), Node("file", 1, TRUE, TRUE) >>
\* A link that leads out, and nodes that are no files.
Leading == << Node("dir", 0, TRUE, TRUE), Node("link", 1, TRUE, FALSE), Node("file", 1, TRUE, TRUE) >>
Special == << Node("dir", 0, TRUE, TRUE), Node("fifo", 1, TRUE, TRUE), Node("file", 1, TRUE, TRUE) >>
Socket == << Node("dir", 0, TRUE, TRUE), Node("socket", 1, TRUE, TRUE) >>

AllTrees == {Nested, Single, Sealed, SealedFull, Leading, Special, Socket}

Tarred(ext, opts) == [zip |-> FALSE, ext |-> ext, opts |-> opts]
AllFormats ==
    {Tarred(e, <<>>) : e \in Compressions}
        \cup {Tarred("none", <<"bzip2">>), Tarred("gzip", <<"none">>), Tarred("gzip", <<"none", "gzip">>)}
        \cup {[zip |-> TRUE, ext |-> "none", opts |-> <<>>]}
=============================================================================
