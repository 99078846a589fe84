------------------------------- MODULE Archive -------------------------------
(***************************************************************************)
(* compression/tar.go and compression/zip.go: an archive is made of a tree *)
(* that may change meanwhile, by a stack of writers closed by deferred     *)
(* calls whose errors are dropped, and is extracted, more than once if the *)
(* client tries again.                                                     *)
(*                                                                         *)
(* A tree is the sequence of its nodes in the order of filepath.Walk, the  *)
(* root first; a node's name is its place in it.  Contents are a number of *)
(* units, modes whether the owner may write.  Writers, readers and the     *)
(* disk (archive/tar, archive/zip, compress/...) are external.             *)
(***************************************************************************)
EXTENDS Integers, Sequences, SequencesExt, FiniteSets

CONSTANTS
    Trees,        \* the trees to archive
    Formats,      \* the calls: [zip, ext, opts], ext the extension's compression
    MaxSize,      \* bound: units in a file
    MaxFaults,    \* bound: disk operations that fail
    MaxAttempts   \* bound: extractions

Compressions == {"none", "gzip", "bzip2"}
Kinds == {"dir", "file", "link", "fifo", "socket"}
NodesOf(t) == DOMAIN t

\* What filepath.Walk finds: a directory before what is in it, the root first.
IsTree(t) ==
    /\ t \in Seq([kind : Kinds, parent : Nat, writable : BOOLEAN, inside : BOOLEAN])
    /\ Len(t) > 0 /\ t[1].parent = 0
    /\ \A n \in 2..Len(t) : t[n].parent \in 1..n - 1 /\ t[t[n].parent].kind = "dir"

ASSUME ArchiveAssumption ==
    /\ {MaxSize, MaxFaults, MaxAttempts} \subseteq Nat
    /\ \A t \in Trees : IsTree(t)
    /\ Formats \subseteq [zip : BOOLEAN, ext : Compressions, opts : Seq(Compressions)]

VARIABLES
    tree, size,   \* the source, and the present size of each of its nodes
    format,
    pc,           \* "start", "walk", "copy", "close", "extract", "idle"
    at,           \* the node Walk visits
    compression,  \* tarConfig.compression
    entries,      \* what has been written: node, announced size, contents
    end,          \* what a reader meets after them: "whole" (end), "cut" (error)
    closers,      \* the deferred calls still to run, first to run first
    result,       \* what Tar or Zip returns
    dropped,      \* history: the errors that deferred calls dropped
    dest,         \* the destination directory: what each node has become there
    upto,         \* entries extracted
    outcome,      \* what UnTar or UnZip returns
    attempts, faults

making == <<at, compression, entries, end, closers, result>>
source == <<tree, format>>
vars == <<source, size, pc, making, dropped, dest, upto, outcome, attempts, faults>>

Nodes == NodesOf(tree)

\* dest: nothing there, or a node of this kind, contents and mode.
Absent == [kind |-> "absent", data |-> 0, writable |-> FALSE]
Made(kind, data, writable) == [kind |-> kind, data |-> data, writable |-> writable]

Init ==
    /\ tree \in Trees
    /\ format \in Formats
    /\ size \in {s \in [Nodes -> 0..MaxSize] :
                    \A n \in Nodes : tree[n].kind # "file" => s[n] = 0}
    /\ pc = "start" /\ at = 1 /\ compression = "none"
    /\ entries = <<>> /\ end = "cut" /\ closers = <<>>
    /\ result = "none" /\ dropped = {}
    /\ dest = [n \in Nodes |-> Absent]
    /\ upto = 0 /\ outcome = "none" /\ attempts = 0 /\ faults = 0

\* A disk operation fails.
Fault == faults < MaxFaults /\ faults' = faults + 1

----------------------------------------------------------------------------
\* Making the archive

\* The options are applied in turn, after what the extension says.
Chosen(f) == IF f.zip \/ f.opts = <<>> THEN f.ext ELSE Last(f.opts)

\* The deferred calls, in the order in which they run.
Deferred(f) ==
    IF f.zip THEN <<"zip", "file">>
    ELSE IF Chosen(f) = "none" THEN <<"tar", "file">>
    ELSE <<"compressor", "tar", "file">>

Create ==
    /\ pc = "start"
    /\ \/ /\ pc' = "walk" /\ compression' = Chosen(format)
          /\ closers' = Deferred(format)
          /\ UNCHANGED <<result, faults>>
       \/ /\ Fault                                       \* os.Create fails
          /\ result' = "error" /\ pc' = "idle"
          /\ UNCHANGED <<compression, closers>>
    /\ UNCHANGED <<source, size, at, entries, end, dropped, dest, upto, outcome, attempts>>

\* The deferred calls begin, with the error of Walk or without one.
Return(r) == result' = r /\ pc' = "close"

\* The content of the last entry falls short of what its header announced: the
\* next WriteHeader, or Close, reports it.
Short == entries # <<>> /\ Last(entries).data < Last(entries).size

\* No writer for a socket's header.
NoHeader(n) == ~format.zip /\ tree[n].kind = "socket"

\* Mutant of Skipped: anything but files and links.
SkippedIrregular(n) == format.zip /\ tree[n].kind \notin {"file", "link"}

\* Zip leaves directories out.
Skipped(n) == format.zip /\ tree[n].kind = "dir"

\* What the walk does after node `at`.
GoOn ==
    /\ at' = at + 1
    /\ IF at = Len(tree) THEN Return("ok") ELSE pc' = "walk" /\ UNCHANGED result

\* Walk has read the node's attributes; its header goes out.
Visit ==
    /\ pc = "walk"
    /\ \/ /\ Skipped(at)
          /\ GoOn
          /\ UNCHANGED <<entries, faults>>
       \/ /\ Fault                       \* lstat, readdir, readlink or the write
          /\ Return("error")
          /\ UNCHANGED <<entries, at>>
       \/ /\ ~Skipped(at)
          /\ NoHeader(at) \/ (~format.zip /\ Short)
          /\ Return("error")
          /\ UNCHANGED <<entries, at, faults>>
       \/ /\ ~Skipped(at) /\ ~NoHeader(at) /\ (format.zip \/ ~Short)
          /\ entries' = Append(entries, [node |-> at, data |-> 0,
                                         size |-> IF format.zip THEN 0 ELSE size[at]])
          /\ IF tree[at].kind = "file" THEN pc' = "copy" /\ UNCHANGED <<at, result>> ELSE GoOn
          /\ UNCHANGED faults
    /\ UNCHANGED <<source, size, compression, end, closers, dropped, dest, upto, outcome, attempts>>

\* Another process writes the file between lstat and open: only then does it
\* matter, a change before or after is one of another tree or another time.
Change ==
    /\ pc = "copy"
    /\ \E s \in 0..MaxSize \ {size[at]} : size' = [size EXCEPT ![at] = s]
    /\ UNCHANGED <<source, pc, making, dropped, dest, upto, outcome, attempts, faults>>

\* Mutant of Accepted: the header is not binding.
AcceptedAnyhow(e) == e.data <= MaxSize

\* archive/tar takes no more than the header announced.
Accepted(e) == format.zip \/ e.data <= e.size

\* io.Copy: the file as it is now.
Copy ==
    /\ pc = "copy"
    /\ LET e == [Last(entries) EXCEPT !.data = size[at]]
           w == IF format.zip THEN [e EXCEPT !.size = e.data] ELSE e
       IN  \/ /\ Accepted(e)
              /\ entries' = Append(Front(entries), w)
              /\ GoOn
              /\ UNCHANGED faults
           \/ /\ ~Accepted(e)
              /\ entries' = Append(Front(entries), [e EXCEPT !.data = e.size])
              /\ Return("error")
              /\ UNCHANGED <<at, faults>>
           \/ /\ Fault                                   \* open, read or write
              /\ Return("error")
              /\ UNCHANGED <<at, entries>>
    /\ UNCHANGED <<source, size, compression, end, closers, dropped, dest, upto, outcome, attempts>>

\* The archive file keeps the first k entries and breaks off.
CutAt(k) == entries' = SubSeq(entries, 1, k) /\ end' = "cut"
Keeps == UNCHANGED <<entries, end>>

\* What was still buffered does not reach the disk.
Lose == \E k \in 0..Len(entries) : CutAt(k)

\* Each deferred call drops its error.  A compressor is closed before the tar
\* writer that still has padding and the trailer to write, so that its Close
\* always fails; readers accept an archive that ends after the last content.
CloseCompressor ==
    \/ end' = "whole" /\ UNCHANGED <<entries, dropped, faults>>
    \/ Fault /\ Lose /\ dropped' = dropped \cup {"compressor"}

CloseTar ==
    \/ /\ Short
       /\ dropped' = dropped \cup {"short"} /\ Keeps /\ UNCHANGED faults
    \/ /\ ~Short /\ compression # "none"
       /\ dropped' = dropped \cup {"closed"} /\ Keeps /\ UNCHANGED faults
    \/ /\ ~Short /\ compression = "none"
       /\ \/ end' = "whole" /\ UNCHANGED <<entries, dropped, faults>>
          \/ /\ Fault
             /\ end' \in {"whole", "cut"}                \* some of the trailer
             /\ dropped' = dropped \cup {"trailer"}
             /\ UNCHANGED entries

CloseZip ==                                              \* the central directory
    \/ end' = "whole" /\ UNCHANGED <<entries, dropped, faults>>
    \/ Fault /\ CutAt(0) /\ dropped' = dropped \cup {"directory"}

CloseFile ==
    \/ Keeps /\ UNCHANGED <<dropped, faults>>
    \/ Fault /\ Lose /\ dropped' = dropped \cup {"file"}

Close ==
    /\ pc = "close"
    /\ \/ Head(closers) = "compressor" /\ CloseCompressor
       \/ Head(closers) = "tar" /\ CloseTar
       \/ Head(closers) = "zip" /\ CloseZip
       \/ Head(closers) = "file" /\ CloseFile
    /\ closers' = Tail(closers)
    /\ pc' = IF Len(closers) = 1 THEN "idle" ELSE "close"
    /\ UNCHANGED <<source, size, at, compression, result, dest, upto, outcome, attempts>>

----------------------------------------------------------------------------
\* Extracting it

\* A client extracts what Tar or Zip returned no error for; UnTar goes by the
\* extension alone, and UnZip needs the central directory.
Readable == IF format.zip THEN end = "whole" ELSE compression = format.ext

Open ==
    /\ pc = "idle" /\ result = "ok" /\ attempts < MaxAttempts
    /\ attempts' = attempts + 1
    /\ upto' = 0
    /\ dropped' = dropped \ {"output"}
    /\ IF Readable THEN outcome' = "running" /\ pc' = "extract"
                   ELSE outcome' = "format" /\ UNCHANGED pc
    /\ UNCHANGED <<source, size, making, dest, faults>>

Stop(o) == outcome' = o /\ pc' = "idle"

\* After the last entry.
EndOfArchive ==
    /\ pc = "extract" /\ upto = Len(entries)
    /\ Stop(IF end = "whole" THEN "ok" ELSE "format")
    /\ UNCHANGED <<source, size, making, dropped, dest, upto, attempts, faults>>

Exists(n) == dest[n].kind # "absent"

\* A name can be added to the node's directory; the destination itself is writable.
Roomy(n) == tree[n].parent = 0 \/ dest[tree[n].parent].writable

\* The ancestors of a node: what any set has that has each node's parent.
Above(n) ==
    LET Closed(S) == \A m \in S \cup {n} : tree[m].parent \in S \cup {0}
    IN  {m \in Nodes : \A S \in SUBSET Nodes : Closed(S) => m \in S}

\* What a call that puts a node in the destination returns.  Mutant of MakeDir:
\* os.Mkdir for os.MkdirAll.
MakeDirOnce(n) == IF Exists(n) THEN "exists" ELSE IF Roomy(n) THEN "ok" ELSE "denied"
MakeDir(n) == IF Exists(n) \/ Roomy(n) THEN "ok" ELSE "denied"
OpenFile(n) == IF (IF Exists(n) THEN dest[n].writable ELSE Roomy(n)) THEN "ok" ELSE "denied"
\* validateSymlink comes first.
Symlink(n) == IF ~tree[n].inside THEN "link"
              ELSE IF Exists(n) THEN "exists"
              ELSE IF Roomy(n) THEN "ok" ELSE "denied"

\* extractTarFile; UnZip's files and directories are always writable.
Verdict(n) ==
    IF format.zip THEN "ok"
    ELSE CASE tree[n].kind = "dir" -> MakeDir(n)
           [] tree[n].kind = "file" -> OpenFile(n)
           [] tree[n].kind = "link" -> Symlink(n)
           [] OTHER -> "ok"                              \* skipped

\* The destination with a new node in it: UnTar restores kind and mode and skips
\* what is neither file, directory nor link; UnZip makes a writable file of
\* anything, and the directories above it.
Fresh(n, data) ==
    CASE format.zip ->
            [m \in Nodes |-> CASE m = n -> Made("file", data, TRUE)
                               [] m \in Above(n) /\ ~Exists(m) -> Made("dir", 0, TRUE)
                               [] OTHER -> dest[m]]
      [] ~format.zip /\ tree[n].kind = "fifo" -> dest
      [] OTHER -> [dest EXCEPT ![n] = Made(tree[n].kind, data, tree[n].writable)]

\* Mutant of Put: what is there already is left alone.
PutOnce(n, data) == IF Exists(n) THEN dest ELSE Fresh(n, data)

\* An existing file is truncated and written anew, with its mode as it is.
Put(n, data) == IF Exists(n) THEN [dest EXCEPT ![n].data = data] ELSE Fresh(n, data)

Extract ==
    /\ pc = "extract" /\ upto < Len(entries)
    /\ LET e == entries[upto + 1]
           n == e.node
       IN  \/ /\ Verdict(n) = "ok" /\ e.data = e.size
              /\ dest' = Put(n, e.data) /\ upto' = upto + 1
              /\ UNCHANGED <<pc, outcome, dropped, faults>>
           \/ /\ Verdict(n) = "ok" /\ e.data < e.size    \* ErrUnexpectedEOF
              /\ dest' = Put(n, e.data)
              /\ Stop("format")
              /\ UNCHANGED <<upto, dropped, faults>>
           \/ /\ Verdict(n) # "ok"
              /\ Stop(Verdict(n))
              /\ UNCHANGED <<dest, upto, dropped, faults>>
           \/ /\ Fault                                   \* mkdir, open or write
              /\ dest' \in {dest} \cup (IF Verdict(n) = "ok" THEN {Put(n, 0)} ELSE {})
              /\ Stop("disk")
              /\ UNCHANGED <<upto, dropped>>
           \/ /\ Fault /\ Verdict(n) = "ok"              \* the output's Close
              /\ e.data = e.size /\ e.data > 0
              /\ dest' = Put(n, 0) /\ upto' = upto + 1
              /\ dropped' = dropped \cup {"output"}
              /\ UNCHANGED <<pc, outcome>>
    /\ UNCHANGED <<source, size, making, attempts>>

\* The client is done with it.
Done == pc = "idle" /\ (result = "error" \/ attempts = MaxAttempts) /\ UNCHANGED vars

Next == Create \/ Visit \/ Change \/ Copy \/ Close \/ Open \/ Extract \/ EndOfArchive \/ Done

Spec == Init /\ [][Next]_vars

----------------------------------------------------------------------------
\* The types of the variables.
TypeOK ==
    /\ tree \in Trees /\ format \in Formats
    /\ size \in [Nodes -> 0..MaxSize]
    /\ pc \in {"start", "walk", "copy", "close", "extract", "idle"}
    /\ at \in 1..Len(tree) + 1
    /\ compression \in Compressions
    /\ \A k \in DOMAIN entries :
            /\ entries[k].node \in 1..at
            /\ entries[k].size \in 0..MaxSize /\ entries[k].data \in 0..entries[k].size
    /\ end \in {"whole", "cut"}
    /\ closers \in {<<>>, <<"file">>, <<"zip", "file">>, <<"tar", "file">>,
                    <<"compressor", "tar", "file">>}
    /\ result \in {"none", "ok", "error"}
    /\ dropped \subseteq {"compressor", "short", "closed", "trailer", "directory", "file", "output"}
    /\ dest \in [Nodes -> [kind : Kinds \cup {"absent"}, data : 0..MaxSize, writable : BOOLEAN]]
    /\ upto \in 0..Len(entries)
    /\ outcome \in {"none", "running", "ok", "format", "link", "denied", "exists", "disk"}
    /\ attempts \in 0..MaxAttempts /\ faults \in 0..MaxFaults

\* Made and reported well, with nothing dropped but the error of a tar writer
\* whose compressor is closed already.
SoundlyMade == pc \in {"extract", "idle"} /\ result = "ok" /\ dropped \subseteq {"closed"}

\* Every node is in the archive with the contents it had when it was read.
Complete ==
    /\ end = "whole"
    /\ \A n \in Nodes : \/ format.zip /\ tree[n].kind = "dir"
                        \/ \E k \in DOMAIN entries :
                                /\ entries[k].node = n
                                /\ entries[k].data = size[n] /\ entries[k].size = size[n]

\* tar.go:326-361, zip.go:194-221: unless a deferred call dropped an error, an
\* archive reported as made has every node of the tree, a file that changed size
\* while it was archived included, and ends where it should.
SuccessIsComplete == SoundlyMade => Complete

\* What the comments promise: UnTar preserves "the archive's directory structure, file
\* permissions, and symbolic links" (tar.go:44-45), a zip "file permissions [...] and
\* directory structure" (zip.go:168).
Original(n) == Made(tree[n].kind, size[n], tree[n].writable)

\* Zip writes no entries for directories: one is made for what is below it.
Filled(n) == \E m \in Nodes : n \in Above(m) /\ tree[m].kind # "dir"

\* Where the code does not keep that promise and yet returns no error:
\*   - UnTar skips what is neither file, directory nor link (tar.go:184-187), though its
\*     comment says it returns an error for them (tar.go:57-58, 22-24);
\*   - a directory without files is not in a zip (zip.go:215-218);
\*   - what is no file becomes one in a zip, and UnZip's os.Create ignores the mode
\*     that Zip wrote.
Unpreserved(n) ==
    IF format.zip
    THEN \/ tree[n].kind = "dir" /\ ~Filled(n)
         \/ tree[n].kind \notin {"dir", "file"}
         \/ ~tree[n].writable
    ELSE tree[n].kind \notin {"dir", "file", "link"}

\* What is there in its place: nothing, or a writable directory or file.
Replacement(n) ==
    IF ~format.zip \/ (tree[n].kind = "dir" /\ ~Filled(n))
    THEN Absent
    ELSE Made(IF tree[n].kind = "dir" THEN "dir" ELSE "file", size[n], TRUE)

\* tar.go:53-95, zip.go:66-86: an extraction that returns no error, a second one after
\* a failed or a successful one too, has reproduced every node with kind, contents and
\* mode as the comments promise, but those of Unpreserved: there the code disagrees with
\* its comments (TestUnTar_UnsupportedEntryTypes and TestZip_EmptyDirectory side with the
\* code) and leaves their Replacement.
RoundTrip ==
    SoundlyMade /\ outcome = "ok" =>
        \A n \in Nodes : dest[n] = IF Unpreserved(n) THEN Replacement(n) ELSE Original(n)

\* tar.go:138-208: while the disk works, an archive of ours is refused only if an option
\* contradicts the extension, a link leads out of the tree, a directory without
\* write permission is to be filled, or links or files without write permission
\* are left from an earlier extraction.  An entry of a type that is not supported is no
\* reason, although UnTar's comment says so (tar.go:57-58): the code skips it.
NoSpuriousRefusal ==
    SoundlyMade =>
        /\ outcome = "format" => ~format.zip /\ compression # format.ext
        /\ outcome = "link" => \E n \in Nodes : ~tree[n].inside
        /\ outcome = "exists" => attempts > 1 /\ \E n \in Nodes : tree[n].kind = "link"
        /\ outcome = "denied" =>
                \E n \in Nodes :
                    /\ ~tree[n].writable
                    /\ \/ tree[n].kind = "dir" /\ \E m \in Nodes : tree[m].parent = n
                       \/ tree[n].kind = "file" /\ attempts > 1

\* tar.go:314-315, zip.go:181-182: Tar and Zip return an error if file operations fail
\* during archiving.  Errors of the deferred calls are not returned, so a nil result
\* may come with an archive that lacks its end.
SuccessMeansArchive == pc = "idle" /\ result = "ok" => Complete
=============================================================================
