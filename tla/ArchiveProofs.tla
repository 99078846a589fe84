----------------------------- MODULE ArchiveProofs -----------------------------
(***************************************************************************)
(* Theorems about Archive, for every tree and format, every number of      *)
(* faults and attempts, and files of every size.                           *)
(***************************************************************************)
EXTENDS Archive, SequenceTheorems, TLAPS

-----------------------------------------------------------------------------
(* What the sequences of entries are built with. *)

LEMMA AppendToSeq ==
  ASSUME NEW S, NEW s \in Seq(S), NEW e \in S
  PROVE  /\ Append(s, e) \in Seq(S) /\ Append(s, e) # <<>>
         /\ Len(s) \in Nat /\ Len(Append(s, e)) = Len(s) + 1
         /\ Append(s, e)[Len(s) + 1] = e
         /\ \A k \in 1 .. Len(s) : Append(s, e)[k] = s[k]
<1> QED
  BY AppendProperties, LenProperties

LEMMA PrefixOfSeq ==
  ASSUME NEW S, NEW s \in Seq(S), NEW k \in 0 .. Len(s)
  PROVE  /\ SubSeq(s, 1, k) \in Seq(S) /\ Len(SubSeq(s, 1, k)) = k
         /\ \A i \in 1 .. k : SubSeq(s, 1, k)[i] = s[i]
<1>1. Len(s) \in Nat /\ \A i \in 1 .. k : s[i] \in S
  BY LenProperties, ElementOfSeq
<1>2. k \in Nat
  BY <1>1
<1> DEFINE t == SubSeq(s, 1, k)
<1>3. /\ t \in Seq(S) /\ Len(t) = IF 1 <= k THEN k - 1 + 1 ELSE 0
      /\ \A i \in 1 .. k - 1 + 1 : t[i] = s[1 + i - 1]
  BY <1>1, <1>2, SubSeqProperties
<1> HIDE DEF t
<1>4. t \in Seq(S) /\ Len(t) = k /\ \A i \in 1 .. k : t[i] = s[i]
  BY <1>2, <1>3
<1> QED
  BY <1>4 DEF t

\* Copy replaces the entry that Visit began.
LEMMA ReplaceLast ==
  ASSUME NEW S, NEW s \in Seq(S), NEW e \in S, s # <<>>
  PROVE  /\ Append(Front(s), e) \in Seq(S) /\ Append(Front(s), e) # <<>>
         /\ Len(s) \in Nat \ {0} /\ Len(Append(Front(s), e)) = Len(s)
         /\ Append(Front(s), e)[Len(s)] = e
         /\ \A k \in 1 .. Len(s) - 1 : Append(Front(s), e)[k] = s[k]
<1>1. Len(s) \in Nat \ {0}
  BY LenProperties, EmptySeq
<1>2. /\ Front(s) \in Seq(S) /\ Len(Front(s)) = Len(s) - 1
      /\ \A k \in 1 .. Len(s) - 1 : Front(s)[k] = s[k]
  <2> DEFINE j == Len(s) - 1
  <2>1. j \in 0 .. Len(s)
    BY <1>1
  <2> HIDE DEF j
  <2>2. /\ SubSeq(s, 1, j) \in Seq(S) /\ Len(SubSeq(s, 1, j)) = j
        /\ \A k \in 1 .. j : SubSeq(s, 1, j)[k] = s[k]
    BY <2>1, PrefixOfSeq
  <2> QED
    BY <2>2 DEF Front, j
<1> DEFINE t == Front(s)
<1> HIDE DEF t
<1>3. /\ t \in Seq(S) /\ Len(t) = Len(s) - 1
      /\ \A k \in 1 .. Len(s) - 1 : t[k] = s[k]
  BY <1>2 DEF t
<1>4. /\ Append(t, e) \in Seq(S) /\ Append(t, e) # <<>>
      /\ Len(Append(t, e)) = Len(t) + 1 /\ Append(t, e)[Len(t) + 1] = e
      /\ \A k \in 1 .. Len(t) : Append(t, e)[k] = t[k]
  BY <1>3, AppendToSeq
<1>5. Len(Append(t, e)) = Len(s) /\ Append(t, e)[Len(s)] = e
  BY <1>1, <1>3, <1>4
<1>6. \A k \in 1 .. Len(s) - 1 : Append(t, e)[k] = s[k]
  BY <1>3, <1>4
<1> QED
  BY <1>1, <1>4, <1>5, <1>6 DEF t

-----------------------------------------------------------------------------
(* The invariant.  What is being made: the entries are those of nodes that are *)
(* not left out, in the order of the walk, and never say more than was         *)
(* announced.                                                                  *)

Entry == [node : Nodes, data : 0..MaxSize, size : 0..MaxSize]

GoodEntry(e) ==
    /\ e.data <= e.size
    /\ ~Skipped(e.node) /\ ~NoHeader(e.node)
    /\ tree[e.node].kind # "file" => e.size = 0
    /\ e.node <= at /\ (pc = "walk" => e.node < at)

InOrder == \A j, k \in DOMAIN entries : j < k => entries[j].node < entries[k].node

EntriesInv ==
    /\ entries \in Seq(Entry)
    /\ \A k \in DOMAIN entries : GoodEntry(entries[k])
    /\ InOrder
    /\ \A n \in Nodes : tree[n].kind # "file" => size[n] = 0

\* The header of the file that is being copied is the last entry; the deferred
\* calls are those of the format, and run after Walk has returned.
StageInv ==
    /\ pc = "start" => at = 1 /\ entries = <<>> /\ closers = <<>>
    /\ pc # "start" /\ result # "error" => compression = Chosen(format)
    /\ pc \in {"start", "walk", "copy"} => result = "none" /\ dropped = {}
    /\ pc \in {"walk", "copy"} => at \in Nodes /\ closers = Deferred(format)
    /\ pc = "copy" =>
            /\ entries # <<>> /\ tree[at].kind = "file"
            /\ entries[Len(entries)].node = at /\ entries[Len(entries)].data = 0
    /\ pc = "close" =>
            /\ closers # <<>> /\ result # "none"
            /\ closers = <<"zip", "file">> => format.zip
            /\ closers \in {<<"compressor", "tar", "file">>, <<"tar", "file">>} => ~format.zip
    /\ pc \in {"extract", "idle"} => closers = <<>> /\ result # "none"
    /\ pc = "extract" => result = "ok"

\* The errors of deferred calls that leave the archive incomplete.
Lost == {"compressor", "short", "trailer", "directory", "file"}

\* An entry that says of its node what was there.
Exact(e) == e.data = size[e.node] /\ e.size = size[e.node]

Covered(n) == Skipped(n) \/ \E k \in DOMAIN entries : entries[k].node = n

\* Unless such an error occurs, every node behind Walk has its entry, and only the
\* last may fall short of its header, until the tar writer is closed.
Undamaged == pc # "start" /\ result # "error" /\ dropped \cap Lost = {}

Walked ==
    /\ \A n \in Nodes : n < at => Covered(n)
    /\ \A k \in 1 .. Len(entries) : k < Len(entries) => Exact(entries[k])
    /\ entries # <<>> /\ pc # "copy" =>
            /\ entries[Len(entries)].data = size[entries[Len(entries)].node]
            /\ format.zip => Exact(entries[Len(entries)])
    /\ pc \notin {"walk", "copy"} =>
            /\ at = Len(tree) + 1
            /\ closers \in {<<>>, <<"file">>} =>
                    end = "whole" /\ (entries # <<>> => Exact(entries[Len(entries)]))
            /\ closers = <<"tar", "file">> /\ compression # "none" => end = "whole"

WalkInv == Undamaged => Walked

(* What has been extracted: a node of the destination is what the archive makes *)
(* of it, but for its contents, and so are the directories above it.            *)

Kind(n) == IF format.zip /\ tree[n].kind # "dir" THEN "file" ELSE tree[n].kind
Writable(n) == format.zip \/ tree[n].writable

DestInv ==
    /\ dest \in [Nodes -> [kind : Kinds \cup {"absent"}, data : 0..MaxSize, writable : BOOLEAN]]
    /\ \A n \in Nodes : ~Exists(n) => dest[n] = Absent
    /\ \A n \in Nodes : Exists(n) =>
            /\ dest[n].kind = Kind(n) /\ dest[n].writable = Writable(n)
            /\ tree[n].kind # "file" => dest[n].data = 0
            /\ ~format.zip => tree[n].kind \notin {"fifo", "socket"}
            /\ format.zip /\ tree[n].kind # "dir" => \A m \in Above(n) : Exists(m)
            /\ format.zip /\ tree[n].kind = "dir" =>
                    \E m \in Nodes : n \in Above(m) /\ tree[m].kind # "dir"

\* The entries behind this one are there, with their contents unless the error of
\* an output's Close was dropped; in a first attempt, nothing else is.
ExtractInv ==
    /\ pc = "extract" <=> outcome = "running"
    /\ outcome # "none" => result = "ok" /\ attempts # 0 /\ pc \in {"extract", "idle"}
    /\ outcome = "none" => upto = 0 /\ attempts = 0
    /\ upto \in 0..Len(entries)
    /\ attempts = 0 => \A n \in Nodes : ~Exists(n)
    /\ outcome \in {"running", "ok"} =>
        \A k \in 1 .. upto :
            format.zip \/ tree[entries[k].node].kind # "fifo" =>
                /\ Exists(entries[k].node)
                /\ "output" \in dropped \/ dest[entries[k].node].data = entries[k].data
    /\ pc = "extract" => Readable
    /\ pc = "extract" /\ attempts = 1 /\ ~format.zip =>
            \A n \in Nodes : Exists(n) => \E k \in 1 .. upto : entries[k].node = n
    /\ outcome = "ok" => upto = Len(entries)

Types ==
    /\ tree \in Trees /\ format \in Formats
    /\ size \in [Nodes -> 0..MaxSize]
    /\ pc \in {"start", "walk", "copy", "close", "extract", "idle"}
    /\ at \in 1..Len(tree) + 1
    /\ compression \in Compressions
    /\ end \in {"whole", "cut"}
    /\ closers \in {<<>>, <<"file">>, <<"zip", "file">>, <<"tar", "file">>,
                    <<"compressor", "tar", "file">>}
    /\ result \in {"none", "ok", "error"}
    /\ dropped \subseteq Lost \cup {"closed", "output"}
    /\ outcome \in {"none", "running", "ok", "format", "link", "denied", "exists", "disk"}
    /\ attempts \in 0..MaxAttempts /\ faults \in 0..MaxFaults

IInv == Types /\ EntriesInv /\ StageInv /\ WalkInv /\ DestInv /\ ExtractInv

LEMMA Basics ==
  Types => /\ MaxSize \in Nat /\ MaxFaults \in Nat /\ MaxAttempts \in Nat
           /\ IsTree(tree) /\ Len(tree) \in Nat \ {0} /\ Nodes = 1 .. Len(tree)
           /\ \A n \in Nodes : /\ tree[n].kind \in Kinds /\ tree[n].parent \in Nat
                               /\ tree[n].writable \in BOOLEAN /\ tree[n].inside \in BOOLEAN
           /\ format.zip \in BOOLEAN /\ format.ext \in Compressions
           /\ Chosen(format) \in Compressions /\ at \in Nat \ {0}
<1> SUFFICES ASSUME Types
             PROVE  /\ MaxSize \in Nat /\ MaxFaults \in Nat /\ MaxAttempts \in Nat
                    /\ IsTree(tree) /\ Len(tree) \in Nat \ {0} /\ Nodes = 1 .. Len(tree)
                    /\ \A n \in Nodes : /\ tree[n].kind \in Kinds /\ tree[n].parent \in Nat
                                        /\ tree[n].writable \in BOOLEAN
                                        /\ tree[n].inside \in BOOLEAN
                    /\ format.zip \in BOOLEAN /\ format.ext \in Compressions
                    /\ Chosen(format) \in Compressions /\ at \in Nat \ {0}
  OBVIOUS
<1>1. MaxSize \in Nat /\ MaxFaults \in Nat /\ MaxAttempts \in Nat
  BY ArchiveAssumption DEF ArchiveAssumption
<1>2. IsTree(tree)
  BY ArchiveAssumption DEF ArchiveAssumption, Types
<1>3. tree \in Seq([kind : Kinds, parent : Nat, writable : BOOLEAN, inside : BOOLEAN])
  BY <1>2 DEF IsTree
<1>4. Len(tree) \in Nat \ {0} /\ Nodes = 1 .. Len(tree)
  BY <1>2, <1>3, LenProperties DEF IsTree, Nodes, NodesOf
<1>5. \A n \in Nodes : tree[n] \in [kind : Kinds, parent : Nat, writable : BOOLEAN, inside : BOOLEAN]
  BY <1>3, <1>4, ElementOfSeq
<1>6. \A n \in Nodes : /\ tree[n].kind \in Kinds /\ tree[n].parent \in Nat
                       /\ tree[n].writable \in BOOLEAN /\ tree[n].inside \in BOOLEAN
  BY <1>5
<1>7. /\ format.zip \in BOOLEAN /\ format.ext \in Compressions
      /\ format.opts \in Seq(Compressions)
  BY ArchiveAssumption DEF ArchiveAssumption, Types
<1>8. format.opts # <<>> => format.opts[Len(format.opts)] \in Compressions
  BY <1>7, LenProperties, EmptySeq, ElementOfSeq
<1>9. Chosen(format) \in Compressions
  BY <1>7, <1>8 DEF Chosen, Last
<1>10. at \in Nat \ {0}
  BY <1>4 DEF Types
<1> QED
  BY <1>1, <1>2, <1>4, <1>6, <1>7, <1>9, <1>10

LEMMA SourceUnchanged ==
  [Next]_vars => UNCHANGED <<tree, format>>
<1> QED
  BY DEF Next, Create, Visit, Change, Copy, Close, Open, Extract, EndOfArchive, Done, vars, source

LEMMA StepTypes == IInv /\ [Next]_vars => Types'
<1> SUFFICES ASSUME IInv, [Next]_vars PROVE Types'
  OBVIOUS
<1>0. Types
  BY DEF IInv
<1>1. tree' = tree /\ format' = format /\ tree' \in Trees /\ format' \in Formats
  BY <1>0, SourceUnchanged DEF Types
<1>2. size' \in [Nodes' -> 0..MaxSize]
  <2>1. Nodes' = Nodes
    BY <1>1 DEF Nodes, NodesOf
  <2>2. CASE Change
    BY <1>0, <2>1, <2>2 DEF Change, Types
  <2>3. CASE ~Change
    <3>1. size' = size
      BY <2>3 DEF Next, Create, Visit, Copy, Close, Open, Extract, EndOfArchive, Done, vars
    <3> QED
      BY <1>0, <2>1, <3>1 DEF Types
  <2> QED
    BY <2>2, <2>3
<1>3. pc' \in {"start", "walk", "copy", "close", "extract", "idle"}
  BY <1>0 DEF Types, Next, Create, Visit, Change, Copy, Close, Open, Extract, EndOfArchive,
     Done, vars, GoOn, Return, Stop
<1>4. at' \in 1..Len(tree') + 1
  <2>1. at' = at \/ (at' = at + 1 /\ pc \in {"walk", "copy"})
    BY DEF Next, Create, Visit, Change, Copy, Close, Open, Extract, EndOfArchive,
       Done, vars, making, GoOn
  <2>2. pc \in {"walk", "copy"} => at \in Nodes
    BY DEF IInv, StageInv
  <2> QED
    BY <1>0, <1>1, <2>1, <2>2, Basics DEF Types
<1>5. compression' \in Compressions
  <2>1. compression' = compression \/ compression' = Chosen(format)
    BY DEF Next, Create, Visit, Change, Copy, Close, Open, Extract, EndOfArchive,
       Done, vars, making
  <2> QED
    BY <1>0, <2>1, Basics DEF Types
<1>6. end' \in {"whole", "cut"}
  BY <1>0 DEF Types, Next, Create, Visit, Change, Copy, Close, Open, Extract, EndOfArchive,
     Done, vars, making, CloseCompressor, CloseTar, CloseZip, CloseFile, CutAt, Lose, Keeps
<1>7. closers' \in {<<>>, <<"file">>, <<"zip", "file">>, <<"tar", "file">>,
                    <<"compressor", "tar", "file">>}
  <2>1. closers' = closers \/ closers' = Deferred(format)
        \/ (closers' = Tail(closers) /\ pc = "close")
    BY DEF Next, Create, Visit, Change, Copy, Close, Open, Extract, EndOfArchive,
       Done, vars, making
  <2>2. Tail(<<"file">>) = <<>> /\ Tail(<<"zip", "file">>) = <<"file">>
        /\ Tail(<<"tar", "file">>) = <<"file">>
        /\ Tail(<<"compressor", "tar", "file">>) = <<"tar", "file">>
    OBVIOUS
  <2>3. pc = "close" => closers # <<>>
    BY DEF IInv, StageInv
  <2> QED
    BY <1>0, <2>1, <2>2, <2>3 DEF Types, Deferred
<1>8. result' \in {"none", "ok", "error"}
  BY <1>0 DEF Types, Next, Create, Visit, Change, Copy, Close, Open, Extract, EndOfArchive,
     Done, vars, making, GoOn, Return
<1>9. dropped' \subseteq Lost \cup {"closed", "output"}
  BY <1>0 DEF Types, Next, Create, Visit, Change, Copy, Close, Open, Extract, EndOfArchive,
     Done, vars, CloseCompressor, CloseTar, CloseZip, CloseFile, Lost
<1>10. outcome' \in {"none", "running", "ok", "format", "link", "denied", "exists", "disk"}
  BY <1>0 DEF Types, Next, Create, Visit, Change, Copy, Close, Open, Extract, EndOfArchive,
     Done, vars, Stop, Verdict, MakeDir, OpenFile, Symlink
<1>11. attempts' \in 0..MaxAttempts /\ faults' \in 0..MaxFaults
  BY <1>0, Basics DEF Types, Next, Create, Visit, Change, Copy, Close, Open, Extract, EndOfArchive,
     Done, vars, Fault, CloseCompressor, CloseTar, CloseZip, CloseFile
<1> QED
  BY <1>1, <1>2, <1>3, <1>4, <1>5, <1>6, <1>7, <1>8, <1>9, <1>10, <1>11, Zenon DEF Types

LEMMA InitInvariant == Init => IInv
<1> SUFFICES ASSUME Init PROVE IInv
  OBVIOUS
<1>0. MaxSize \in Nat /\ MaxFaults \in Nat /\ MaxAttempts \in Nat /\ IsTree(tree)
  BY ArchiveAssumption DEF ArchiveAssumption, Init
<1>1. Len(tree) \in Nat \ {0}
  BY <1>0, LenProperties DEF IsTree
<1>2. Types
  <2>1. at \in 1..Len(tree) + 1 /\ attempts \in 0..MaxAttempts /\ faults \in 0..MaxFaults
    BY <1>0, <1>1 DEF Init
  <2>2. size \in [Nodes -> 0..MaxSize] /\ tree \in Trees /\ format \in Formats
    BY DEF Init
  <2>3. /\ pc \in {"start", "walk", "copy", "close", "extract", "idle"}
        /\ compression \in Compressions /\ end \in {"whole", "cut"}
        /\ result \in {"none", "ok", "error"} /\ dropped \subseteq Lost \cup {"closed", "output"}
    BY DEF Init, Compressions
  <2>4. closers \in {<<>>, <<"file">>, <<"zip", "file">>, <<"tar", "file">>,
                     <<"compressor", "tar", "file">>}
    BY DEF Init
  <2>5. outcome \in {"none", "running", "ok", "format", "link", "denied", "exists", "disk"}
    BY DEF Init
  <2> QED
    BY <2>1, <2>2, <2>3, <2>4, <2>5, Zenon DEF Types
<1>3. EntriesInv
  <2>1. entries = <<>> /\ DOMAIN entries = {} /\ entries \in Seq(Entry)
    BY DEF Init
  <2>2. \A n \in Nodes : tree[n].kind # "file" => size[n] = 0
    BY DEF Init
  <2> QED
    BY <2>1, <2>2 DEF EntriesInv, InOrder
<1>4. StageInv /\ WalkInv
  BY DEF Init, StageInv, WalkInv, Undamaged
<1>5. \A n \in Nodes : dest[n] = Absent /\ ~Exists(n)
  BY DEF Init, Exists, Absent
<1>6. DestInv
  <2>1. Absent \in [kind : Kinds \cup {"absent"}, data : 0..MaxSize, writable : BOOLEAN]
    BY <1>0 DEF Absent
  <2>2. dest \in [Nodes -> [kind : Kinds \cup {"absent"}, data : 0..MaxSize, writable : BOOLEAN]]
    BY <2>1 DEF Init
  <2> QED
    BY <1>5, <2>2 DEF DestInv
<1>7. ExtractInv
  <2>1. upto = 0 /\ outcome = "none" /\ attempts = 0 /\ pc = "start" /\ Len(entries) = 0
    BY DEF Init
  <2> QED
    BY <1>5, <2>1 DEF ExtractInv
<1> QED
  BY <1>2, <1>3, <1>4, <1>6, <1>7 DEF IInv

LEMMA DeferredCalls ==
    /\ Deferred(format) # <<>> /\ Deferred(format) # <<"file">>
    /\ Deferred(format) = <<"zip", "file">> => format.zip
    /\ Deferred(format) \in {<<"compressor", "tar", "file">>, <<"tar", "file">>} => ~format.zip
    /\ Deferred(format) = <<"tar", "file">> => Chosen(format) = "none"
<1>1. /\ <<"zip", "file">> # <<>> /\ <<"tar", "file">> # <<>>
      /\ <<"compressor", "tar", "file">> # <<>>
      /\ <<"zip", "file">> # <<"file">> /\ <<"tar", "file">> # <<"file">>
      /\ <<"compressor", "tar", "file">> # <<"file">>
      /\ <<"zip", "file">> # <<"tar", "file">>
      /\ <<"zip", "file">> # <<"compressor", "tar", "file">>
      /\ <<"tar", "file">> # <<"compressor", "tar", "file">>
  OBVIOUS
<1> QED
  BY <1>1, Zenon DEF Deferred

LEMMA TailsOfDeferred ==
    /\ Tail(<<"file">>) = <<>> /\ Tail(<<"zip", "file">>) = <<"file">>
    /\ Tail(<<"tar", "file">>) = <<"file">>
    /\ Tail(<<"compressor", "tar", "file">>) = <<"tar", "file">>
    /\ Len(<<"file">>) = 1 /\ Len(<<"zip", "file">>) = 2 /\ Len(<<"tar", "file">>) = 2
    /\ Len(<<"compressor", "tar", "file">>) = 3
    /\ Head(<<"file">>) = "file" /\ Head(<<"zip", "file">>) = "zip"
    /\ Head(<<"tar", "file">>) = "tar" /\ Head(<<"compressor", "tar", "file">>) = "compressor"
<1> QED
  OBVIOUS

LEMMA StepStage == IInv /\ [Next]_vars => StageInv'
<1> SUFFICES ASSUME IInv, [Next]_vars PROVE StageInv'
  OBVIOUS
<1>0. Types /\ StageInv /\ tree' = tree /\ format' = format
  BY SourceUnchanged DEF IInv
<1>b. Len(tree) \in Nat \ {0} /\ Nodes = 1 .. Len(tree) /\ Nodes' = Nodes /\ at \in Nat \ {0}
  <2>1. Nodes' = Nodes
    BY <1>0 DEF Nodes, NodesOf
  <2> QED
    BY <1>0, <2>1, Basics
<1> USE DEF StageInv
<1>1. CASE Create
  <2>1. /\ pc = "start" /\ at' = at /\ at = 1 /\ at \in Nodes
        /\ result = "none" /\ dropped' = dropped /\ dropped = {}
    BY <1>0, <1>1, <1>b DEF Create
  <2>2. CASE pc' = "walk" /\ compression' = Chosen(format)
             /\ closers' = Deferred(format) /\ result' = result
    BY <1>0, <1>b, <2>1, <2>2, Zenon
  <2>3. CASE result' = "error" /\ pc' = "idle" /\ closers' = closers
    <3>1. closers = <<>>
      BY <1>0, <2>1
    <3> QED
      BY <2>3, <3>1, Zenon
  <2> QED
    BY <1>1, <2>2, <2>3 DEF Create
\* While Walk goes on the deferred calls stay what they are.
<1>2. ASSUME pc \in {"walk", "copy"}, UNCHANGED <<compression, closers, dropped>>,
             \/ pc' = "walk" /\ at' \in Nodes /\ UNCHANGED result
             \/ pc' = "close" /\ result' \in {"ok", "error"}
             \/ /\ pc' = "copy" /\ at' = at /\ UNCHANGED result
                /\ entries' # <<>> /\ tree[at].kind = "file"
                /\ entries'[Len(entries')].node = at /\ entries'[Len(entries')].data = 0
      PROVE  StageInv'
  <2>1. closers = Deferred(format) /\ at \in Nodes /\ result = "none" /\ dropped = {}
        /\ compression = Chosen(format)
    BY <1>0, <1>2
  <2>2. CASE pc' = "walk"
    BY <1>0, <1>2, <1>b, <2>1, <2>2
  <2>3. CASE pc' = "copy"
    BY <1>0, <1>2, <1>b, <2>1, <2>3
  <2>4. CASE pc' = "close"
    <3>1. closers' # <<>> /\ (closers' = <<"zip", "file">> => format.zip)
      /\ (closers' \in {<<"compressor", "tar", "file">>, <<"tar", "file">>} => ~format.zip)
      BY <1>2, <2>1, DeferredCalls
    <3> QED
      BY <1>0, <1>2, <2>1, <2>4, <3>1
  <2> QED
    BY <1>2, <2>2, <2>3, <2>4
<1>3. CASE Visit
  <2>1. pc = "walk" /\ UNCHANGED <<compression, closers, dropped>>
    BY <1>3 DEF Visit
  <2>2. GoOn => \/ pc' = "walk" /\ at' \in Nodes /\ UNCHANGED result
                \/ pc' = "close" /\ result' \in {"ok", "error"}
    BY <1>0, <1>b, <2>1 DEF GoOn, Return
  <2>3. \/ GoOn \/ Return("error")
        \/ /\ entries' = Append(entries, [node |-> at, data |-> 0,
                                         size |-> IF format.zip THEN 0 ELSE size[at]])
           /\ tree[at].kind = "file" /\ pc' = "copy" /\ UNCHANGED <<at, result>>
    BY <1>3 DEF Visit
  <2>4. ASSUME entries' = Append(entries, [node |-> at, data |-> 0,
                                         size |-> IF format.zip THEN 0 ELSE size[at]])
        PROVE  entries' # <<>> /\ entries'[Len(entries')].node = at
               /\ entries'[Len(entries')].data = 0
    <3>1. entries \in Seq(Entry)
      BY DEF IInv, EntriesInv
    <3>2. /\ Len(entries) \in Nat
          /\ Len(entries') = Len(entries) + 1
          /\ entries' # <<>>
          /\ entries'[Len(entries) + 1] = [node |-> at, data |-> 0,
                                         size |-> IF format.zip THEN 0 ELSE size[at]]
      BY <3>1, <2>4
    <3> QED
      BY <3>2
  <2> QED
    BY <1>2, <2>1, <2>2, <2>3, <2>4 DEF Return
<1>4. CASE Copy
  <2>1. pc = "copy" /\ UNCHANGED <<compression, closers, dropped>>
    BY <1>4 DEF Copy
  <2>2. GoOn => \/ pc' = "walk" /\ at' \in Nodes /\ UNCHANGED result
                \/ pc' = "close" /\ result' \in {"ok", "error"}
    BY <1>0, <1>b, <2>1 DEF GoOn, Return
  <2>3. GoOn \/ Return("error")
    BY <1>4 DEF Copy
  <2> QED
    BY <1>2, <2>1, <2>2, <2>3 DEF Return
<1>5. CASE Change \/ Done \/ UNCHANGED vars
  <2>1. UNCHANGED <<pc, at, compression, entries, closers, result, dropped>>
    BY <1>5 DEF Change, Done, vars, making
  <2> QED
    BY <1>0, <1>b, <2>1
<1>6. CASE Close
  <2>1. /\ pc = "close" /\ closers' = Tail(closers)
        /\ pc' = IF Len(closers) = 1 THEN "idle" ELSE "close"
        /\ UNCHANGED <<compression, result>>
    BY <1>6 DEF Close
  <2>2. /\ Len(closers) = 1 => closers' = <<>>
        /\ Len(closers) # 1 => closers' # <<>>
        /\ closers' # <<"zip", "file">> /\ closers' # <<"compressor", "tar", "file">>
        /\ closers' = <<"tar", "file">> => closers = <<"compressor", "tar", "file">>
    <3>1. closers # <<>>
      BY <1>0, <2>1
    <3>2. CASE closers = <<"file">>
      <4>1. closers' = <<>> /\ Len(closers) = 1
        BY <2>1, <3>2, TailsOfDeferred
      <4> QED
        BY <4>1
    <3>3. CASE closers \in {<<"zip", "file">>, <<"tar", "file">>}
      <4>1. closers' = <<"file">> /\ Len(closers) = 2
        BY <2>1, <3>3, TailsOfDeferred
      <4> QED
        BY <4>1
    <3>4. CASE closers = <<"compressor", "tar", "file">>
      <4>1. closers' = <<"tar", "file">> /\ Len(closers) = 3
        BY <2>1, <3>4, TailsOfDeferred
      <4> QED
        BY <3>4, <4>1
    <3> QED
      BY <1>0, <3>1, <3>2, <3>3, <3>4 DEF Types
  <2>3. CASE Len(closers) = 1
    BY <1>0, <2>1, <2>2, <2>3
  <2>4. CASE Len(closers) # 1
    BY <1>0, <2>1, <2>2, <2>4
  <2> QED
    BY <2>3, <2>4
<1>7. CASE Open \/ Extract \/ EndOfArchive
  <2>1. /\ pc \in {"idle", "extract"} /\ pc' \in {"idle", "extract"}
        /\ UNCHANGED <<at, compression, entries, closers, result>>
        /\ result = "ok"
    BY <1>0, <1>7 DEF Open, Extract, EndOfArchive, Stop, making
  <2> QED
    BY <1>0, <2>1
<1> QED
  BY <1>1, <1>3, <1>4, <1>5, <1>6, <1>7 DEF Next
LEMMA StepEntries == IInv /\ [Next]_vars => EntriesInv'
<1> SUFFICES ASSUME IInv, [Next]_vars PROVE EntriesInv'
  OBVIOUS
<1>0. Types /\ StageInv /\ EntriesInv /\ tree' = tree /\ format' = format
  BY SourceUnchanged DEF IInv
<1>a. /\ MaxSize \in Nat /\ Len(tree) \in Nat \ {0} /\ Nodes = 1 .. Len(tree)
      /\ at \in Nat \ {0} /\ format.zip \in BOOLEAN
  BY <1>0, Basics
<1>b. Nodes' = Nodes /\ Entry' = Entry
  BY <1>0 DEF Nodes, NodesOf, Entry
<1>c. /\ entries \in Seq(Entry) /\ Len(entries) \in Nat /\ DOMAIN entries = 1 .. Len(entries)
      /\ \A k \in 1 .. Len(entries) :
            /\ entries[k] \in Entry /\ entries[k].node \in Nat /\ entries[k].node <= at
            /\ entries[k].data <= entries[k].size
            /\ ~Skipped(entries[k].node) /\ ~NoHeader(entries[k].node)
            /\ tree[entries[k].node].kind # "file" => entries[k].size = 0
            /\ pc = "walk" => entries[k].node < at
      /\ \A j, k \in 1 .. Len(entries) : j < k => entries[j].node < entries[k].node
  <2>1. entries \in Seq(Entry) /\ Len(entries) \in Nat /\ DOMAIN entries = 1 .. Len(entries)
    BY <1>0, LenProperties DEF EntriesInv
  <2>e. \A k \in 1 .. Len(entries) : entries[k] \in Entry
    BY <2>1, ElementOfSeq
  <2>2. \A k \in 1 .. Len(entries) : entries[k] \in Entry /\ entries[k].node \in Nodes
    BY <2>e DEF Entry
  <2>3. \A k \in 1 .. Len(entries) : entries[k].node \in Nat
    BY <2>2, <1>a
  <2> QED
    BY <1>0, <2>1, <2>2, <2>3, Zenon DEF EntriesInv, GoodEntry, InOrder
<1>d. \A n \in Nodes : tree[n].kind # "file" => size[n] = 0
  BY <1>0 DEF EntriesInv
<1>e. \A n \in Nodes' : tree'[n].kind # "file" => size'[n] = 0
  <2>1. CASE Change
    <3>1. pc = "copy" /\ at \in Nodes /\ tree[at].kind = "file"
      BY <1>0, <2>1 DEF Change, StageInv
    <3>2. PICK s \in 0..MaxSize \ {size[at]} : size' = [size EXCEPT ![at] = s]
      BY <2>1 DEF Change
    <3> QED
      BY <1>0, <1>b, <1>d, <3>1, <3>2 DEF Types
  <2>2. CASE ~Change
    <3>1. size' = size
      BY <2>2 DEF Next, Create, Visit, Copy, Close, Open, Extract, EndOfArchive, Done, vars
    <3> QED
      BY <1>0, <1>b, <1>d, <3>1
  <2> QED
    BY <2>1, <2>2
\* What EntriesInv' asks of the new entries.
<1>f. ASSUME entries' \in Seq(Entry), Len(entries') \in Nat,
             \A k \in 1 .. Len(entries') :
                /\ entries'[k].data <= entries'[k].size
                /\ ~Skipped(entries'[k].node) /\ ~NoHeader(entries'[k].node)
                /\ tree[entries'[k].node].kind # "file" => entries'[k].size = 0
                /\ entries'[k].node <= at'
                /\ pc' = "walk" => entries'[k].node < at',
             \A j, k \in 1 .. Len(entries') : j < k => entries'[j].node < entries'[k].node
      PROVE  EntriesInv'
  <2>1. DOMAIN entries' = 1 .. Len(entries')
    BY <1>f, LenProperties
  <2>2. \A k \in DOMAIN entries' : GoodEntry(entries[k])'
    BY <1>f, <1>0, <2>1 DEF GoodEntry, Skipped, NoHeader
  <2>3. InOrder'
    BY <1>f, <2>1 DEF InOrder
  <2> QED
    BY <1>b, <1>e, <1>f, <2>2, <2>3 DEF EntriesInv
\* The entries stay as they are.
<1>g. ASSUME entries' = entries,
             \/ at' = at /\ (pc' = "walk" => pc = "walk" \/ Len(entries) = 0)
             \/ at' = at + 1
      PROVE  EntriesInv'
  <2>1. CASE at' = at /\ (pc' = "walk" => pc = "walk" \/ Len(entries) = 0)
    BY <1>a, <1>c, <1>f, <1>g, <2>1
  <2>2. CASE at' = at + 1
    <3>1. \A k \in 1 .. Len(entries) : entries[k].node <= at + 1 /\ entries[k].node < at + 1
      BY <1>a, <1>c
    <3> QED
      BY <1>c, <1>f, <1>g, <2>2, <3>1
  <2> QED
    BY <1>g, <2>1, <2>2
<1>1. CASE Create
  <2>1. Len(entries) = 0
    BY <1>0, <1>1 DEF Create, StageInv
  <2> QED
    BY <1>1, <1>g, <2>1 DEF Create
<1>2. CASE Visit
  <2>1. pc = "walk" /\ at \in Nodes
    BY <1>0, <1>2 DEF Visit, StageInv
  <2>2. GoOn => at' = at + 1
    BY DEF GoOn
  <2>3. CASE entries' = entries /\ (GoOn \/ at' = at)
    BY <1>g, <2>1, <2>2, <2>3
  <2> DEFINE e == [node |-> at, data |-> 0, size |-> IF format.zip THEN 0 ELSE size[at]]
  <2>4. CASE /\ ~Skipped(at) /\ ~NoHeader(at) /\ entries' = Append(entries, e)
             /\ \/ pc' = "copy" /\ at' = at
                \/ at' = at + 1
    <3>1. /\ e \in Entry /\ e.node = at /\ e.data <= e.size
          /\ tree[at].kind # "file" => e.size = 0
      <4>1. size[at] \in 0..MaxSize
        BY <1>0, <2>1 DEF Types
      <4> QED
        BY <1>a, <1>d, <2>1, <4>1 DEF Entry
    <3> HIDE DEF e
    <3>2. /\ entries' \in Seq(Entry) /\ Len(entries') = Len(entries) + 1
          /\ entries'[Len(entries) + 1] = e
          /\ \A k \in 1 .. Len(entries) : entries'[k] = entries[k]
      BY <1>c, <2>4, <3>1, AppendToSeq
    <3>3. \A k \in 1 .. Len(entries') : k \in 1 .. Len(entries) \/ k = Len(entries) + 1
      BY <1>c, <3>2
    <3>4. at <= at' /\ (pc' = "walk" => at < at')
      <4>1. CASE at' = at + 1
        BY <1>a, <4>1
      <4>2. CASE pc' = "copy" /\ at' = at
        BY <1>a, <4>2
      <4> QED
        BY <2>4, <4>1, <4>2
    <3>5. ASSUME NEW k \in 1 .. Len(entries')
          PROVE /\ entries'[k].data <= entries'[k].size
                /\ ~Skipped(entries'[k].node) /\ ~NoHeader(entries'[k].node)
                /\ tree[entries'[k].node].kind # "file" => entries'[k].size = 0
                /\ entries'[k].node <= at
      BY <1>a, <1>c, <2>1, <2>4, <3>1, <3>2, <3>3
    <3>6. \A k \in 1 .. Len(entries') : entries'[k].node \in Nat
      BY <1>a, <1>c, <3>1, <3>2, <3>3
    <3>7. at' \in Nat
      BY <1>a, <2>4
    <3>8. \A k \in 1 .. Len(entries') :
              entries'[k].node <= at' /\ (pc' = "walk" => entries'[k].node < at')
      BY <1>a, <3>4, <3>5, <3>6, <3>7
    <3>9. ASSUME NEW j \in 1 .. Len(entries'), NEW k \in 1 .. Len(entries'), j < k
          PROVE  entries'[j].node < entries'[k].node
      <4>1. j \in 1 .. Len(entries)
        BY <1>c, <3>2, <3>9
      <4>2. CASE k \in 1 .. Len(entries)
        BY <1>c, <3>2, <3>9, <4>1, <4>2
      <4>3. CASE k = Len(entries) + 1
        BY <1>c, <2>1, <3>1, <3>2, <4>1, <4>3
      <4> QED
        BY <3>3, <4>2, <4>3
    <3>10. Len(entries') \in Nat
      BY <1>c, <3>2
    <3> QED
      BY <1>f, <3>2, <3>5, <3>8, <3>9, <3>10
  <2> QED
    BY <1>2, <2>2, <2>3, <2>4 DEF Visit
<1>3. CASE Copy
  <2> DEFINE l == Len(entries)
             e == [Last(entries) EXCEPT !.data = size[at]]
             w == IF format.zip THEN [e EXCEPT !.size = e.data] ELSE e
             v == [e EXCEPT !.data = e.size]
  <2>1. /\ pc = "copy" /\ at \in Nodes /\ entries # <<>> /\ tree[at].kind = "file"
        /\ entries[l].node = at
    BY <1>0, <1>3 DEF Copy, StageInv
  <2>2. l \in Nat \ {0}
    BY <1>c, <2>1, EmptySeq
  <2>3. GoOn => at' = at + 1
    BY DEF GoOn
  <2>4. /\ Last(entries) = entries[l] /\ entries[l] \in Entry
        /\ ~Skipped(at) /\ ~NoHeader(at)
    BY <1>c, <2>1, <2>2 DEF Last
  <2>5. size[at] \in 0..MaxSize
    BY <1>0, <2>1 DEF Types
  <2>6. /\ Accepted(e) => w \in Entry /\ w.node = at /\ w.data <= w.size
        /\ v \in Entry /\ v.node = at /\ v.data <= v.size
    <3>1. e = [node |-> at, data |-> size[at], size |-> entries[l].size]
      BY <2>1, <2>4 DEF Entry
    <3>2. entries[l].size \in 0..MaxSize /\ at \in Nodes
      BY <2>1, <2>4 DEF Entry
    <3> HIDE DEF e
    <3>3. v = [node |-> at, data |-> entries[l].size, size |-> entries[l].size]
      BY <3>1
    <3>4. w = [node |-> at, data |-> size[at],
               size |-> IF format.zip THEN size[at] ELSE entries[l].size]
      BY <3>1
    <3>5. Accepted(e) => format.zip \/ size[at] <= entries[l].size
      BY <3>1 DEF Accepted
    <3> HIDE DEF w, v
    <3>6. w.node = at /\ w.data = size[at]
          /\ w.size = (IF format.zip THEN size[at] ELSE entries[l].size)
      BY <3>4
    <3>7. w \in Entry
      BY <2>5, <3>2, <3>4 DEF Entry
    <3>8. v \in Entry /\ v.node = at /\ v.data = v.size /\ v.size \in Nat
      BY <1>a, <3>2, <3>3 DEF Entry
    <3> QED
      BY <1>a, <2>5, <3>2, <3>5, <3>6, <3>7, <3>8
  <2>8. \/ Accepted(e) /\ entries' = Append(Front(entries), w) /\ GoOn
        \/ entries' = Append(Front(entries), v) /\ at' = at /\ pc' = "close"
        \/ entries' = entries /\ at' = at /\ pc' = "close"
    BY <1>3 DEF Copy, Return
  <2> HIDE DEF e, w, v
  <2>7. ASSUME NEW x \in Entry, x.node = at, x.data <= x.size,
               entries' = Append(Front(entries), x),
               at' = at + 1 \/ (at' = at /\ pc' # "walk")
        PROVE  EntriesInv'
    <3>1. /\ entries' \in Seq(Entry) /\ Len(entries') = l /\ entries'[l] = x
          /\ \A k \in 1 .. l - 1 : entries'[k] = entries[k]
      <4>0. entries \in Seq(Entry) /\ entries # <<>> /\ x \in Entry
        BY <1>c, <2>1
      <4>1. /\ Append(Front(entries), x) \in Seq(Entry) /\ Append(Front(entries), x) # <<>>
            /\ Len(entries) \in Nat \ {0} /\ Len(Append(Front(entries), x)) = Len(entries)
            /\ Append(Front(entries), x)[Len(entries)] = x
            /\ \A k \in 1 .. Len(entries) - 1 : Append(Front(entries), x)[k] = entries[k]
        BY <4>0, ReplaceLast
      <4> QED
        BY <2>7, <4>1
    <3>2. \A k \in 1 .. l : k \in 1 .. l - 1 \/ k = l
      BY <2>2
    <3>3. \A k \in 1 .. l : entries'[k].node = entries[k].node
      BY <2>1, <2>7, <3>1, <3>2
    <3>4. \A k \in 1 .. l :
              /\ entries'[k].data <= entries'[k].size
              /\ ~Skipped(entries'[k].node) /\ ~NoHeader(entries'[k].node)
              /\ tree[entries'[k].node].kind # "file" => entries'[k].size = 0
              /\ entries'[k].node <= at
      <4>1. ASSUME NEW k \in 1 .. l - 1
            PROVE /\ entries'[k] = entries[k] /\ k \in 1 .. l
        BY <2>2, <3>1
      <4> QED
        BY <1>a, <1>c, <2>1, <2>4, <2>7, <3>1, <3>2, <4>1
    <3>5. \A k \in 1 .. l :
              entries'[k].node <= at' /\ (pc' = "walk" => entries'[k].node < at')
      <4>1. \A k \in 1 .. l : entries'[k].node \in Nat /\ entries'[k].node <= at
        BY <1>c, <3>3
      <4>2. CASE at' = at + 1
        <5>1. \A k \in 1 .. l : entries'[k].node <= at + 1 /\ entries'[k].node < at + 1
          BY <1>a, <4>1
        <5> QED
          BY <4>2, <5>1
      <4>3. CASE at' = at /\ pc' # "walk"
        BY <4>1, <4>3
      <4> QED
        BY <2>7, <4>2, <4>3
    <3>6. \A j, k \in 1 .. l : j < k => entries'[j].node < entries'[k].node
      BY <1>c, <3>3
    <3> QED
      BY <1>f, <2>2, <3>1, <3>4, <3>5, <3>6
  <2>9. CASE Accepted(e) /\ entries' = Append(Front(entries), w) /\ GoOn
    BY <2>3, <2>6, <2>7, <2>9
  <2>10. CASE entries' = Append(Front(entries), v) /\ at' = at /\ pc' = "close"
    BY <2>6, <2>7, <2>10
  <2>11. CASE entries' = entries /\ at' = at /\ pc' = "close"
    BY <1>g, <2>11
  <2> QED
    BY <2>8, <2>9, <2>10, <2>11
<1>4. CASE Close
  <2>1. at' = at /\ pc' # "walk"
    BY <1>4 DEF Close
  <2>2. CASE entries' = entries
    BY <1>g, <2>1, <2>2
  <2>3. ASSUME NEW k \in 0 .. Len(entries), CutAt(k)
        PROVE  EntriesInv'
    <3>1. /\ entries' \in Seq(Entry) /\ Len(entries') = k
          /\ \A i \in 1 .. k : entries'[i] = entries[i]
      BY <1>c, <2>3, PrefixOfSeq DEF CutAt
    <3>2. k \in Nat /\ \A i \in 1 .. k : i \in 1 .. Len(entries)
      BY <1>c
    <3>3. \A i \in 1 .. k : entries'[i].node <= at'
      BY <1>c, <2>1, <3>1, <3>2
    <3> QED
      BY <1>c, <1>f, <2>1, <3>1, <3>2, <3>3
  <2>4. 0 \in 0 .. Len(entries)
    BY <1>c
  <2>5. entries' = entries \/ \E k \in 0 .. Len(entries) : CutAt(k)
    BY <1>4, <2>4 DEF Close, CloseCompressor, CloseTar, CloseZip, CloseFile, Lose, Keeps
  <2> QED
    BY <2>2, <2>3, <2>5
<1>5. CASE Change \/ Open \/ Extract \/ EndOfArchive \/ Done \/ UNCHANGED vars
  <2>1. entries' = entries /\ at' = at /\ (pc' = "walk" => pc = "walk")
    BY <1>5 DEF Change, Open, Extract, EndOfArchive, Done, vars, making, Stop
  <2> QED
    BY <1>g, <2>1
<1> QED
  BY <1>1, <1>2, <1>3, <1>4, <1>5 DEF Next
LEMMA StepWalk == IInv /\ [Next]_vars => WalkInv'
<1> SUFFICES ASSUME IInv, [Next]_vars, Undamaged' PROVE Walked'
  BY DEF WalkInv
<1>0. Types /\ StageInv /\ EntriesInv /\ WalkInv /\ tree' = tree /\ format' = format
  BY SourceUnchanged DEF IInv
<1>a. /\ MaxSize \in Nat /\ Len(tree) \in Nat \ {0} /\ Nodes = 1 .. Len(tree)
      /\ at \in Nat \ {0} /\ format.zip \in BOOLEAN
  BY <1>0, Basics
<1>b. Nodes' = Nodes /\ \A n \in Nodes : Skipped(n)' <=> Skipped(n)
  BY <1>0 DEF Nodes, NodesOf, Skipped
<1>c. /\ entries \in Seq(Entry) /\ Len(entries) \in Nat /\ DOMAIN entries = 1 .. Len(entries)
      /\ entries # <<>> <=> Len(entries) # 0
      /\ \A k \in 1 .. Len(entries) :
            /\ entries[k].node \in Nodes /\ entries[k].data \in Nat /\ entries[k].size \in Nat
            /\ entries[k].data <= entries[k].size
      /\ \A j, k \in 1 .. Len(entries) : j < k => entries[j].node < entries[k].node
  <2>1. entries \in Seq(Entry) /\ Len(entries) \in Nat /\ DOMAIN entries = 1 .. Len(entries)
        /\ (entries # <<>> <=> Len(entries) # 0)
    BY <1>0, LenProperties, EmptySeq DEF EntriesInv
  <2>2. \A k \in 1 .. Len(entries) : entries[k] \in Entry
    BY <2>1, ElementOfSeq
  <2>3. \A k \in 1 .. Len(entries) :
            entries[k].node \in Nodes /\ entries[k].data \in Nat /\ entries[k].size \in Nat
    BY <1>a, <2>2 DEF Entry
  <2>4. \A k \in 1 .. Len(entries) : entries[k].data <= entries[k].size
    BY <1>0, <2>1 DEF EntriesInv, GoodEntry
  <2>5. \A j, k \in 1 .. Len(entries) : j < k => entries[j].node < entries[k].node
    BY <1>0, <2>1, Zenon DEF EntriesInv, InOrder
  <2> QED
    BY <2>1, <2>3, <2>4, <2>5
<1>d. Len(entries) # 0 => Len(entries) \in 1 .. Len(entries)
  BY <1>c
<1>n. Len(entries) \in Nat /\ \A k \in 1 .. Len(entries) : Len(entries) # 0
  BY <1>c
<1>e. \A n \in Nodes : tree[n].kind # "file" => size[n] = 0
  BY <1>0 DEF EntriesInv
<1>f. pc \in {"walk", "copy"} => Walked /\ at \in Nodes
  BY <1>0 DEF StageInv, WalkInv, Undamaged
\* A full last entry is exact.
<1>g. Walked /\ pc # "copy" /\ ~Short /\ Len(entries) # 0 => Exact(entries[Len(entries)])
  <2>1. Walked /\ pc # "copy" /\ Len(entries) # 0 =>
            entries[Len(entries)].data = size[entries[Len(entries)].node]
    BY <1>c DEF Walked
  <2>2. ~Short /\ Len(entries) # 0 =>
            entries[Len(entries)].data = entries[Len(entries)].size
    BY <1>c, <1>d DEF Short, Last
  <2> QED
    BY <2>1, <2>2 DEF Exact
\* Walk goes on: closers are untouched when it ends.
<1>h. ASSUME pc \in {"walk", "copy"}, GoOn, UNCHANGED <<compression, closers>>
      PROVE  /\ at' = at + 1
             /\ pc' # "copy"
             /\ pc' \notin {"walk", "copy"} =>
                  /\ at' = Len(tree') + 1
                  /\ closers' \notin {<<>>, <<"file">>}
                  /\ ~(closers' = <<"tar", "file">> /\ compression' # "none")
  <2>1. closers = Deferred(format) /\ compression = Chosen(format)
    BY <1>0, <1>h DEF StageInv
  <2>2. at' = at + 1 /\ (pc' = "walk" \/ (at = Len(tree) /\ pc' = "close"))
    BY <1>h DEF GoOn, Return
  <2>3. /\ closers' \notin {<<>>, <<"file">>}
        /\ ~(closers' = <<"tar", "file">> /\ compression' # "none")
    BY <1>h, <2>1, DeferredCalls
  <2> QED
    BY <1>0, <2>2, <2>3
\* Entries and sizes as they were.
<1>i. ASSUME UNCHANGED <<entries, size>>
      PROVE  /\ \A k \in 1 .. Len(entries) : Exact(entries[k])' <=> Exact(entries[k])
             /\ \A n \in Nodes : Covered(n)' <=> Covered(n)
  BY <1>b, <1>i DEF Exact, Covered
<1>1. CASE Create
  <2>1. pc' = "walk" /\ at' = 1 /\ entries' = <<>>
    BY <1>0, <1>1 DEF Create, StageInv, Undamaged
  <2>2. Len(entries') = 0
    BY <2>1
  <2> QED
    BY <1>a, <1>b, <2>1, <2>2 DEF Walked
<1>2. CASE Visit
  <2> DEFINE e == [node |-> at, data |-> 0, size |-> IF format.zip THEN 0 ELSE size[at]]
  <2>1. pc = "walk" /\ at \in Nodes /\ Walked /\ UNCHANGED <<tree, format, size, compression, closers>>
    BY <1>0, <1>2, <1>f DEF Visit, source
  <2>2. CASE Skipped(at) /\ GoOn /\ entries' = entries
    <3>1. /\ at' = at + 1 /\ pc' # "copy"
          /\ pc' \notin {"walk", "copy"} =>
                  /\ at' = Len(tree') + 1
                  /\ closers' \notin {<<>>, <<"file">>}
                  /\ ~(closers' = <<"tar", "file">> /\ compression' # "none")
      BY <1>h, <2>1, <2>2
    <3>2. \A n \in Nodes' : n < at' => Covered(n)'
      <4>1. \A n \in Nodes : n = at => Covered(n)'
        BY <1>b, <2>1, <2>2 DEF Covered
      <4>2. \A n \in Nodes : n < at + 1 => n < at \/ n = at
        BY <1>a
      <4>3. \A n \in Nodes : n < at => Covered(n)'
        BY <1>i, <2>1, <2>2 DEF Walked
      <4> QED
        BY <1>b, <3>1, <4>1, <4>2, <4>3
    <3>3. \A k \in 1 .. Len(entries') : k < Len(entries') => Exact(entries[k])'
      BY <1>i, <2>1, <2>2 DEF Walked
    <3>4. entries' # <<>> =>
            /\ entries'[Len(entries')].data = size'[entries'[Len(entries')].node]
            /\ format.zip' => Exact(entries[Len(entries)])'
      BY <1>c, <1>d, <1>i, <2>1, <2>2 DEF Walked
    <3> QED
      BY <3>1, <3>2, <3>3, <3>4, Zenon DEF Walked
  <2>3. CASE /\ format.zip \/ ~Short
             /\ entries' = Append(entries, e)
             /\ IF tree[at].kind = "file" THEN pc' = "copy" /\ UNCHANGED <<at, result>> ELSE GoOn
    <3>1. e \in Entry /\ e.node = at /\ e.data = 0
          /\ (tree[at].kind # "file" => size[at] = 0 /\ e.size = 0)
      <4>1. size[at] \in 0..MaxSize
        BY <1>0, <2>1 DEF Types
      <4> QED
        BY <1>a, <1>e, <2>1, <4>1 DEF Entry
    <3> HIDE DEF e
    <3>2. /\ entries' \in Seq(Entry) /\ Len(entries') = Len(entries) + 1 /\ entries' # <<>>
          /\ entries'[Len(entries) + 1] = e
          /\ \A k \in 1 .. Len(entries) : entries'[k] = entries[k]
      BY <1>c, <2>3, <3>1, AppendToSeq
    <3>3. \A k \in 1 .. Len(entries) : Exact(entries[k])
      <4>1. \A k \in 1 .. Len(entries) : k < Len(entries) \/ k = Len(entries)
        BY <1>n
      <4>2. CASE ~Short
        <5>1. Len(entries) # 0 => Exact(entries[Len(entries)])
          BY <1>g, <2>1, <4>2
        <5> QED
          BY <1>n, <2>1, <4>1, <5>1, Zenon DEF Walked
      <4>3. CASE format.zip
        <5>1. Len(entries) # 0 => Exact(entries[Len(entries)])
          BY <1>c, <2>1, <4>3 DEF Walked
        <5> QED
          BY <1>n, <2>1, <4>1, <5>1, Zenon DEF Walked
      <4> QED
        BY <2>3, <4>2, <4>3
    <3>4. \A k \in 1 .. Len(entries') : k < Len(entries') => Exact(entries[k])'
      <4>1. \A k \in 1 .. Len(entries') : k < Len(entries') => k \in 1 .. Len(entries)
        BY <1>c, <3>2
      <4> QED
        BY <2>1, <3>2, <3>3, <4>1 DEF Exact
    <3>5. DOMAIN entries' = 1 .. Len(entries) + 1
      BY <3>2, LenProperties
    <3>6. \A n \in Nodes : n < at => Covered(n)'
      <4>1. \A k \in DOMAIN entries : k \in DOMAIN entries' /\ entries'[k] = entries[k]
        BY <1>c, <3>2, <3>5
      <4> QED
        BY <1>b, <2>1, <4>1 DEF Covered, Walked
    <3>7. CASE tree[at].kind = "file" /\ pc' = "copy" /\ at' = at
      BY <1>b, <3>4, <3>6, <3>7, Zenon DEF Walked
    <3>8. CASE tree[at].kind # "file" /\ GoOn
      <4>1. /\ at' = at + 1 /\ pc' # "copy"
            /\ pc' \notin {"walk", "copy"} =>
                  /\ at' = Len(tree') + 1
                  /\ closers' \notin {<<>>, <<"file">>}
                  /\ ~(closers' = <<"tar", "file">> /\ compression' # "none")
        BY <1>h, <2>1, <3>8
      <4>2. \A n \in Nodes' : n < at' => Covered(n)'
        <5>1. \A n \in Nodes : n = at => Covered(n)'
          <6>1. Len(entries) + 1 \in DOMAIN entries'
            BY <1>c, <3>5
          <6> QED
            BY <3>1, <3>2, <6>1 DEF Covered
        <5>2. \A n \in Nodes : n < at + 1 => n < at \/ n = at
          BY <1>a
        <5> QED
          BY <1>b, <3>6, <4>1, <5>1, <5>2
      <4>3. /\ entries'[Len(entries')].data = size'[entries'[Len(entries')].node]
            /\ Exact(entries[Len(entries)])'
        BY <2>1, <3>1, <3>2, <3>8 DEF Exact
      <4> QED
        BY <3>4, <4>1, <4>2, <4>3, Zenon DEF Walked
    <3> QED
      BY <2>3, <3>7, <3>8
  <2>4. result' # "error"
    BY DEF Undamaged
  <2> QED
    BY <1>2, <2>2, <2>3, <2>4 DEF Visit, Return
<1>3. CASE Change
  <2>1. /\ pc = "copy" /\ at \in Nodes /\ Walked /\ entries # <<>>
        /\ entries[Len(entries)].node = at
    BY <1>0, <1>3, <1>f DEF Change, StageInv
  <2>2. PICK s \in 0..MaxSize : size' = [size EXCEPT ![at] = s]
    BY <1>3 DEF Change
  <2>3. UNCHANGED <<pc, at, entries>>
    BY <1>3 DEF Change, making
  <2>4. \A n \in Nodes : n # at => size'[n] = size[n]
    BY <1>0, <2>2 DEF Types
  <2>5. \A k \in 1 .. Len(entries) : k < Len(entries) => entries[k].node # at
    BY <1>a, <1>c, <1>d, <2>1
  <2>6. \A k \in 1 .. Len(entries') : k < Len(entries') => Exact(entries[k])'
    BY <1>c, <2>1, <2>3, <2>4, <2>5 DEF Exact, Walked
  <2>7. \A n \in Nodes' : n < at' => Covered(n)'
    BY <1>b, <2>1, <2>3 DEF Covered, Walked
  <2> QED
    BY <2>1, <2>3, <2>6, <2>7, Zenon DEF Walked
<1>4. CASE Copy
  <2> DEFINE l == Len(entries)
             e == [Last(entries) EXCEPT !.data = size[at]]
             w == IF format.zip THEN [e EXCEPT !.size = e.data] ELSE e
  <2>1. /\ pc = "copy" /\ at \in Nodes /\ entries # <<>> /\ Walked
        /\ entries[Len(entries)].node = at /\ UNCHANGED <<tree, format, size, compression, closers>>
    BY <1>0, <1>4, <1>f DEF Copy, StageInv, source
  <2>2. GoOn /\ entries' = Append(Front(entries), w)
    BY <1>4 DEF Copy, Return, Undamaged
  <2>3. w \in Entry /\ w.node = at /\ w.data = size[at] /\ (format.zip => w.size = size[at])
    <3>1. entries[l] \in Entry /\ size[at] \in 0..MaxSize
      BY <1>0, <1>c, <1>d, <2>1, ElementOfSeq DEF Types
    <3>2. e = [node |-> at, data |-> size[at], size |-> entries[l].size]
      BY <2>1, <3>1 DEF Entry, Last
    <3>3. entries[l].size \in 0..MaxSize
      BY <3>1 DEF Entry
    <3> HIDE DEF e
    <3>4. w = [node |-> at, data |-> size[at],
               size |-> IF format.zip THEN size[at] ELSE entries[l].size]
      BY <3>2
    <3> HIDE DEF w
    <3> QED
      BY <2>1, <3>1, <3>3, <3>4 DEF Entry
  <2> HIDE DEF e, w, l
  <2>4. /\ Append(Front(entries), w) \in Seq(Entry) /\ Append(Front(entries), w) # <<>>
        /\ Len(entries) \in Nat \ {0} /\ Len(Append(Front(entries), w)) = Len(entries)
        /\ Append(Front(entries), w)[Len(entries)] = w
        /\ \A k \in 1 .. Len(entries) - 1 : Append(Front(entries), w)[k] = entries[k]
    <3>1. entries \in Seq(Entry) /\ entries # <<>> /\ w \in Entry
      BY <1>c, <2>1, <2>3
    <3> QED
      BY <3>1, ReplaceLast
  <2>5. /\ entries' \in Seq(Entry) /\ Len(entries') = Len(entries) /\ entries' # <<>>
        /\ entries'[Len(entries)] = w
        /\ \A k \in 1 .. Len(entries) - 1 : entries'[k] = entries[k]
    BY <2>2, <2>4
  <2>6. \A k \in 1 .. Len(entries) : k \in 1 .. Len(entries) - 1 \/ k = Len(entries)
    BY <1>n
  <2>7. \A k \in 1 .. Len(entries) : entries'[k].node = entries[k].node
    BY <2>1, <2>3, <2>5, <2>6
  <2>8. DOMAIN entries' = DOMAIN entries
    BY <1>c, <2>5, LenProperties
  <2>9. \A n \in Nodes : Covered(n) => Covered(n)'
    BY <1>b, <1>c, <2>7, <2>8 DEF Covered
  <2>10. /\ at' = at + 1 /\ pc' # "copy"
         /\ pc' \notin {"walk", "copy"} =>
                  /\ at' = Len(tree') + 1
                  /\ closers' \notin {<<>>, <<"file">>}
                  /\ ~(closers' = <<"tar", "file">> /\ compression' # "none")
    BY <1>h, <2>1, <2>2
  <2>11. \A n \in Nodes' : n < at' => Covered(n)'
    <3>1. Covered(at)
      BY <1>c, <1>d, <2>1 DEF Covered
    <3>2. \A n \in Nodes : n < at + 1 => n < at \/ n = at
      BY <1>a
    <3> QED
      BY <1>b, <2>1, <2>9, <2>10, <3>1, <3>2 DEF Walked
  <2>12. \A k \in 1 .. Len(entries') : k < Len(entries') => Exact(entries[k])'
    <3>1. \A k \in 1 .. Len(entries) : k < Len(entries) => k \in 1 .. Len(entries) - 1
      BY <1>c
    <3> QED
      BY <2>1, <2>5, <3>1 DEF Exact, Walked
  <2>13. /\ entries'[Len(entries')].data = size'[entries'[Len(entries')].node]
         /\ format.zip' => Exact(entries[Len(entries)])'
    BY <2>1, <2>3, <2>5 DEF Exact
  <2> QED
    BY <2>10, <2>11, <2>12, <2>13, Zenon DEF Walked
<1>5. CASE Close
  <2>1. /\ pc = "close" /\ pc' \in {"close", "idle"} /\ closers' = Tail(closers) /\ closers # <<>>
        /\ UNCHANGED <<tree, format, size, at, compression, result>>
    BY <1>0, <1>5 DEF Close, source, StageInv
  <2>2. dropped' \cap Lost = {} /\ result # "error"
    BY <2>1 DEF Undamaged
  <2>3. dropped \cap Lost = {}
    <3>1. dropped \subseteq dropped'
      BY <1>5 DEF Close, CloseCompressor, CloseTar, CloseZip, CloseFile
    <3> QED
      BY <2>2, <3>1
  <2>4. Walked
    BY <1>0, <2>1, <2>2, <2>3 DEF WalkInv, Undamaged
  \* Nothing is lost, so that the entries stay.
  <2>5. /\ entries' = entries
        /\ Head(closers) \in {"compressor", "zip"} => end' = "whole"
        /\ Head(closers) = "tar" => ~Short /\ (end' = "whole" \/ (compression # "none" /\ end' = end))
        /\ Head(closers) = "file" => end' = end
    BY <1>5, <2>2 DEF Close, CloseCompressor, CloseTar, CloseZip, CloseFile, Keeps, CutAt, Lost
  <2>6. /\ closers = <<"compressor", "tar", "file">> => closers' = <<"tar", "file">> /\ end' = "whole"
        /\ closers = <<"zip", "file">> => closers' = <<"file">> /\ end' = "whole" /\ format.zip
        /\ closers = <<"tar", "file">> => closers' = <<"file">> /\ end' = "whole" /\ ~Short
        /\ closers = <<"file">> => closers' = <<>> /\ end' = end
    <3>1. closers = <<"tar", "file">> /\ compression # "none" => end = "whole"
      BY <2>1, <2>4 DEF Walked
    <3>2. closers = <<"zip", "file">> => format.zip
      BY <1>0, <2>1 DEF StageInv
    <3>3. CASE closers = <<"compressor", "tar", "file">>
      <4>1. closers' = <<"tar", "file">> /\ Head(closers) = "compressor"
        BY <2>1, <3>3, TailsOfDeferred
      <4> QED
        BY <2>5, <3>3, <4>1
    <3>4. CASE closers = <<"zip", "file">>
      <4>1. closers' = <<"file">> /\ Head(closers) = "zip"
        BY <2>1, <3>4, TailsOfDeferred
      <4> QED
        BY <2>5, <3>2, <3>4, <4>1
    <3>5. CASE closers = <<"tar", "file">>
      <4>1. closers' = <<"file">> /\ Head(closers) = "tar"
        BY <2>1, <3>5, TailsOfDeferred
      <4> QED
        BY <2>5, <3>1, <3>5, <4>1
    <3>6. CASE closers = <<"file">>
      <4>1. closers' = <<>> /\ Head(closers) = "file"
        BY <2>1, <3>6, TailsOfDeferred
      <4> QED
        BY <2>5, <3>6, <4>1
    <3> QED
      BY <1>0, <2>1, <3>3, <3>4, <3>5, <3>6 DEF Types
  <2>7. /\ closers' \in {<<>>, <<"file">>} =>
                end' = "whole" /\ (entries # <<>> => Exact(entries[Len(entries)]))
        /\ closers' = <<"tar", "file">> /\ compression # "none" => end' = "whole"
    <3>1. CASE closers = <<"compressor", "tar", "file">>
      <4>1. closers' # <<>> /\ closers' # <<"file">>
        BY <2>6, <3>1
      <4> QED
        BY <2>6, <3>1, <4>1
    <3>2. CASE closers = <<"zip", "file">>
      <4>1. entries # <<>> => Exact(entries[Len(entries)])
        BY <2>1, <2>4, <2>6, <3>2 DEF Walked
      <4> QED
        BY <2>6, <3>2, <4>1
    <3>3. CASE closers = <<"tar", "file">>
      <4>1. entries # <<>> => Exact(entries[Len(entries)])
        BY <1>c, <1>g, <2>1, <2>4, <2>6, <3>3
      <4> QED
        BY <2>6, <3>3, <4>1
    <3>4. CASE closers = <<"file">>
      <4>1. end = "whole" /\ (entries # <<>> => Exact(entries[Len(entries)]))
        BY <2>1, <2>4, <3>4 DEF Walked
      <4> QED
        BY <2>6, <3>4, <4>1
    <3> QED
      BY <1>0, <2>1, <3>1, <3>2, <3>3, <3>4 DEF Types
  <2>8. entries # <<>> => (Exact(entries[Len(entries)])' <=> Exact(entries[Len(entries)]))
    BY <1>c, <1>d, <1>i, <2>1, <2>5
  <2>9. /\ \A n \in Nodes' : n < at' => Covered(n)'
        /\ \A k \in 1 .. Len(entries') : k < Len(entries') => Exact(entries[k])'
    BY <1>b, <1>i, <2>1, <2>4, <2>5 DEF Walked
  <2>10. entries' # <<>> =>
            /\ entries'[Len(entries')].data = size'[entries'[Len(entries')].node]
            /\ format.zip' => Exact(entries[Len(entries)])'
    BY <2>1, <2>4, <2>5, <2>8 DEF Walked
  <2>11. at' = Len(tree') + 1
    BY <2>1, <2>4 DEF Walked
  <2>12. /\ closers' \in {<<>>, <<"file">>} =>
                end' = "whole" /\ (entries' # <<>> => Exact(entries[Len(entries)])')
         /\ closers' = <<"tar", "file">> /\ compression' # "none" => end' = "whole"
    BY <2>1, <2>5, <2>7, <2>8
  <2> QED
    BY <2>9, <2>10, <2>11, <2>12, Zenon DEF Walked
<1>6. CASE Open \/ Extract \/ EndOfArchive \/ Done \/ UNCHANGED vars
  <2>1. /\ UNCHANGED <<tree, format, size, at, compression, entries, end, closers, result>>
        /\ pc' = pc \/ (pc \in {"idle", "extract"} /\ pc' \in {"idle", "extract"})
        /\ dropped' = dropped \/ dropped' = dropped \ {"output"}
            \/ dropped' = dropped \cup {"output"}
    BY <1>6 DEF Open, Extract, EndOfArchive, Done, vars, source, making, Stop
  <2>2. Undamaged
    BY <2>1 DEF Undamaged, Lost
  <2>3. Walked
    BY <1>0, <2>2 DEF WalkInv
  <2> QED
    BY <2>1, <2>3, <1>b DEF Walked, Covered, Exact
<1> QED
  BY <1>1, <1>2, <1>3, <1>4, <1>5, <1>6 DEF Next
-----------------------------------------------------------------------------
(* The destination. *)

\* What is above a node is a directory: the directories hold every parent.
LEMMA AboveAreDirs ==
  ASSUME Types, NEW n \in Nodes, NEW m \in Above(n)
  PROVE  m \in Nodes /\ tree[m].kind = "dir"
<1> DEFINE S == {k \in Nodes : tree[k].kind = "dir"}
<1>1. /\ IsTree(tree) /\ Len(tree) \in Nat \ {0} /\ Nodes = 1 .. Len(tree)
  BY Basics
<1>2. \A k \in Nodes : tree[k].parent \in S \cup {0}
  <2>1. SUFFICES ASSUME NEW k \in Nodes PROVE tree[k].parent \in S \cup {0}
    OBVIOUS
  <2>2. CASE k = 1
    BY <1>1, <2>2 DEF IsTree
  <2>3. CASE k # 1
    <3>1. k \in 2 .. Len(tree)
      BY <1>1, <2>3
    <3>2. tree[k].parent \in 1 .. k - 1 /\ tree[tree[k].parent].kind = "dir"
      BY <1>1, <3>1 DEF IsTree
    <3>3. tree[k].parent \in Nodes
      BY <1>1, <3>1, <3>2
    <3> QED
      BY <3>2, <3>3
  <2> QED
    BY <2>2, <2>3
<1>3. S \in SUBSET Nodes /\ \A k \in S \cup {n} : tree[k].parent \in S \cup {0}
  BY <1>2
<1> HIDE DEF S
<1>4. m \in S
  BY <1>3 DEF Above
<1> QED
  BY <1>4 DEF S

\* What is put in the destination is what the archive makes of the node, and
\* nothing else changes but, in UnZip, the missing directories above it.
LEMMA PutKeeps ==
  ASSUME Types, DestInv, tree' = tree, format' = format,
         NEW n \in Nodes, NEW d \in 0..MaxSize,
         ~Skipped(n), ~NoHeader(n), tree[n].kind # "file" => d = 0,
         dest' = Put(n, d)
  PROVE  /\ DestInv'
         /\ \A m \in Nodes : Exists(m) =>
                Exists(m)' /\ (m # n => dest'[m].data = dest[m].data)
         /\ format.zip \/ tree[n].kind # "fifo" => Exists(n)' /\ dest'[n].data = d
         /\ ~format.zip => \A m \in Nodes : Exists(m)' => m = n \/ Exists(m)
<1> DEFINE D == [kind : Kinds \cup {"absent"}, data : 0..MaxSize, writable : BOOLEAN]
<1>1. Nodes' = Nodes /\ (\A m \in Nodes : Above(m)' = Above(m) /\ Kind(m)' = Kind(m)
                                            /\ Writable(m)' = Writable(m))
  BY DEF Nodes, NodesOf, Above, Kind, Writable
<1>2. /\ MaxSize \in Nat /\ format.zip \in BOOLEAN
      /\ \A m \in Nodes : tree[m].kind \in Kinds /\ tree[m].writable \in BOOLEAN
  BY Basics
<1>3. /\ dest \in [Nodes -> D]
      /\ \A m \in Nodes : dest[m].kind = "absent" => dest[m] = Absent
      /\ \A m \in Nodes : dest[m].kind # "absent" =>
            /\ dest[m].kind = Kind(m) /\ dest[m].writable = Writable(m)
            /\ tree[m].kind # "file" => dest[m].data = 0
            /\ ~format.zip => tree[m].kind \notin {"fifo", "socket"}
            /\ format.zip /\ tree[m].kind # "dir" =>
                    \A k \in Above(m) : dest[k].kind # "absent"
            /\ format.zip /\ tree[m].kind = "dir" =>
                    \E k \in Nodes : m \in Above(k) /\ tree[k].kind # "dir"
  BY Zenon DEF DestInv, Exists
\* What DestInv' asks for.
<1>4. ASSUME dest' \in [Nodes -> D],
             \A m \in Nodes : dest'[m].kind = "absent" => dest'[m] = Absent,
             \A m \in Nodes : dest'[m].kind # "absent" =>
                /\ dest'[m].kind = Kind(m) /\ dest'[m].writable = Writable(m)
                /\ tree[m].kind # "file" => dest'[m].data = 0
                /\ ~format.zip => tree[m].kind \notin {"fifo", "socket"}
                /\ format.zip /\ tree[m].kind # "dir" =>
                        \A k \in Above(m) : dest'[k].kind # "absent"
                /\ format.zip /\ tree[m].kind = "dir" =>
                        \E k \in Nodes : m \in Above(k) /\ tree[k].kind # "dir"
      PROVE  DestInv'
  <2>1. /\ dest' \in [Nodes' -> D]
        /\ \A m \in Nodes' : ~Exists(m)' => dest'[m] = Absent
    BY <1>1, <1>4, Zenon DEF Exists
  <2>2. ASSUME NEW m \in Nodes', Exists(m)'
        PROVE  /\ dest'[m].kind = Kind(m)' /\ dest'[m].writable = Writable(m)'
               /\ tree'[m].kind # "file" => dest'[m].data = 0
               /\ ~format'.zip => tree'[m].kind \notin {"fifo", "socket"}
               /\ format'.zip /\ tree'[m].kind # "dir" => \A k \in Above(m)' : Exists(k)'
               /\ format'.zip /\ tree'[m].kind = "dir" =>
                    \E k \in Nodes' : m \in Above(k)' /\ tree'[k].kind # "dir"
    <3>1. m \in Nodes /\ dest'[m].kind # "absent" /\ Above(m)' = Above(m)
      BY <1>1, <2>2 DEF Exists
    <3>2. /\ dest'[m].kind = Kind(m) /\ dest'[m].writable = Writable(m)
          /\ tree[m].kind # "file" => dest'[m].data = 0
          /\ ~format.zip => tree[m].kind \notin {"fifo", "socket"}
          /\ format.zip /\ tree[m].kind # "dir" => \A k \in Above(m) : Exists(k)'
          /\ format.zip /\ tree[m].kind = "dir" =>
                \E k \in Nodes : m \in Above(k) /\ tree[k].kind # "dir"
      BY <1>4, <3>1, Zenon DEF Exists
    <3>3. dest'[m].kind = Kind(m)' /\ dest'[m].writable = Writable(m)'
      BY <1>1, <3>1, <3>2
    <3>4. format'.zip /\ tree'[m].kind = "dir" =>
              \E k \in Nodes' : m \in Above(k)' /\ tree'[k].kind # "dir"
      BY <1>1, <3>2
    <3> QED
      BY <3>1, <3>2, <3>3, <3>4
  <2> QED
    BY <2>1, <2>2, Zenon DEF DestInv
<1>5. CASE Exists(n)
  <2>1. dest' = [dest EXCEPT ![n].data = d]
    BY <1>5 DEF Put
  <2>2. /\ dest'[n].kind = dest[n].kind /\ dest'[n].writable = dest[n].writable
        /\ dest'[n].data = d /\ dest'[n] \in D
        /\ \A m \in Nodes : m # n => dest'[m] = dest[m]
    BY <1>3, <2>1
  <2>3. dest' \in [Nodes -> D]
    BY <1>3, <2>1
  <2>4. \A m \in Nodes : dest'[m].kind = dest[m].kind /\ dest'[m].writable = dest[m].writable
            /\ (m = n \/ dest'[m] = dest[m])
    BY <2>2
  <2>5. DestInv'
    <3>1. \A m \in Nodes : dest'[m].kind = "absent" => dest'[m] = Absent
      BY <1>3, <1>5, <2>4 DEF Exists
    <3>2. ASSUME NEW m \in Nodes, dest'[m].kind # "absent"
          PROVE /\ dest'[m].kind = Kind(m) /\ dest'[m].writable = Writable(m)
                /\ tree[m].kind # "file" => dest'[m].data = 0
                /\ ~format.zip => tree[m].kind \notin {"fifo", "socket"}
                /\ format.zip /\ tree[m].kind # "dir" =>
                        \A k \in Above(m) : dest'[k].kind # "absent"
                /\ format.zip /\ tree[m].kind = "dir" =>
                        \E k \in Nodes : m \in Above(k) /\ tree[k].kind # "dir"
      <4>1. \A k \in Above(m) : k \in Nodes
        BY AboveAreDirs
      <4> QED
        BY <1>3, <2>2, <2>4, <3>2, <4>1
    <3> QED
      BY <1>4, <2>3, <3>1, <3>2
  <2> QED
    BY <1>5, <2>2, <2>4, <2>5 DEF Exists
<1>6. CASE ~Exists(n) /\ format.zip
  <2>1. dest' = [m \in Nodes |-> CASE m = n -> Made("file", d, TRUE)
                                   [] m \in Above(n) /\ ~Exists(m) -> Made("dir", 0, TRUE)
                                   [] OTHER -> dest[m]]
    BY <1>6 DEF Put, Fresh
  <2>2. tree[n].kind # "dir"
    BY <1>6 DEF Skipped
  <2>3. \A m \in Above(n) : m \in Nodes /\ tree[m].kind = "dir" /\ m # n
    BY <2>2, AboveAreDirs
  <2>4. /\ dest'[n] = Made("file", d, TRUE)
        /\ \A m \in Above(n) : ~Exists(m) => dest'[m] = Made("dir", 0, TRUE)
        /\ \A m \in Nodes : m # n /\ ~(m \in Above(n) /\ ~Exists(m)) => dest'[m] = dest[m]
    BY <2>1, <2>3
  <2>5. /\ Made("file", d, TRUE) \in D /\ Made("dir", 0, TRUE) \in D
    BY <1>2 DEF Made, Kinds
  <2>6. dest' \in [Nodes -> D]
    <3>1. \A m \in Nodes : dest'[m] \in D
      BY <1>3, <2>4, <2>5
    <3> HIDE DEF D
    <3> QED
      BY <2>1, <3>1
  <2>7. /\ Made("file", d, TRUE).kind = "file" /\ Made("file", d, TRUE).data = d
        /\ Made("file", d, TRUE).writable = TRUE /\ Made("dir", 0, TRUE).kind = "dir"
        /\ Made("dir", 0, TRUE).data = 0 /\ Made("dir", 0, TRUE).writable = TRUE
    BY DEF Made
  <2>8. /\ dest'[n].kind = "file" /\ dest'[n].data = d /\ dest'[n].writable = TRUE
        /\ \A m \in Above(n) : ~Exists(m) =>
                dest'[m].kind = "dir" /\ dest'[m].data = 0 /\ dest'[m].writable = TRUE
    BY <2>4, <2>7
  <2>9. \A m \in Nodes : \/ m = n
                         \/ m \in Above(n) /\ ~Exists(m)
                         \/ dest'[m] = dest[m] /\ (m \in Above(n) => Exists(m))
    BY <2>4
  <2>10. \A m \in Nodes : dest[m].kind # "absent" => dest'[m].kind # "absent"
    BY <2>8, <2>9 DEF Exists
  <2>11. \A m \in Above(n) : dest'[m].kind # "absent"
    BY <2>3, <2>8, <2>9 DEF Exists
  <2>12. \A m \in Nodes : dest'[m].kind = "absent" => dest'[m] = Absent
    BY <1>3, <2>8, <2>9
  <2>13. ASSUME NEW m \in Nodes, dest'[m].kind # "absent"
        PROVE /\ dest'[m].kind = Kind(m) /\ dest'[m].writable = Writable(m)
              /\ tree[m].kind # "file" => dest'[m].data = 0
              /\ ~format.zip => tree[m].kind \notin {"fifo", "socket"}
              /\ format.zip /\ tree[m].kind # "dir" =>
                      \A k \in Above(m) : dest'[k].kind # "absent"
              /\ format.zip /\ tree[m].kind = "dir" =>
                      \E k \in Nodes : m \in Above(k) /\ tree[k].kind # "dir"
    <3>1. CASE m = n
      BY <1>6, <2>2, <2>8, <2>11, <3>1 DEF Kind, Writable
    <3>2. CASE m \in Above(n) /\ ~Exists(m)
      BY <1>6, <2>2, <2>3, <2>8, <3>2 DEF Kind, Writable
    <3>3. CASE dest'[m] = dest[m]
      <4>1. \A k \in Above(m) : k \in Nodes
        BY AboveAreDirs
      <4> QED
        BY <1>3, <2>10, <2>13, <3>3, <4>1
    <3> QED
      BY <2>9, <3>1, <3>2, <3>3
  <2>14. DestInv'
    BY <1>4, <2>6, <2>12, <2>13
  <2> QED
    BY <1>6, <2>8, <2>9, <2>10, <2>14 DEF Exists
<1>7. CASE ~Exists(n) /\ ~format.zip /\ tree[n].kind = "fifo"
  <2>1. dest' = dest
    BY <1>7 DEF Put, Fresh
  <2>2. DestInv'
    BY <1>3, <1>4, <2>1
  <2> QED
    BY <1>7, <2>1, <2>2 DEF Exists
<1>8. CASE ~Exists(n) /\ ~format.zip /\ tree[n].kind # "fifo"
  <2>1. dest' = [dest EXCEPT ![n] = Made(tree[n].kind, d, tree[n].writable)]
    BY <1>8 DEF Put, Fresh
  <2>2. Made(tree[n].kind, d, tree[n].writable) \in D
    BY <1>2 DEF Made
  <2>3. /\ dest'[n].kind = tree[n].kind /\ dest'[n].writable = tree[n].writable
        /\ dest'[n].data = d
        /\ \A m \in Nodes : m # n => dest'[m] = dest[m]
    BY <1>3, <2>1 DEF Made
  <2>4. dest' \in [Nodes -> D]
    <3> HIDE DEF D
    <3> QED
      BY <1>3, <2>1, <2>2
  <2>5. tree[n].kind # "socket" /\ tree[n].kind # "absent"
    BY <1>2, <1>8 DEF NoHeader, Kinds
  <2>6. \A m \in Nodes : dest'[m].kind = "absent" => dest'[m] = Absent
    BY <1>3, <2>3, <2>5
  <2>7. ASSUME NEW m \in Nodes, dest'[m].kind # "absent"
        PROVE /\ dest'[m].kind = Kind(m) /\ dest'[m].writable = Writable(m)
              /\ tree[m].kind # "file" => dest'[m].data = 0
              /\ ~format.zip => tree[m].kind \notin {"fifo", "socket"}
              /\ format.zip /\ tree[m].kind # "dir" =>
                      \A k \in Above(m) : dest'[k].kind # "absent"
              /\ format.zip /\ tree[m].kind = "dir" =>
                      \E k \in Nodes : m \in Above(k) /\ tree[k].kind # "dir"
    <3>1. CASE m = n
      <4>1. Kind(n) = tree[n].kind /\ Writable(n) = tree[n].writable
        BY <1>2, <1>8, Zenon DEF Kind, Writable
      <4> QED
        BY <1>8, <2>3, <2>5, <3>1, <4>1
    <3>2. CASE m # n
      BY <1>3, <1>8, <2>3, <2>7, <3>2
    <3> QED
      BY <3>1, <3>2
  <2>8. DestInv'
    BY <1>4, <2>4, <2>6, <2>7
  <2> QED
    BY <1>8, <2>3, <2>5, <2>8 DEF Exists
<1> QED
  BY <1>5, <1>6, <1>7, <1>8
LEMMA DestStays == Types /\ DestInv /\ UNCHANGED <<tree, format, dest>> => DestInv'
<1> SUFFICES ASSUME Types, DestInv, UNCHANGED <<tree, format, dest>> PROVE DestInv'
  OBVIOUS
<1>1. Nodes' = Nodes /\ (\A m \in Nodes : Above(m)' = Above(m) /\ Kind(m)' = Kind(m)
                            /\ Writable(m)' = Writable(m) /\ (Exists(m)' <=> Exists(m)))
  BY DEF Nodes, NodesOf, Above, Kind, Writable, Exists
<1>2. \A n \in Nodes : \A m \in Above(n) : m \in Nodes
  BY AboveAreDirs
<1>3. /\ dest' \in [Nodes' -> [kind : Kinds \cup {"absent"}, data : 0..MaxSize, writable : BOOLEAN]]
      /\ \A n \in Nodes' : ~Exists(n)' => dest'[n] = Absent
  BY <1>1 DEF DestInv
<1>4. ASSUME NEW n \in Nodes', Exists(n)'
      PROVE  /\ dest'[n].kind = Kind(n)' /\ dest'[n].writable = Writable(n)'
             /\ tree'[n].kind # "file" => dest'[n].data = 0
             /\ ~format'.zip => tree'[n].kind \notin {"fifo", "socket"}
             /\ format'.zip /\ tree'[n].kind # "dir" => \A m \in Above(n)' : Exists(m)'
             /\ format'.zip /\ tree'[n].kind = "dir" =>
                    \E m \in Nodes' : n \in Above(m)' /\ tree'[m].kind # "dir"
  <2>1. n \in Nodes /\ Exists(n) /\ Above(n)' = Above(n)
    BY <1>1, <1>4
  <2>2. /\ dest[n].kind = Kind(n) /\ dest[n].writable = Writable(n)
        /\ tree[n].kind # "file" => dest[n].data = 0
        /\ ~format.zip => tree[n].kind \notin {"fifo", "socket"}
        /\ format.zip /\ tree[n].kind # "dir" => \A m \in Above(n) : Exists(m)
        /\ format.zip /\ tree[n].kind = "dir" =>
                    \E m \in Nodes : n \in Above(m) /\ tree[m].kind # "dir"
    BY <2>1, Zenon DEF DestInv
  <2>3. format'.zip /\ tree'[n].kind # "dir" => \A m \in Above(n)' : Exists(m)'
    BY <1>1, <1>2, <2>1, <2>2
  <2>4. format'.zip /\ tree'[n].kind = "dir" =>
            \E m \in Nodes' : n \in Above(m)' /\ tree'[m].kind # "dir"
    BY <1>1, <2>2
  <2> QED
    BY <1>1, <2>1, <2>2, <2>3, <2>4
<1> QED
  BY <1>3, <1>4, Zenon DEF DestInv

\* The next entry's node, of which no entry before it speaks.
LEMMA NextEntry ==
  ASSUME Types, EntriesInv, upto \in 0 .. Len(entries), upto < Len(entries)
  PROVE  /\ upto + 1 \in 1 .. Len(entries) /\ Len(entries) \in Nat /\ upto \in Nat
         /\ entries[upto + 1].node \in Nodes
         /\ entries[upto + 1].data \in 0..MaxSize /\ entries[upto + 1].size \in 0..MaxSize
         /\ ~Skipped(entries[upto + 1].node) /\ ~NoHeader(entries[upto + 1].node)
         /\ tree[entries[upto + 1].node].kind # "file" => entries[upto + 1].data = 0
         /\ \A k \in 1 .. upto : entries[k].node \in Nodes
                                    /\ entries[k].node # entries[upto + 1].node
<1>0. entries \in Seq(Entry) /\ Len(entries) \in Nat /\ DOMAIN entries = 1 .. Len(entries)
      /\ MaxSize \in Nat /\ Nodes = 1 .. Len(tree) /\ Len(tree) \in Nat \ {0}
  BY LenProperties, Basics DEF EntriesInv
<1>1. upto \in Nat /\ upto + 1 \in 1 .. Len(entries)
      /\ \A k \in 1 .. upto : k \in 1 .. Len(entries) /\ k < upto + 1
  <2>1. upto \in Nat /\ Len(entries) \in Nat /\ upto < Len(entries)
    BY <1>0
  <2> QED
    BY <2>1
<1>2. \A k \in 1 .. Len(entries) : entries[k] \in Entry
  BY <1>0, ElementOfSeq
<1>3. \A k \in 1 .. Len(entries) : /\ entries[k].node \in Nodes
                                   /\ entries[k].data \in 0..MaxSize /\ entries[k].size \in 0..MaxSize
  BY <1>2 DEF Entry
<1>4. GoodEntry(entries[upto + 1])
  BY <1>0, <1>1 DEF EntriesInv
<1>5. \A j, k \in 1 .. Len(entries) : j < k => entries[j].node < entries[k].node
  BY <1>0, Zenon DEF EntriesInv, InOrder
<1>6. \A k \in 1 .. upto : entries[k].node < entries[upto + 1].node
  BY <1>1, <1>5
<1>7. \A k \in 1 .. upto : entries[k].node # entries[upto + 1].node
  BY <1>0, <1>1, <1>3, <1>6
<1>8. tree[entries[upto + 1].node].kind # "file" => entries[upto + 1].data = 0
  <2>1. /\ entries[upto + 1].data \in 0..MaxSize
        /\ entries[upto + 1].data <= entries[upto + 1].size
        /\ tree[entries[upto + 1].node].kind # "file" => entries[upto + 1].size = 0
    BY <1>1, <1>3, <1>4 DEF GoodEntry
  <2> QED
    BY <1>0, <2>1
<1> QED
  BY <1>0, <1>1, <1>3, <1>4, <1>7, <1>8 DEF GoodEntry

LEMMA StepDestination == IInv /\ [Next]_vars => DestInv' /\ ExtractInv'
<1> SUFFICES ASSUME IInv, [Next]_vars PROVE DestInv' /\ ExtractInv'
  OBVIOUS
<1>0. /\ Types /\ StageInv /\ EntriesInv /\ DestInv /\ ExtractInv
      /\ tree' = tree /\ format' = format /\ EntriesInv'
  BY SourceUnchanged, StepEntries DEF IInv
<1>a. Nodes' = Nodes
  BY <1>0 DEF Nodes, NodesOf
<1>b. Len(entries) \in Nat /\ Len(entries') \in Nat /\ upto \in Nat
  BY <1>0, LenProperties DEF EntriesInv, ExtractInv
\* While the archive is made nothing is extracted.
<1>1. CASE Create \/ Visit \/ Change \/ Copy \/ Close
  <2>1. /\ pc \in {"start", "walk", "copy", "close"} /\ pc' \in {"walk", "copy", "close", "idle"}
        /\ UNCHANGED <<dest, upto, outcome, attempts>>
    BY <1>1 DEF Create, Visit, Change, Copy, Close, GoOn, Return
  <2>2. /\ outcome = "none" /\ upto = 0 /\ attempts = 0
        /\ \A n \in Nodes : ~Exists(n)
    BY <1>0, <2>1 DEF ExtractInv
  <2>3. DestInv'
    BY <1>0, <2>1, DestStays
  <2>4. \A n \in Nodes' : ~Exists(n)'
    BY <1>a, <2>1, <2>2 DEF Exists
  <2>5. upto' \in 0 .. Len(entries')
    BY <1>b, <2>1, <2>2
  <2>6. pc' # "extract" /\ outcome' = "none" /\ upto' = 0 /\ attempts' = 0
    BY <2>1, <2>2
  <2> QED
    BY <2>3, <2>4, <2>5, <2>6 DEF ExtractInv
<1>2. CASE Open
  <2>1. /\ pc = "idle" /\ result = "ok" /\ result' = result /\ attempts' = attempts + 1 /\ upto' = 0
        /\ \/ Readable /\ outcome' = "running" /\ pc' = "extract"
           \/ outcome' = "format" /\ pc' = "idle"
        /\ UNCHANGED <<dest, entries, end, compression, format>>
    BY <1>2 DEF Open, making, source
  <2>2. DestInv'
    BY <1>0, <2>1, DestStays
  <2>3. attempts \in Nat /\ attempts' # 0 /\ (attempts' = 1 => attempts = 0)
    <3>1. attempts \in Nat
      BY <1>0, Basics DEF Types
    <3> QED
      BY <2>1, <3>1
  <2>4. Readable => Readable'
    BY <2>1 DEF Readable
  <2>5. attempts' = 1 => \A n \in Nodes' : ~Exists(n)'
    BY <1>0, <1>a, <2>1, <2>3 DEF ExtractInv, Exists
  <2>6. upto' \in 0 .. Len(entries') /\ 1 .. upto' = {}
    BY <1>b, <2>1
  <2>7. outcome' # "none" /\ outcome' # "ok" /\ pc' \in {"extract", "idle"}
        /\ (pc' = "extract" <=> outcome' = "running")
    BY <2>1
  <2>8. pc' = "extract" => Readable'
    BY <2>1, <2>4
  <2> QED
    BY <2>1, <2>2, <2>3, <2>5, <2>6, <2>7, <2>8 DEF ExtractInv
<1>3. CASE EndOfArchive
  <2>1. /\ pc = "extract" /\ pc' = "idle" /\ outcome' \in {"ok", "format"}
        /\ upto = Len(entries)
        /\ UNCHANGED <<dest, upto, attempts, entries, result, dropped>>
    BY <1>3 DEF EndOfArchive, Stop, making
  <2>2. DestInv'
    BY <1>0, <2>1, DestStays
  <2>3. /\ outcome = "running" /\ result = "ok" /\ attempts # 0
        /\ \A k \in 1 .. upto :
              format.zip \/ tree[entries[k].node].kind # "fifo" =>
                /\ Exists(entries[k].node)
                /\ "output" \in dropped \/ dest[entries[k].node].data = entries[k].data
    BY <1>0, <2>1 DEF ExtractInv
  <2>4. \A k \in 1 .. upto' :
              format'.zip \/ tree'[entries'[k].node].kind # "fifo" =>
                /\ Exists(entries[k].node)'
                /\ "output" \in dropped' \/ dest'[entries'[k].node].data = entries'[k].data
    BY <1>0, <2>1, <2>3 DEF Exists
  <2>5. upto' \in 0 .. Len(entries')
    BY <1>b, <2>1
  <2> QED
    BY <2>1, <2>2, <2>3, <2>4, <2>5 DEF ExtractInv
<1>4. CASE Extract
  <2> DEFINE e == entries[upto + 1]
  <2>1. /\ pc = "extract" /\ upto < Len(entries) /\ upto \in 0 .. Len(entries)
        /\ UNCHANGED <<tree, format, attempts, entries, end, compression, result>>
    BY <1>0, <1>4 DEF Extract, making, source, ExtractInv
  <2>n. PICK n \in Nodes : n = e.node
    BY <1>0, <2>1, NextEntry
  <2>2. /\ upto + 1 \in 1 .. Len(entries)
        /\ n \in Nodes /\ e.data \in 0..MaxSize
        /\ ~Skipped(n) /\ ~NoHeader(n)
        /\ tree[n].kind # "file" => e.data = 0
        /\ \A k \in 1 .. upto : entries[k].node \in Nodes /\ entries[k].node # n
    BY <1>0, <2>1, <2>n, NextEntry
  <2>3. /\ outcome = "running" /\ result = "ok" /\ attempts # 0 /\ Readable
        /\ \A k \in 1 .. upto :
              format.zip \/ tree[entries[k].node].kind # "fifo" =>
                /\ Exists(entries[k].node)
                /\ "output" \in dropped \/ dest[entries[k].node].data = entries[k].data
        /\ attempts = 1 /\ ~format.zip =>
              \A m \in Nodes : Exists(m) => \E k \in 1 .. upto : entries[k].node = m
    BY <1>0, <2>1 DEF ExtractInv
  <2>4. 0 \in 0..MaxSize
    BY <1>0, Basics
  <2>5. \/ /\ dest' \in {Put(n, e.data), Put(n, 0)} /\ upto' = upto + 1
           /\ UNCHANGED <<pc, outcome>>
           /\ \/ dest' = Put(n, e.data) /\ dropped' = dropped
              \/ dropped' = dropped \cup {"output"}
        \/ /\ dest' \in {dest, Put(n, e.data), Put(n, 0)} /\ upto' = upto
           /\ pc' = "idle"
           /\ outcome' \in {"format", "link", "denied", "exists", "disk"}
    <3>1. Verdict(n) # "ok" => Verdict(n) \in {"link", "denied", "exists"}
      BY DEF Verdict, MakeDir, OpenFile, Symlink
    <3> QED
      BY <1>4, <2>n, <3>1 DEF Extract, Stop
  <2> HIDE DEF e
  <2>6. ASSUME NEW d \in {e.data, 0}, dest' = Put(n, d)
        PROVE  /\ DestInv'
               /\ \A m \in Nodes : Exists(m) =>
                      Exists(m)' /\ (m # n => dest'[m].data = dest[m].data)
               /\ format.zip \/ tree[n].kind # "fifo" => Exists(n)' /\ dest'[n].data = d
               /\ ~format.zip => \A m \in Nodes : Exists(m)' => m = n \/ Exists(m)
    <3>1. d \in 0..MaxSize /\ (tree[n].kind # "file" => d = 0)
      BY <2>2, <2>4
    <3> QED
      BY <1>0, <2>2, <2>6, <3>1, PutKeeps, Zenon
  <2>7. CASE /\ dest' \in {dest, Put(n, e.data), Put(n, 0)} /\ upto' = upto
             /\ pc' = "idle"
             /\ outcome' \in {"format", "link", "denied", "exists", "disk"}
    <3>1. DestInv'
      <4>1. CASE dest' = dest
        BY <1>0, <4>1, DestStays
      <4>2. CASE dest' = Put(n, e.data) \/ dest' = Put(n, 0)
        BY <2>6, <4>2
      <4> QED
        BY <2>7, <4>1, <4>2
    <3> QED
      BY <2>1, <2>3, <2>7, <3>1 DEF ExtractInv
  <2>8. CASE /\ dest' \in {Put(n, e.data), Put(n, 0)} /\ upto' = upto + 1
             /\ UNCHANGED <<pc, outcome>>
             /\ \/ dest' = Put(n, e.data) /\ dropped' = dropped
                \/ dropped' = dropped \cup {"output"}
    <3>1. /\ DestInv'
          /\ \A m \in Nodes : Exists(m) =>
                 Exists(m)' /\ (m # n => dest'[m].data = dest[m].data)
          /\ format.zip \/ tree[n].kind # "fifo" =>
                 Exists(n)' /\ ("output" \in dropped' \/ dest'[n].data = e.data)
          /\ ~format.zip => \A m \in Nodes : Exists(m)' => m = n \/ Exists(m)
      <4>1. CASE dest' = Put(n, e.data)
        BY <2>6, <4>1
      <4>2. CASE dest' = Put(n, 0) /\ dropped' = dropped \cup {"output"}
        BY <2>6, <4>2
      <4> QED
        BY <2>8, <4>1, <4>2
    <3>2. upto' \in 0 .. Len(entries') /\ upto' = upto + 1
          /\ \A k \in 1 .. upto + 1 : k \in 1 .. upto \/ k = upto + 1
      <4>1. upto \in Nat /\ upto + 1 \in 0 .. Len(entries)
        BY <1>b, <2>2
      <4> QED
        BY <2>1, <2>8, <4>1
    <3>3. \A k \in 1 .. upto' :
              format'.zip \/ tree'[entries'[k].node].kind # "fifo" =>
                /\ Exists(entries[k].node)'
                /\ "output" \in dropped' \/ dest'[entries'[k].node].data = entries'[k].data
      <4>1. ASSUME NEW k \in 1 .. upto
            PROVE  format.zip \/ tree[entries[k].node].kind # "fifo" =>
                      /\ dest'[entries[k].node].kind # "absent"
                      /\ "output" \in dropped' \/ dest'[entries[k].node].data = entries[k].data
        <5>1. entries[k].node \in Nodes /\ entries[k].node # n
          BY <2>2
        <5>2. "output" \in dropped => "output" \in dropped'
          BY <2>8
        <5> QED
          BY <2>3, <3>1, <5>1, <5>2 DEF Exists
      <4>2. format.zip \/ tree[n].kind # "fifo" =>
                      /\ dest'[n].kind # "absent"
                      /\ "output" \in dropped' \/ dest'[n].data = e.data
        BY <3>1 DEF Exists
      <4> QED
        BY <2>1, <2>n, <3>2, <4>1, <4>2 DEF Exists, e
    <3>4. attempts' = 1 /\ ~format'.zip =>
              \A m \in Nodes' : Exists(m)' => \E k \in 1 .. upto' : entries'[k].node = m
      <4>1. SUFFICES ASSUME attempts = 1, ~format.zip, NEW m \in Nodes, Exists(m)'
                     PROVE  \E k \in 1 .. upto + 1 : entries[k].node = m
        BY <1>a, <2>1, <3>2
      <4>2. CASE m = n
        <5>1. upto + 1 \in 1 .. upto + 1
          BY <1>b
        <5> QED
          BY <2>n, <4>2, <5>1 DEF e
      <4>3. CASE Exists(m)
        <5>1. PICK k \in 1 .. upto : entries[k].node = m
          BY <2>3, <4>1, <4>3
        <5>2. k \in 1 .. upto + 1
          BY <1>b
        <5> QED
          BY <5>1, <5>2
      <4> QED
        BY <3>1, <4>1, <4>2, <4>3
    <3>5. Readable'
      BY <2>1, <2>3 DEF Readable
    <3>6. outcome' = "running" /\ pc' = "extract" /\ result' = "ok" /\ attempts' # 0
      BY <2>1, <2>3, <2>8
    <3> QED
      BY <3>1, <3>2, <3>3, <3>4, <3>5, <3>6 DEF ExtractInv
  <2> QED
    BY <2>5, <2>7, <2>8
<1>5. CASE Done \/ UNCHANGED vars
  <2>1. UNCHANGED vars
    BY <1>5 DEF Done
  <2>2. DestInv'
    BY <1>0, <2>1, DestStays DEF vars, source
  <2>3. UNCHANGED <<tree, format, size, pc, making, dropped, dest, upto, outcome, attempts>>
    BY <2>1 DEF vars, source
  <2>4. Readable' <=> Readable
    BY <2>3 DEF Readable, making
  <2>5. \A n : Exists(n)' <=> Exists(n)
    BY <2>3 DEF Exists
  <2> QED
    BY <1>0, <1>a, <2>2, <2>3, <2>4, <2>5 DEF ExtractInv, making
<1> QED
  BY <1>1, <1>2, <1>3, <1>4, <1>5 DEF Next
-----------------------------------------------------------------------------
(* What follows. *)

LEMMA Invariance == Spec => []IInv
<1>1. IInv /\ [Next]_vars => IInv'
  BY StepTypes, StepEntries, StepStage, StepWalk, StepDestination DEF IInv
<1> QED
  BY <1>1, InitInvariant, PTL DEF Spec

\* The variables have their types: in particular no entry contains more than
\* its header announced, and none is extracted that was not written.
THEOREM TypeCorrect == Spec => []TypeOK
<1>1. IInv => TypeOK
  <2> SUFFICES ASSUME IInv PROVE TypeOK
    OBVIOUS
  <2>1. Types /\ EntriesInv /\ StageInv /\ DestInv /\ ExtractInv
    BY DEF IInv
  <2>2. /\ entries \in Seq(Entry) /\ DOMAIN entries = 1 .. Len(entries)
        /\ MaxSize \in Nat /\ Nodes = 1 .. Len(tree) /\ Len(tree) \in Nat \ {0} /\ at \in Nat
    BY <2>1, LenProperties, Basics DEF EntriesInv
  <2>3. ASSUME NEW k \in DOMAIN entries
        PROVE  /\ entries[k].node \in 1..at
               /\ entries[k].size \in 0..MaxSize /\ entries[k].data \in 0..entries[k].size
    <3>1. entries[k] \in Entry
      BY <2>2, ElementOfSeq
    <3>2. GoodEntry(entries[k])
      BY <2>1 DEF EntriesInv
    <3>3. /\ entries[k].node \in Nat \ {0} /\ entries[k].node <= at
          /\ entries[k].size \in 0..MaxSize /\ entries[k].data \in Nat
          /\ entries[k].data <= entries[k].size
      BY <2>2, <3>1, <3>2 DEF Entry, GoodEntry
    <3> QED
      BY <2>2, <3>3
  <2>4. /\ dest \in [Nodes -> [kind : Kinds \cup {"absent"}, data : 0..MaxSize, writable : BOOLEAN]]
        /\ upto \in 0..Len(entries)
    BY <2>1 DEF DestInv, ExtractInv
  <2>5. dropped \subseteq {"compressor", "short", "closed", "trailer", "directory", "file", "output"}
    BY <2>1 DEF Types, Lost
  <2> QED
    BY <2>1, <2>3, <2>4, <2>5, Zenon DEF Types, TypeOK
<1> QED
  BY <1>1, Invariance, PTL

\* What a client may rely on when it extracts: every node is there, in order.
LEMMA SoundEntries ==
  ASSUME IInv, SoundlyMade
  PROVE  /\ end = "whole"
         /\ \A k \in DOMAIN entries : entries[k].node \in Nodes /\ Exact(entries[k])
         /\ \A n \in Nodes : Covered(n)
         /\ DOMAIN entries = 1 .. Len(entries) /\ Len(entries) \in Nat
<1>1. Types /\ EntriesInv /\ StageInv /\ WalkInv
  BY DEF IInv
<1>2. /\ entries \in Seq(Entry) /\ Len(entries) \in Nat /\ DOMAIN entries = 1 .. Len(entries)
      /\ entries # <<>> <=> Len(entries) # 0
  BY <1>1, LenProperties, EmptySeq DEF EntriesInv
<1>3. Nodes = 1 .. Len(tree) /\ Len(tree) \in Nat \ {0}
  BY <1>1, Basics
<1>4. Walked
  BY <1>1 DEF WalkInv, Undamaged, SoundlyMade, Lost
<1>5. pc \notin {"walk", "copy"} /\ closers = <<>>
  BY <1>1 DEF SoundlyMade, StageInv
<1>6. at = Len(tree) + 1 /\ end = "whole" /\ (entries # <<>> => Exact(entries[Len(entries)]))
  BY <1>4, <1>5 DEF Walked
<1>7. \A n \in Nodes : n < at
  BY <1>3, <1>6
<1>8. \A n \in Nodes : Covered(n)
  BY <1>4, <1>7 DEF Walked
<1>9. \A k \in 1 .. Len(entries) : Exact(entries[k])
  <2>1. \A k \in 1 .. Len(entries) : k < Len(entries) => Exact(entries[k])
    BY <1>4, Zenon DEF Walked
  <2>2. Len(entries) # 0 => Exact(entries[Len(entries)])
    BY <1>2, <1>6
  <2>3. \A k \in 1 .. Len(entries) : (k < Len(entries) \/ k = Len(entries)) /\ Len(entries) # 0
    <3>1. Len(entries) \in Nat
      BY <1>2
    <3> QED
      BY <3>1
  <2> QED
    BY <2>1, <2>2, <2>3, Zenon
<1>10. \A k \in 1 .. Len(entries) : entries[k].node \in Nodes
  <2>1. \A k \in 1 .. Len(entries) : entries[k] \in Entry
    BY <1>2, ElementOfSeq
  <2> QED
    BY <2>1 DEF Entry
<1> QED
  BY <1>2, <1>6, <1>8, <1>9, <1>10

\* tar.go:326-361, zip.go:194-221: unless a deferred call dropped an error, an
\* archive reported as made has every node of the tree, also with files that changed
\* size between their attributes and their contents, whichever way it was compressed.
THEOREM SuccessMeansComplete == Spec => []SuccessIsComplete
<1>1. IInv => SuccessIsComplete
  <2> SUFFICES ASSUME IInv, SoundlyMade PROVE Complete
    BY DEF SuccessIsComplete
  <2>1. /\ end = "whole"
        /\ \A k \in DOMAIN entries : Exact(entries[k])
        /\ \A n \in Nodes : Covered(n)
    BY SoundEntries
  <2>2. ASSUME NEW n \in Nodes, ~(format.zip /\ tree[n].kind = "dir")
        PROVE  \E k \in DOMAIN entries :
                    /\ entries[k].node = n
                    /\ entries[k].data = size[n] /\ entries[k].size = size[n]
    <3>1. PICK k \in DOMAIN entries : entries[k].node = n
      BY <2>1, <2>2 DEF Covered, Skipped
    <3> QED
      BY <2>1, <3>1 DEF Exact
  <2> QED
    BY <2>1, <2>2 DEF Complete
<1> QED
  BY <1>1, Invariance, PTL

\* The destination after UnTar or UnZip, said from the archive's side: what the promise
\* and its exceptions come to.
Image(n) ==
    IF format.zip
    THEN CASE tree[n].kind # "dir" -> Made("file", size[n], TRUE)
           [] tree[n].kind = "dir" /\ Filled(n) -> Made("dir", 0, TRUE)
           [] OTHER -> Absent
    ELSE IF tree[n].kind \in {"dir", "file", "link"}
         THEN Made(tree[n].kind, size[n], tree[n].writable) ELSE Absent

\* Only files have contents, and only files change.
SizesInv == \A n \in Nodes : tree[n].kind # "file" => size[n] = 0

LEMMA SizesInvariant == Spec => []SizesInv
<1>1. Init => SizesInv
  BY DEF Init, SizesInv
<1>2. IInv /\ SizesInv /\ [Next]_vars => SizesInv'
  <2> SUFFICES ASSUME IInv, SizesInv, [Next]_vars PROVE SizesInv'
    OBVIOUS
  <2>1. Nodes' = Nodes /\ tree' = tree
    BY SourceUnchanged DEF Nodes, NodesOf
  <2>2. CASE Change
    <3>1. PICK s : size' = [size EXCEPT ![at] = s]
      BY <2>2 DEF Change
    <3>2. tree[at].kind = "file" /\ size \in [Nodes -> 0..MaxSize]
      BY <2>2 DEF Change, IInv, StageInv, Types
    <3> QED
      BY <2>1, <3>1, <3>2 DEF SizesInv
  <2>3. CASE ~Change
    <3>1. size' = size
      BY <2>3 DEF Next, Create, Visit, Copy, Close, Open, Extract, EndOfArchive, Done, vars
    <3> QED
      BY <2>1, <3>1 DEF SizesInv
  <2> QED
    BY <2>2, <2>3
<1> QED
  BY <1>1, <1>2, Invariance, PTL DEF Spec

LEMMA PromiseAndExceptions ==
  ASSUME Types, SizesInv, NEW n \in Nodes
  PROVE  (IF Unpreserved(n) THEN Replacement(n) ELSE Original(n)) = Image(n)
<1>1. format.zip \in BOOLEAN /\ tree[n].writable \in BOOLEAN /\ tree[n].kind \in Kinds
  BY Basics
<1>2. tree[n].kind = "dir" => size[n] = 0
  BY DEF SizesInv
<1>3. CASE ~format.zip
  BY <1>3 DEF Unpreserved, Replacement, Original, Image
<1>4. CASE format.zip /\ tree[n].kind # "dir"
  <2>1. Image(n) = Made("file", size[n], TRUE)
    BY <1>4 DEF Image
  <2>2. Replacement(n) = Made("file", size[n], TRUE)
    BY <1>4 DEF Replacement
  <2>3. ~Unpreserved(n) => Original(n) = Made("file", size[n], TRUE)
    BY <1>1, <1>4 DEF Unpreserved, Original
  <2> QED
    BY <2>1, <2>2, <2>3
<1>5. CASE format.zip /\ tree[n].kind = "dir" /\ Filled(n)
  <2>1. Image(n) = Made("dir", 0, TRUE)
    BY <1>5 DEF Image
  <2>2. Replacement(n) = Made("dir", 0, TRUE)
    BY <1>2, <1>5 DEF Replacement
  <2>3. ~Unpreserved(n) => Original(n) = Made("dir", 0, TRUE)
    BY <1>1, <1>2, <1>5 DEF Unpreserved, Original
  <2> QED
    BY <2>1, <2>2, <2>3
<1>6. CASE format.zip /\ tree[n].kind = "dir" /\ ~Filled(n)
  BY <1>6 DEF Unpreserved, Replacement, Image
<1> QED
  BY <1>3, <1>4, <1>5, <1>6

\* tar.go:53-95, zip.go:66-86: an extraction that returns no error, also over what is
\* left of another one, has reproduced the tree: contents, kinds and modes by UnTar,
\* the files and the directories above them by UnZip; where the code disagrees with
\* its comments (Unpreserved) it leaves nothing, or a writable file or directory.
THEOREM ExtractionReproduces == Spec => []RoundTrip
<1>1. IInv /\ SizesInv => RoundTrip
  <2>0. ASSUME IInv, SizesInv
        PROVE  \A n \in Nodes :
                    (IF Unpreserved(n) THEN Replacement(n) ELSE Original(n)) = Image(n)
    BY <2>0, PromiseAndExceptions DEF IInv
  <2> SUFFICES ASSUME IInv, SizesInv, SoundlyMade, outcome = "ok", NEW n \in Nodes
               PROVE  dest[n] = Image(n)
    BY <2>0 DEF RoundTrip
  <2>1. Types /\ EntriesInv /\ DestInv /\ ExtractInv
    BY DEF IInv
  <2>2. /\ \A k \in DOMAIN entries : entries[k].node \in Nodes /\ Exact(entries[k])
        /\ \A m \in Nodes : Covered(m)
        /\ DOMAIN entries = 1 .. Len(entries) /\ Len(entries) \in Nat
    BY SoundEntries
  <2>3. \A k \in DOMAIN entries :
            format.zip \/ tree[entries[k].node].kind # "fifo" =>
                Exists(entries[k].node) /\ dest[entries[k].node].data = entries[k].data
    BY <2>1, <2>2 DEF ExtractInv, SoundlyMade
  \* Every node that is not left out is there, with the contents it had.
  <2>4. ASSUME NEW m \in Nodes, ~Skipped(m), format.zip \/ tree[m].kind # "fifo"
        PROVE  Exists(m) /\ dest[m].data = size[m]
    <3>1. PICK k \in DOMAIN entries : entries[k].node = m
      BY <2>2, <2>4 DEF Covered
    <3> QED
      BY <2>2, <2>3, <2>4, <3>1 DEF Exact
  <2>5. /\ dest[n] \in [kind : Kinds \cup {"absent"}, data : 0..MaxSize, writable : BOOLEAN]
        /\ ~Exists(n) => dest[n] = Absent
        /\ Exists(n) =>
            /\ dest[n].kind = Kind(n) /\ dest[n].writable = Writable(n)
            /\ tree[n].kind # "file" => dest[n].data = 0
            /\ ~format.zip => tree[n].kind \notin {"fifo", "socket"}
            /\ format.zip /\ tree[n].kind = "dir" =>
                    \E m \in Nodes : n \in Above(m) /\ tree[m].kind # "dir"
    BY <2>1 DEF DestInv
  <2>6. format.zip \in BOOLEAN /\ tree[n].writable \in BOOLEAN /\ tree[n].kind \in Kinds
    BY <2>1, Basics
  <2>7. Exists(n) => dest[n] = Made(Kind(n), dest[n].data, Writable(n))
    BY <2>5 DEF Made
  <2>8. CASE ~format.zip /\ tree[n].kind \notin {"dir", "file", "link"}
    <3>1. ~Exists(n)
      BY <2>5, <2>6, <2>8 DEF Kinds
    <3> QED
      BY <2>5, <2>8, <3>1 DEF Image
  <2>9. CASE ~format.zip /\ tree[n].kind \in {"dir", "file", "link"}
    <3>1. Exists(n) /\ dest[n].data = size[n]
      BY <2>4, <2>9 DEF Skipped
    <3>2. Kind(n) = tree[n].kind /\ Writable(n) = tree[n].writable
      BY <2>6, <2>9, Zenon DEF Kind, Writable
    <3> QED
      BY <2>7, <2>9, <3>1, <3>2 DEF Image
  <2>10. CASE format.zip /\ tree[n].kind # "dir"
    <3>1. Exists(n) /\ dest[n].data = size[n]
      BY <2>4, <2>10 DEF Skipped
    <3>2. Kind(n) = "file" /\ Writable(n) = TRUE
      BY <2>10 DEF Kind, Writable
    <3>3. \A m \in Nodes : n \notin Above(m)
      BY <2>1, <2>10, AboveAreDirs
    <3> QED
      BY <2>7, <2>10, <3>1, <3>2, <3>3 DEF Image
  <2>11. CASE format.zip /\ tree[n].kind = "dir"
    <3>1. CASE \E m \in Nodes : n \in Above(m) /\ tree[m].kind # "dir"
      <4>1. PICK m \in Nodes : n \in Above(m) /\ tree[m].kind # "dir"
        BY <3>1
      <4>2. Exists(m)
        BY <2>4, <2>11, <4>1 DEF Skipped
      <4>3. Exists(n)
        BY <2>1, <2>11, <4>1, <4>2 DEF DestInv
      <4>4. dest[n].data = 0 /\ Kind(n) = "dir" /\ Writable(n) = TRUE
        BY <2>5, <2>11, <4>3 DEF Kind, Writable
      <4> QED
        BY <2>7, <2>11, <3>1, <4>3, <4>4 DEF Image, Filled
    <3>2. CASE ~\E m \in Nodes : n \in Above(m) /\ tree[m].kind # "dir"
      <4>1. dest[n] = Absent
        BY <2>5, <2>11, <3>2
      <4> QED
        BY <2>11, <3>2, <4>1 DEF Image, Filled
    <3> QED
      BY <3>1, <3>2
  <2> QED
    BY <2>6, <2>8, <2>9, <2>10, <2>11
<1> QED
  BY <1>1, Invariance, SizesInvariant, PTL
\* In tar every directory is in the archive before what is in it, so that it has
\* been extracted, with its mode, when they are.
LEMMA ParentsFirst ==
  ASSUME IInv, SoundlyMade, pc = "extract", ~format.zip, upto < Len(entries),
         ~Roomy(entries[upto + 1].node)
  PROVE  \E p \in Nodes : /\ ~tree[p].writable /\ tree[p].kind = "dir"
                          /\ tree[entries[upto + 1].node].parent = p
<1>0. Types /\ EntriesInv /\ StageInv /\ DestInv /\ ExtractInv
  BY DEF IInv
<1>1. upto \in 0 .. Len(entries) /\ outcome = "running"
  BY <1>0 DEF ExtractInv
<1> PICK n \in Nodes : n = entries[upto + 1].node
  BY <1>0, <1>1, NextEntry
<1>2. upto \in Nat /\ Len(entries) \in Nat /\ DOMAIN entries = 1 .. Len(entries)
      /\ upto + 1 \in 1 .. Len(entries)
  BY <1>0, <1>1, NextEntry, SoundEntries
<1>3. IsTree(tree) /\ Nodes = 1 .. Len(tree) /\ Len(tree) \in Nat \ {0}
      /\ tree[n].parent \in Nat /\ format.zip \in BOOLEAN
  BY <1>0, Basics
<1> DEFINE p == tree[n].parent
<1>4. p # 0 /\ ~dest[p].writable
  BY DEF Roomy
<1>5. p \in Nodes /\ p < n /\ tree[p].kind = "dir"
  <2>1. n \in 2 .. Len(tree)
    BY <1>3, <1>4 DEF IsTree
  <2>2. p \in 1 .. n - 1 /\ tree[p].kind = "dir"
    BY <1>3, <2>1 DEF IsTree
  <2> HIDE DEF p
  <2> QED
    BY <1>3, <2>1, <2>2
<1> HIDE DEF p
<1>6. PICK k \in 1 .. Len(entries) : entries[k].node = p
  <2>1. Covered(p)
    BY <1>5, SoundEntries
  <2> QED
    BY <1>2, <2>1 DEF Covered, Skipped
<1>7. k \in 1 .. upto
  <2>1. \A i, j \in 1 .. Len(entries) : i < j => entries[i].node < entries[j].node
    BY <1>0, <1>2, Zenon DEF EntriesInv, InOrder
  <2>2. ~(upto + 1 < k)
    <3>1. upto + 1 < k => n < p
      BY <1>2, <1>6, <2>1
    <3> QED
      BY <1>3, <1>5, <3>1
  <2>3. upto + 1 # k
    BY <1>3, <1>5, <1>6
  <2> QED
    BY <1>2, <2>2, <2>3
<1>8. Exists(p)
  BY <1>0, <1>1, <1>5, <1>6, <1>7 DEF ExtractInv
<1>9. ~tree[p].writable
  <2>1. dest[p].writable = Writable(p)
    BY <1>0, <1>5, <1>8 DEF DestInv
  <2> QED
    BY <1>4, <2>1, Zenon DEF Writable
<1> QED
  BY <1>5, <1>9 DEF p

\* tar.go:138-208: while the disk works, an archive of ours is refused only if an
\* option contradicts the extension, a link leads out of the tree, a directory
\* without write permission is to be filled, or links or files without write
\* permission are left from an earlier extraction.
THEOREM RefusalsAreJustified == Spec => []NoSpuriousRefusal
<1>1. Init => NoSpuriousRefusal
  BY DEF Init, NoSpuriousRefusal
<1>2. IInv /\ NoSpuriousRefusal /\ [Next]_vars => NoSpuriousRefusal'
  <2> SUFFICES ASSUME IInv, NoSpuriousRefusal, [Next]_vars PROVE NoSpuriousRefusal'
    OBVIOUS
  <2>0. /\ Types /\ StageInv /\ EntriesInv /\ WalkInv /\ DestInv /\ ExtractInv
        /\ tree' = tree /\ format' = format /\ Nodes' = Nodes
    BY SourceUnchanged DEF IInv, Nodes, NodesOf
  <2>1. CASE Create \/ Visit \/ Change \/ Copy \/ Close
    <3>1. pc \in {"start", "walk", "copy", "close"} /\ outcome' = outcome
      BY <2>1 DEF Create, Visit, Change, Copy, Close
    <3>2. outcome' = "none"
      BY <2>0, <3>1 DEF ExtractInv
    <3> QED
      BY <3>2 DEF NoSpuriousRefusal
  <2>2. CASE Open
    <3>1. SoundlyMade' => end' = "whole"
      <4>1. pc = "idle" /\ result = "ok" /\ dropped' = dropped \ {"output"} /\ end' = end
        BY <2>2 DEF Open, making
      <4>2. closers = <<>>
        BY <2>0, <4>1 DEF StageInv
      <4>3. SoundlyMade' => Undamaged
        BY <4>1 DEF SoundlyMade, Undamaged, Lost
      <4> QED
        BY <2>0, <4>1, <4>2, <4>3 DEF WalkInv, Walked
    <3>2. outcome' = "running" \/ (outcome' = "format" /\ ~Readable)
      BY <2>2 DEF Open
    <3>3. UNCHANGED <<end, compression>>
      BY <2>2 DEF Open, making
    <3> QED
      BY <2>0, <3>1, <3>2, <3>3 DEF NoSpuriousRefusal, Readable
  <2>3. CASE EndOfArchive
    <3>1. SoundlyMade' => SoundlyMade
      BY <2>3 DEF EndOfArchive, making, SoundlyMade
    <3>2. SoundlyMade => outcome' = "ok"
      BY <2>3, SoundEntries DEF EndOfArchive, Stop
    <3> QED
      BY <3>1, <3>2 DEF NoSpuriousRefusal
  <2>4. CASE Extract
    <3>1. SUFFICES ASSUME SoundlyMade'
                   PROVE  /\ outcome' # "format"
                          /\ outcome' = "link" => \E n \in Nodes : ~tree[n].inside
                          /\ outcome' = "exists" =>
                                attempts' > 1 /\ \E n \in Nodes : tree[n].kind = "link"
                          /\ outcome' = "denied" =>
                                \E n \in Nodes :
                                    /\ ~tree[n].writable
                                    /\ \/ tree[n].kind = "dir" /\ \E m \in Nodes : tree[m].parent = n
                                       \/ tree[n].kind = "file" /\ attempts' > 1
      BY <2>0 DEF NoSpuriousRefusal
    <3>2. /\ SoundlyMade /\ pc = "extract" /\ upto < Len(entries) /\ attempts' = attempts
      BY <2>4, <3>1 DEF Extract, making, SoundlyMade
    <3>3. /\ upto \in 0 .. Len(entries) /\ outcome = "running" /\ attempts # 0
          /\ attempts = 1 /\ ~format.zip =>
                \A m \in Nodes : Exists(m) => \E k \in 1 .. upto : entries[k].node = m
      BY <2>0, <3>2 DEF ExtractInv
    <3>4. PICK n \in Nodes : n = entries[upto + 1].node
      BY <2>0, <3>2, <3>3, NextEntry
    <3>5. /\ upto + 1 \in 1 .. Len(entries)
          /\ \A k \in 1 .. upto : entries[k].node # n
      BY <2>0, <3>2, <3>3, <3>4, NextEntry
    <3>6. entries[upto + 1].data = entries[upto + 1].size
      BY <3>2, <3>5, SoundEntries DEF Exact
    <3>7. outcome' \in {"running", "disk"} \/ (Verdict(n) # "ok" /\ outcome' = Verdict(n))
      <4>1. ~(entries[upto + 1].data < entries[upto + 1].size)
        <5>1. entries[upto + 1].data \in 0..MaxSize /\ MaxSize \in Nat
          BY <2>0, <3>2, <3>3, NextEntry, Basics
        <5> QED
          BY <3>6, <5>1
      <4> QED
        BY <2>4, <3>3, <3>4, <4>1 DEF Extract, Stop
    <3>8. ~format.zip /\ Exists(n) => attempts' > 1
      <4>1. attempts \in Nat
        BY <2>0, Basics DEF Types
      <4>2. ~format.zip /\ Exists(n) => attempts # 1
        BY <3>3, <3>5
      <4> QED
        BY <3>2, <3>3, <4>1, <4>2
    <3>9. ~format.zip /\ ~Roomy(n) =>
              \E p \in Nodes : /\ ~tree[p].writable /\ tree[p].kind = "dir"
                               /\ \E m \in Nodes : tree[m].parent = p
      BY <3>2, <3>4, ParentsFirst
    <3>10. CASE outcome' \in {"running", "disk"}
      BY <3>10
    <3>11. CASE Verdict(n) # "ok" /\ outcome' = Verdict(n)
      <4>1. ~format.zip
        BY <3>11 DEF Verdict
      <4>2. /\ Verdict(n) \in {"link", "exists", "denied"}
            /\ Verdict(n) = "link" => ~tree[n].inside
            /\ Verdict(n) = "exists" => tree[n].kind = "link" /\ Exists(n)
            /\ Verdict(n) = "denied" =>
                  \/ ~Roomy(n)
                  \/ tree[n].kind = "file" /\ Exists(n) /\ ~dest[n].writable
        BY <3>11, <4>1 DEF Verdict, MakeDir, OpenFile, Symlink
      <4>3. Exists(n) => dest[n].writable = tree[n].writable
        <5>1. Exists(n) => dest[n].writable = Writable(n)
          BY <2>0 DEF DestInv
        <5>2. tree[n].writable \in BOOLEAN
          BY <2>0, Basics
        <5> QED
          BY <4>1, <5>1, <5>2, Zenon DEF Writable
      <4>4. CASE Verdict(n) = "link"
        BY <3>11, <4>2, <4>4
      <4>5. CASE Verdict(n) = "exists"
        BY <3>8, <3>11, <4>1, <4>2, <4>5
      <4>6. CASE Verdict(n) = "denied" /\ ~Roomy(n)
        BY <3>9, <3>11, <4>1, <4>6
      <4>7. CASE Verdict(n) = "denied" /\ tree[n].kind = "file" /\ Exists(n) /\ ~dest[n].writable
        BY <3>8, <3>11, <4>1, <4>3, <4>7
      <4> QED
        BY <4>2, <4>4, <4>5, <4>6, <4>7
    <3> QED
      BY <3>7, <3>10, <3>11
  <2>5. CASE Done \/ UNCHANGED vars
    <3>1. UNCHANGED vars
      BY <2>5 DEF Done
    <3> QED
      BY <2>0, <3>1 DEF NoSpuriousRefusal, SoundlyMade, vars, making, source
  <2> QED
    BY <2>1, <2>2, <2>3, <2>4, <2>5 DEF Next
<1> QED
  BY <1>1, <1>2, Invariance, PTL DEF Spec
===============================================================================
