------------------------------ MODULE ConfigProofs ------------------------------
(***************************************************************************)
(* Theorems about Config, for every program, environment, command line and *)
(* list of flag sets: no argument is passed over (ParseInv), everything    *)
(* has its type (FieldsInv, ListsInv), and a field's value comes from one  *)
(* source alone (SaidInv).                                                 *)
(***************************************************************************)
EXTENDS Config, SequenceTheorems, WellFoundedInduction, TLAPS

-----------------------------------------------------------------------------
(* What has been parsed, and what is left. *)

SetNames == {"main", "own", "nil"}
Arguments == [name : STRING, text : Seq(Parts)]

\* How many of the sets have been parsed, and how many arguments the present one has read.
Done == Len(ToParse(input.call)) - Len(sets)
Read == Len(input.args) - Len(left)

\* The set has accepted every argument up to n, and none of them is a word.
Accepted(s, n) ==
  s # "nil" => \A k \in 1 .. n : ~IsWord(input.args[k]) /\ Accepts(s, input.args[k])

\* The set has accepted every argument before the first word.
Covered(s) == s # "nil" => \A k \in Flagged : Accepts(s, input.args[k])

\* The sets and arguments still to parse are the last ones of those given.
SetsAreLast ==
  /\ sets \in Seq(SetNames) /\ sets # <<>>
  /\ Len(sets) <= Len(ToParse(input.call))
  /\ \A j \in 1 .. Len(sets) : sets[j] = ToParse(input.call)[Done + j]

LeftIsLast ==
  /\ left \in Seq(Arguments)
  /\ Len(left) <= Len(input.args)
  /\ \A j \in 1 .. Len(left) : left[j] = input.args[Read + j]

\* The inductive invariant: while the arguments are parsed, the sets that are done have
\* accepted all that counts and the present one all it has read.
ParseInv ==
  /\ input \in Inputs
  /\ pc = "args" => /\ SetsAreLast /\ LeftIsLast
                    /\ \A i \in 1 .. Done : Covered(ToParse(input.call)[i])
                    /\ Accepted(Head(sets), Read)
  /\ pc \in {"set", "parsed"} =>
        \A i \in DOMAIN ToParse(input.call) : Covered(ToParse(input.call)[i])

-----------------------------------------------------------------------------
(* The inputs, and the lists that are consumed from the front. *)

LEMMA InputIsSequences ==
  ASSUME input \in Inputs
  PROVE  /\ input.args \in Seq(Arguments)
         /\ Len(input.args) \in Nat /\ DOMAIN input.args = 1 .. Len(input.args)
         /\ ToParse(input.call) \in Seq(SetNames)
         /\ Len(ToParse(input.call)) \in Nat \ {0}
         /\ DOMAIN ToParse(input.call) = 1 .. Len(ToParse(input.call))
<1>1. input.args \in Seq(Arguments) /\ input.call \in Seq(SetNames)
  BY ConfigAssumption DEF Arguments, SetNames
<1>2. ToParse(input.call) \in Seq(SetNames) /\ ToParse(input.call) # <<>>
  <2>1. CASE input.call = <<>>
    <3>1. <<"main">> \in Seq(SetNames) /\ <<"main">> # <<>>
      BY DEF SetNames
    <3> QED
      BY <2>1, <3>1 DEF ToParse
  <2>2. CASE input.call # <<>>
    BY <1>1, <2>2 DEF ToParse
  <2> QED
    BY <2>1, <2>2
<1> QED
  BY <1>1, <1>2, LenProperties, EmptySeq

\* Dropping the head of a list that is the end of another leaves the end of the other.
LEMMA TailIsLast ==
  ASSUME NEW S, NEW s \in Seq(S), NEW t \in Seq(S), s # <<>>, Len(s) <= Len(t),
         \A j \in 1 .. Len(s) : s[j] = t[Len(t) - Len(s) + j]
  PROVE  /\ Tail(s) \in Seq(S) /\ Len(Tail(s)) = Len(s) - 1
         /\ Len(s) \in Nat \ {0} /\ Len(t) \in Nat
         /\ \A j \in 1 .. Len(Tail(s)) : Tail(s)[j] = t[Len(t) - Len(Tail(s)) + j]
         /\ Head(s) = t[Len(t) - Len(s) + 1]
<1>1. Len(s) \in Nat \ {0} /\ Len(t) \in Nat
  BY LenProperties, EmptySeq
<1>2. /\ Tail(s) \in Seq(S) /\ Len(Tail(s)) = Len(s) - 1
      /\ \A j \in 1 .. Len(Tail(s)) : Tail(s)[j] = s[j + 1]
  BY HeadTailProperties
<1>3. Head(s) = s[1]
  OBVIOUS
<1>4. ASSUME NEW j \in 1 .. Len(Tail(s))
      PROVE  Tail(s)[j] = t[Len(t) - Len(Tail(s)) + j]
  <2>1. j + 1 \in 1 .. Len(s) /\ Len(t) - Len(s) + (j + 1) = Len(t) - Len(Tail(s)) + j
    BY <1>1, <1>2
  <2> QED
    BY <1>2, <2>1
<1> QED
  BY <1>1, <1>2, <1>3, <1>4

-----------------------------------------------------------------------------
(* Every step keeps the invariant. *)

LEMMA ParseStart ==
  ASSUME ParseInv, Parse
  PROVE  ParseInv'
<1>1. /\ input \in Inputs /\ input' = input /\ pc' = "args"
      /\ sets' = ToParse(input.call) /\ left' = input.args
  BY DEF ParseInv, Parse
<1>2. SetsAreLast' /\ Done' = 0
  <2> DEFINE t == ToParse(input.call)
  <2>1. t \in Seq(SetNames) /\ Len(t) \in Nat \ {0} /\ t # <<>>
    BY <1>1, InputIsSequences, EmptySeq
  <2>2. Done' = 0
    BY <1>1, <2>1 DEF Done
  <2> QED
    BY <1>1, <2>1, <2>2 DEF SetsAreLast
<1>3. LeftIsLast' /\ Read' = 0
  <2>1. Read' = 0
    BY <1>1, InputIsSequences DEF Read
  <2> QED
    BY <1>1, <2>1, InputIsSequences DEF LeftIsLast
<1> QED
  BY <1>1, <1>2, <1>3 DEF ParseInv, Accepted

\* What has been accepted stays so: neither the fields nor the arguments change any more.
LEMMA AcceptedStays ==
  ASSUME input' = input, fields' = fields
  PROVE  /\ Flagged' = Flagged
         /\ \A s, n : Accepted(s, n)' = Accepted(s, n)
         /\ \A s : Covered(s)' = Covered(s)
<1>1. Flagged' = Flagged
  BY DEF Flagged
<1>2. \A s, a : Accepts(s, a)' = Accepts(s, a)
  BY DEF Accepts
<1> QED
  BY <1>1, <1>2 DEF Accepted, Covered

LEMMA ParseArgStep ==
  ASSUME ParseInv, ParseArg
  PROVE  ParseInv'
<1>1. /\ pc = "args" /\ pc' = "args" /\ left # <<>> /\ left' = Tail(left)
      /\ ~IsWord(Head(left)) /\ Accepts(Head(sets), Head(left))
      /\ input' = input /\ fields' = fields /\ sets' = sets
  BY DEF ParseArg
<1>2. /\ input \in Inputs /\ SetsAreLast /\ LeftIsLast /\ Accepted(Head(sets), Read)
      /\ \A i \in 1 .. Done : Covered(ToParse(input.call)[i])
  BY <1>1 DEF ParseInv
<1>3. SetsAreLast' /\ Done' = Done
  BY <1>1, <1>2 DEF SetsAreLast, Done
<1>4. /\ LeftIsLast' /\ Read \in Nat /\ Read' = Read + 1
      /\ Head(left) = input.args[Read + 1]
  <2>1. input.args \in Seq(Arguments)
    BY <1>2, InputIsSequences
  <2>2. /\ left \in Seq(Arguments) /\ Len(left) <= Len(input.args)
        /\ \A j \in 1 .. Len(left) : left[j] = input.args[Len(input.args) - Len(left) + j]
    BY <1>2 DEF LeftIsLast, Read
  <2>3. /\ Tail(left) \in Seq(Arguments) /\ Len(Tail(left)) = Len(left) - 1
        /\ Len(left) \in Nat \ {0} /\ Len(input.args) \in Nat
        /\ \A j \in 1 .. Len(Tail(left)) :
                Tail(left)[j] = input.args[Len(input.args) - Len(Tail(left)) + j]
        /\ Head(left) = input.args[Len(input.args) - Len(left) + 1]
    BY <1>1, <2>1, <2>2, TailIsLast
  <2>4. Read' = Len(input.args) - Len(Tail(left))
    BY <1>1 DEF Read
  <2>5. LeftIsLast'
    BY <1>1, <2>2, <2>3, <2>4 DEF LeftIsLast
  <2> QED
    BY <2>2, <2>3, <2>4, <2>5 DEF Read
<1>5. Accepted(Head(sets), Read + 1)
  BY <1>1, <1>2, <1>4 DEF Accepted
<1>6. Accepted(Head(sets), Read)' /\ \A i \in 1 .. Done' : Covered(ToParse(input.call)[i])'
  <2>1. /\ \A s, n : Accepted(s, n)' = Accepted(s, n)
        /\ \A s : Covered(s)' = Covered(s)
    BY <1>1, AcceptedStays
  <2> QED
    BY <1>1, <1>2, <1>3, <1>4, <1>5, <2>1 DEF Accepted
<1> QED
  BY <1>1, <1>2, <1>3, <1>4, <1>6 DEF ParseInv
\* A set ends when it has read exactly the arguments that count: all of them, or those
\* before the first word.
LEMMA FlaggedAtEnd ==
  ASSUME input \in Inputs, LeftIsLast, Accepted(Head(sets), Read), Head(sets) # "nil",
         left # <<>> => IsWord(Head(left))
  PROVE  Read \in Nat /\ Read <= Len(input.args) /\ Flagged = 1 .. Read
<1>1. /\ input.args \in Seq(Arguments) /\ Len(input.args) \in Nat
      /\ DOMAIN input.args = 1 .. Len(input.args)
  BY InputIsSequences
<1>2. /\ left \in Seq(Arguments) /\ Len(left) <= Len(input.args) /\ Len(left) \in Nat
      /\ \A j \in 1 .. Len(left) : left[j] = input.args[Len(input.args) - Len(left) + j]
  BY LenProperties DEF LeftIsLast, Read
<1>3. Read \in Nat /\ Read <= Len(input.args)
  BY <1>1, <1>2 DEF Read
<1>4. \A k \in 1 .. Read : ~IsWord(input.args[k])
  BY DEF Accepted
<1>5. ASSUME NEW k \in 1 .. Read
      PROVE  k \in Flagged
  <2>1. k \in DOMAIN input.args
    BY <1>1, <1>3
  <2>2. \A w \in DOMAIN input.args : IsWord(input.args[w]) => k < w
    BY <1>1, <1>3, <1>4
  <2> QED
    BY <2>1, <2>2 DEF Flagged
<1>6. ASSUME NEW k \in Flagged
      PROVE  k \in 1 .. Read
  <2>1. k \in 1 .. Len(input.args)
    BY <1>1 DEF Flagged
  <2>2. CASE left = <<>>
    <3>1. Read = Len(input.args)
      BY <1>1, <2>2, EmptySeq DEF Read
    <3> QED
      BY <2>1, <3>1
  <2>3. CASE left # <<>>
    <3>1. /\ Len(left) \in Nat \ {0}
          /\ Head(left) = input.args[Len(input.args) - Len(left) + 1]
      BY <1>1, <1>2, <2>3, TailIsLast
    <3>2. Read + 1 \in DOMAIN input.args /\ IsWord(input.args[Read + 1])
      BY <1>1, <1>2, <2>3, <3>1 DEF Read
    <3>3. k < Read + 1
      BY <3>2 DEF Flagged
    <3> QED
      BY <1>3, <2>1, <3>3
  <2> QED
    BY <2>2, <2>3
<1> QED
  BY <1>3, <1>5, <1>6

\* So it has accepted all that counts.
LEMMA EndIsCovered ==
  ASSUME input \in Inputs, LeftIsLast, Accepted(Head(sets), Read),
         Head(sets) # "nil" /\ left # <<>> => IsWord(Head(left))
  PROVE  Covered(Head(sets))
BY FlaggedAtEnd DEF Accepted, Covered

LEMMA EndSetStep ==
  ASSUME ParseInv, EndSet
  PROVE  ParseInv'
<1> DEFINE t == ToParse(input.call)
<1>1. /\ pc = "args" /\ sets' = Tail(sets) /\ left' = input.args
      /\ pc' = IF Len(sets) = 1 THEN "set" ELSE "args"
      /\ Head(sets) # "nil" /\ left # <<>> => IsWord(Head(left))
      /\ input' = input /\ fields' = fields
  BY DEF EndSet
<1>2. /\ input \in Inputs /\ SetsAreLast /\ LeftIsLast /\ Accepted(Head(sets), Read)
      /\ \A i \in 1 .. Done : Covered(t[i])
  BY <1>1 DEF ParseInv
<1>3. t \in Seq(SetNames) /\ Len(t) \in Nat \ {0} /\ DOMAIN t = 1 .. Len(t)
  BY <1>2, InputIsSequences
<1>4. /\ Tail(sets) \in Seq(SetNames) /\ Len(Tail(sets)) = Len(sets) - 1
      /\ Len(sets) \in Nat \ {0} /\ Len(sets) <= Len(t)
      /\ \A j \in 1 .. Len(Tail(sets)) : Tail(sets)[j] = t[Len(t) - Len(Tail(sets)) + j]
      /\ Head(sets) = t[Len(t) - Len(sets) + 1]
  <2>1. /\ sets \in Seq(SetNames) /\ sets # <<>> /\ Len(sets) <= Len(t)
        /\ \A j \in 1 .. Len(sets) : sets[j] = t[Len(t) - Len(sets) + j]
    BY <1>2 DEF SetsAreLast, Done
  <2> HIDE DEF t
  <2> QED
    BY <1>3, <2>1, TailIsLast
<1>5. \A i \in 1 .. Done + 1 : Covered(t[i])
  <2>1. Covered(Head(sets))
    BY <1>1, <1>2, EndIsCovered
  <2>2. Done \in Nat /\ Head(sets) = t[Done + 1]
    BY <1>3, <1>4 DEF Done
  <2> QED
    BY <1>2, <2>1, <2>2
<1>6. \A s : Covered(s)' = Covered(s)
  BY <1>1, AcceptedStays
<1>7. t' = t
  BY <1>1
<1>8. CASE Len(sets) = 1
  <2>1. pc' = "set" /\ Done + 1 = Len(t)
    BY <1>1, <1>3, <1>8 DEF Done
  <2>2. \A i \in DOMAIN t : Covered(t[i])'
    BY <1>3, <1>5, <1>6, <1>7, <2>1
  <2> QED
    BY <1>1, <1>2, <1>7, <2>1, <2>2 DEF ParseInv
<1>9. CASE Len(sets) # 1
  <2>1. pc' = "args" /\ Done' = Done + 1 /\ Done' = Len(t) - Len(Tail(sets))
    BY <1>1, <1>3, <1>4, <1>9 DEF Done
  <2>2. Tail(sets) # <<>>
    <3>1. Len(<<>>) = 0
      OBVIOUS
    <3>2. Len(Tail(sets)) # 0
      BY <1>4, <1>9
    <3> QED
      BY <3>1, <3>2
  <2>3. SetsAreLast'
    <3>1. /\ sets' \in Seq(SetNames) /\ sets' # <<>> /\ Len(sets') <= Len(t)
          /\ \A j \in 1 .. Len(sets') : sets'[j] = t[Done' + j]
      <4> HIDE DEF t
      <4>1. Len(Tail(sets)) <= Len(t)
        BY <1>3, <1>4
      <4> QED
        BY <1>1, <1>4, <2>1, <2>2, <4>1
    <3> QED
      BY <1>7, <3>1 DEF SetsAreLast
  <2>4. LeftIsLast' /\ Read' = 0
    BY <1>1, <1>2, InputIsSequences DEF LeftIsLast, Read
  <2>5. Accepted(Head(sets), Read)'
    BY <2>4 DEF Accepted
  <2> QED
    BY <1>1, <1>2, <1>5, <1>6, <1>7, <2>1, <2>3, <2>4, <2>5 DEF ParseInv
<1> QED
  BY <1>8, <1>9

LEMMA SetValuesStep ==
  ASSUME ParseInv, SetValues
  PROVE  ParseInv'
<1>1. /\ pc = "set" /\ pc' = "parsed" /\ input' = input /\ fields' = fields
  BY DEF SetValues
<1>2. \A s : Covered(s)' = Covered(s)
  BY <1>1, AcceptedStays
<1> QED
  BY <1>1, <1>2 DEF ParseInv

\* Every step keeps the invariant, those that do nothing too.
LEMMA ParseInvKept ==
  ASSUME ParseInv, [Next]_vars
  PROVE  ParseInv'
<1>1. CASE Declare
  BY <1>1 DEF ParseInv, Declare
<1>2. CASE Parse
  BY <1>2, ParseStart
<1>3. CASE ParseArg
  BY <1>3, ParseArgStep
<1>4. CASE RejectArg
  BY <1>4 DEF ParseInv, RejectArg
<1>5. CASE EndSet
  BY <1>5, EndSetStep
<1>6. CASE SetValues
  BY <1>6, SetValuesStep
<1>7. CASE ParseAgain
  BY <1>7 DEF ParseInv, ParseAgain
<1>8. CASE Rest \/ UNCHANGED vars
  <2>1. UNCHANGED vars
    BY <1>8 DEF Rest
  <2>2. pc' = pc /\ input' = input /\ fields' = fields /\ sets' = sets /\ left' = left
    BY <2>1 DEF vars
  <2>3. /\ \A s, n : Accepted(s, n)' = Accepted(s, n)
        /\ \A s : Covered(s)' = Covered(s)
    BY <2>2, AcceptedStays
  <2> QED
    BY <2>2, <2>3 DEF ParseInv, SetsAreLast, LeftIsLast, Done, Read
<1> QED
  BY <1>1, <1>2, <1>3, <1>4, <1>5, <1>6, <1>7, <1>8 DEF Next

LEMMA ParseInvStarts ==
  ASSUME Init
  PROVE  ParseInv
BY DEF Init, ParseInv

-----------------------------------------------------------------------------
(* What it means for a parsed configuration. *)

LEMMA CoveredMeansNothingIgnored ==
  ASSUME ParseInv
  PROVE  NothingIgnored
<1> SUFFICES ASSUME pc = "parsed", NEW s \in {"main", "own"}, NEW k \in Flagged, Parsed(s)
             PROVE  LET a == input.args[k]
                    IN  /\ a.name \in DOMAIN fields
                        /\ fields[a.name].set = s
                        /\ \A j \in DOMAIN a.text :
                                Parses(fields[a.name].kind, a.text[j]) \/ a.text[j] = Blank
  BY DEF NothingIgnored
<1> DEFINE a == input.args[k]
<1>1. Accepts(s, a)
  BY DEF ParseInv, Parsed, Covered
<1>2. /\ a.name \in DOMAIN fields /\ fields[a.name].set = s
      /\ Valid(fields[a.name].kind, a)
  BY <1>1 DEF Accepts
<1>3. \A j \in DOMAIN a.text : Parses(fields[a.name].kind, a.text[j]) \/ a.text[j] = Blank
  BY <1>2 DEF Valid, Skips
<1> QED
  BY <1>2, <1>3

\* config.go:66-79: whatever is declared and wherever it is parsed, Parse succeeds only
\* if every argument before the first word was taken by a field of each set that was
\* parsed, with every element of its value.
THEOREM NoArgumentIsIgnored == Spec => []NothingIgnored
<1>1. Init => ParseInv
  BY ParseInvStarts
<1>2. ParseInv /\ [Next]_vars => ParseInv'
  BY ParseInvKept
<1>3. ParseInv => NothingIgnored
  BY CoveredMeansNothingIgnored
<1> QED
  BY <1>1, <1>2, <1>3, PTL DEF Spec

-----------------------------------------------------------------------------
(* Induction, and what concatenating a sequence of sequences makes of it. *)

LEMMA LeastExists ==
  ASSUME NEW S, S \subseteq Nat, S # {}
  PROVE  \E m \in S : \A k \in S : m <= k
<1>1. PICK m \in S : \A k \in S : ~ (<<k, m>> \in OpToRel(<, Nat))
  BY NatLessThanWellFounded, WFMin
<1>2. \A k \in S : ~ (k < m)
  BY <1>1 DEF OpToRel
<1>3. \A k \in S : m <= k
  BY <1>2
<1> QED
  BY <1>3

\* Induction over the naturals, for a set: a counterexample would have a least one.
LEMMA SetInduction ==
  ASSUME NEW S, 0 \in S, \A k \in Nat : k \in S => k + 1 \in S
  PROVE  \A k \in Nat : k \in S
<1> SUFFICES ASSUME NEW k0 \in Nat, k0 \notin S
             PROVE  FALSE
  OBVIOUS
<1> DEFINE T == {k \in Nat : k \notin S}
<1>1. PICK m \in T : \A k \in T : m <= k
  <2>1. T \subseteq Nat /\ T # {}
    OBVIOUS
  <2> HIDE DEF T
  <2> QED
    BY <2>1, LeastExists
<1>2. m \in Nat /\ m \notin S /\ m - 1 \in Nat
  OBVIOUS
<1>3. m - 1 \in S
  BY <1>1, <1>2
<1>4. (m - 1) + 1 \in S
  BY <1>2, <1>3
<1> QED
  BY <1>2, <1>4

\* The sequence of the sequences' concatenations up to each of them.
Flattens(f, ss) == f = [i \in 1 .. Len(ss) |-> IF i = 1 THEN ss[i] ELSE f[i - 1] \o ss[i]]

LEMMA FlattensExists ==
  ASSUME NEW S, NEW ss \in Seq(Seq(S))
  PROVE  \E f : Flattens(f, ss)
<1> DEFINE Eq(f, m) == f = [i \in 1 .. m |-> IF i = 1 THEN ss[i] ELSE f[i - 1] \o ss[i]]
           K == {m \in Nat : \E f : Eq(f, m)}
<1>1. 0 \in K
  <2> DEFINE f == [i \in 1 .. 0 |-> ss]
  <2>1. Eq(f, 0)
    OBVIOUS
  <2> QED
    BY <2>1
<1>2. ASSUME NEW m \in Nat, m \in K
      PROVE  m + 1 \in K
  <2>1. PICK f : Eq(f, m)
    BY <1>2
  <2> DEFINE g == [i \in 1 .. m + 1 |->
                      IF i <= m THEN f[i] ELSE IF i = 1 THEN ss[i] ELSE f[i - 1] \o ss[i]]
  <2>2. ASSUME NEW i \in 1 .. m + 1
        PROVE  g[i] = IF i = 1 THEN ss[i] ELSE g[i - 1] \o ss[i]
    <3>1. CASE i <= m
      <4>1. i \in 1 .. m /\ g[i] = f[i]
        BY <3>1
      <4>2. f[i] = IF i = 1 THEN ss[i] ELSE f[i - 1] \o ss[i]
        BY <2>1, <4>1
      <4>3. i # 1 => g[i - 1] = f[i - 1]
        BY <4>1
      <4> QED
        BY <4>1, <4>2, <4>3
    <3>2. CASE ~(i <= m)
      <4>1. i = m + 1 /\ g[i] = IF i = 1 THEN ss[i] ELSE f[i - 1] \o ss[i]
        BY <3>2
      <4>2. i # 1 => g[i - 1] = f[i - 1]
        BY <4>1
      <4> QED
        BY <4>1, <4>2
    <3> QED
      BY <3>1, <3>2
  <2>3. g = [i \in 1 .. m + 1 |-> g[i]]
    OBVIOUS
  <2> HIDE DEF g
  <2>4. Eq(g, m + 1)
    BY <2>2, <2>3
  <2> HIDE DEF Eq
  <2> QED
    BY <2>4
<1>3. \A m \in Nat : m \in K
  <2> HIDE DEF K
  <2> QED
    BY <1>1, <1>2, SetInduction
<1> QED
  BY <1>3, LenProperties DEF Flattens

LEMMA FlattensTypes ==
  ASSUME NEW S, NEW ss \in Seq(Seq(S)), NEW f, Flattens(f, ss)
  PROVE  \A i \in 1 .. Len(ss) : f[i] \in Seq(S)
<1> DEFINE n == Len(ss)
           K == {m \in Nat : m + 1 <= n => f[m + 1] \in Seq(S)}
<1>1. n \in Nat /\ \A i \in 1 .. n : ss[i] \in Seq(S)
  BY LenProperties, ElementOfSeq
<1>2. \A i \in 1 .. n : f[i] = IF i = 1 THEN ss[i] ELSE f[i - 1] \o ss[i]
  BY DEF Flattens
<1>3. 0 \in K
  BY <1>1, <1>2
<1>4. ASSUME NEW m \in Nat, m \in K
      PROVE  m + 1 \in K
  <2> SUFFICES ASSUME (m + 1) + 1 <= n
               PROVE  f[(m + 1) + 1] \in Seq(S)
    OBVIOUS
  <2>1. f[m + 1] \in Seq(S) /\ ss[(m + 1) + 1] \in Seq(S)
    BY <1>1, <1>4
  <2>2. f[(m + 1) + 1] = f[m + 1] \o ss[(m + 1) + 1]
    <3>1. (m + 1) + 1 \in 1 .. n /\ (m + 1) + 1 # 1 /\ ((m + 1) + 1) - 1 = m + 1
      BY <1>1
    <3> QED
      BY <1>2, <3>1
  <2> QED
    BY <2>1, <2>2, ConcatProperties
<1>5. \A m \in Nat : m \in K
  <2> HIDE DEF K
  <2> QED
    BY <1>3, <1>4, SetInduction
<1>6. ASSUME NEW i \in 1 .. n
      PROVE  f[i] \in Seq(S)
  <2>1. i - 1 \in Nat /\ (i - 1) + 1 = i /\ i <= n
    BY <1>1
  <2> QED
    BY <1>5, <2>1
<1> QED
  BY <1>6

LEMMA FlattenedUpTo ==
  ASSUME NEW S, NEW ss \in Seq(Seq(S)), ss # <<>>
  PROVE  \E f : Flattens(f, ss) /\ FlattenSeq(ss) = f[Len(ss)]
<1>1. PICK f : Flattens(f, ss)
  BY FlattensExists
<1>2. Len(ss) # 0
  BY EmptySeq
<1> QED
  BY <1>1, <1>2 DEF FlattenSeq, Flattens

LEMMA FlattenEmpty == FlattenSeq(<<>>) = <<>>
BY DEF FlattenSeq

LEMMA FlattenType ==
  ASSUME NEW S, NEW ss \in Seq(Seq(S))
  PROVE  FlattenSeq(ss) \in Seq(S)
<1>1. CASE ss = <<>>
  BY <1>1, FlattenEmpty, EmptySeq
<1>2. CASE ss # <<>>
  <2>1. PICK f : Flattens(f, ss) /\ FlattenSeq(ss) = f[Len(ss)]
    BY <1>2, FlattenedUpTo
  <2>2. Len(ss) \in 1 .. Len(ss)
    BY <1>2, EmptySeq
  <2> QED
    BY <2>1, <2>2, FlattensTypes
<1> QED
  BY <1>1, <1>2

\* One more sequence is concatenated to the others.
LEMMA FlattenAppend ==
  ASSUME NEW S, NEW ss \in Seq(Seq(S)), NEW t \in Seq(S)
  PROVE  FlattenSeq(Append(ss, t)) = FlattenSeq(ss) \o t
<1> DEFINE n == Len(ss)
           st == Append(ss, t)
<1>1. /\ n \in Nat /\ st \in Seq(Seq(S)) /\ Len(st) = n + 1 /\ st # <<>>
      /\ st[n + 1] = t /\ \A i \in 1 .. n : st[i] = ss[i]
  BY LenProperties, AppendProperties
<1> HIDE DEF st
<1>2. PICK g : Flattens(g, st) /\ FlattenSeq(st) = g[n + 1]
  BY <1>1, FlattenedUpTo
<1>3. \A i \in 1 .. n + 1 : g[i] = IF i = 1 THEN st[i] ELSE g[i - 1] \o st[i]
  BY <1>1, <1>2 DEF Flattens
<1>4. CASE n = 0
  <2>1. ss = <<>> /\ g[1] = t
    BY <1>1, <1>3, <1>4, EmptySeq
  <2> QED
    BY <1>2, <1>4, <2>1, FlattenEmpty, ConcatEmptySeq DEF st
<1>5. CASE n # 0
  <2>1. n \in Nat \ {0} /\ ss # <<>>
    BY <1>1, <1>5, EmptySeq
  <2>2. PICK f : Flattens(f, ss) /\ FlattenSeq(ss) = f[n]
    BY <2>1, FlattenedUpTo
  <2>3. \A i \in 1 .. n : f[i] = IF i = 1 THEN ss[i] ELSE f[i - 1] \o ss[i]
    BY <2>2 DEF Flattens
  <2> DEFINE K == {m \in Nat : m + 1 <= n => f[m + 1] = g[m + 1]}
  <2>4. 0 \in K
    BY <1>1, <1>3, <2>3
  <2>5. ASSUME NEW m \in Nat, m \in K
        PROVE  m + 1 \in K
    <3> SUFFICES ASSUME (m + 1) + 1 <= n
                 PROVE  f[(m + 1) + 1] = g[(m + 1) + 1]
      OBVIOUS
    <3>1. /\ (m + 1) + 1 \in 1 .. n /\ (m + 1) + 1 \in 1 .. n + 1
          /\ (m + 1) + 1 # 1 /\ ((m + 1) + 1) - 1 = m + 1
      BY <1>1
    <3>2. f[(m + 1) + 1] = f[m + 1] \o ss[(m + 1) + 1]
      BY <2>3, <3>1
    <3>3. g[(m + 1) + 1] = g[m + 1] \o ss[(m + 1) + 1]
      BY <1>1, <1>3, <3>1
    <3>4. f[m + 1] = g[m + 1]
      BY <2>5, <3>1
    <3> QED
      BY <3>2, <3>3, <3>4
  <2>6. \A m \in Nat : m \in K
    <3> HIDE DEF K
    <3> QED
      BY <2>4, <2>5, SetInduction
  <2>7. f[n] = g[n]
    <3>1. n - 1 \in Nat /\ (n - 1) + 1 = n
      BY <2>1
    <3>2. n - 1 \in K
      BY <2>6, <3>1
    <3>3. (n - 1) + 1 <= n => f[(n - 1) + 1] = g[(n - 1) + 1]
      BY <3>2
    <3> QED
      BY <1>1, <3>1, <3>3
  <2>8. g[n + 1] = g[n] \o t
    <3>1. n + 1 \in 1 .. n + 1 /\ n + 1 # 1 /\ (n + 1) - 1 = n
      BY <2>1
    <3> QED
      BY <1>1, <1>3, <3>1
  <2> QED
    BY <1>2, <2>2, <2>7, <2>8 DEF st
<1> QED
  BY <1>4, <1>5

\* The same of a sequence that is given by its elements.
LEMMA FlattenStep ==
  ASSUME NEW S, NEW n \in Nat, NEW ss \in [1 .. n + 1 -> Seq(S)],
         NEW rest \in [1 .. n -> Seq(S)], \A i \in 1 .. n : rest[i] = ss[i]
  PROVE  FlattenSeq(ss) = FlattenSeq(rest) \o ss[n + 1]
<1>1. rest \in Seq(Seq(S)) /\ Len(rest) = n
  BY SeqDef
<1>2. ss \in Seq(Seq(S)) /\ Len(ss) = n + 1
  BY SeqDef
<1>3. ss[n + 1] \in Seq(S)
  OBVIOUS
<1> DEFINE t == ss[n + 1]
<1> HIDE DEF t
<1>4. ss = Append(rest, t)
  <2>1. /\ Append(rest, t) \in Seq(Seq(S)) /\ Len(Append(rest, t)) = n + 1
        /\ Append(rest, t)[n + 1] = t /\ \A i \in 1 .. n : Append(rest, t)[i] = rest[i]
    BY <1>1, <1>3, AppendProperties DEF t
  <2>2. \A i \in 1 .. n + 1 : ss[i] = Append(rest, t)[i]
    BY <2>1 DEF t
  <2> QED
    BY <1>2, <2>1, <2>2, SeqEqual
<1> QED
  BY <1>1, <1>3, <1>4, FlattenAppend DEF t

-----------------------------------------------------------------------------
(* What is kept of a sequence, and the values that are made so. *)

LEMMA FcnIsSeq ==
  ASSUME NEW S, NEW n \in Nat, NEW f \in [1 .. n -> S]
  PROVE  f \in Seq(S) /\ Len(f) = n
BY SeqDef

LEMMA Singleton ==
  ASSUME NEW S, NEW e \in S
  PROVE  <<e>> \in Seq(S) /\ Len(<<e>>) = 1 /\ DOMAIN <<e>> = 1 .. 1 /\ <<e>>[1] = e
<1>1. <<e>> \in Seq(S) /\ Len(<<e>>) = 1
  OBVIOUS
<1> QED
  BY <1>1, LenProperties

\* Only the elements at the positions are kept.
LEMMA KeepType ==
  ASSUME NEW S, NEW s \in Seq(S), NEW K
  PROVE  Keep(s, K) \in Seq({s[i] : i \in K \cap DOMAIN s})
<1> DEFINE E == {s[i] : i \in K \cap DOMAIN s}
           ss == [i \in DOMAIN s |-> IF i \in K THEN <<s[i]>> ELSE <<>>]
<1>1. Len(s) \in Nat /\ DOMAIN s = 1 .. Len(s)
  BY LenProperties
<1>2. \A i \in DOMAIN s : (IF i \in K THEN <<s[i]>> ELSE <<>>) \in Seq(E)
  <2> SUFFICES ASSUME NEW i \in DOMAIN s
               PROVE  (IF i \in K THEN <<s[i]>> ELSE <<>>) \in Seq(E)
    OBVIOUS
  <2>1. CASE i \in K
    <3>1. s[i] \in E
      BY <2>1
    <3> HIDE DEF E
    <3> QED
      BY <2>1, <3>1
  <2>2. CASE i \notin K
    <3> HIDE DEF E
    <3> QED
      BY <2>2, EmptySeq
  <2> QED
    BY <2>1, <2>2
<1> HIDE DEF E
<1>3. ss \in [1 .. Len(s) -> Seq(E)]
  BY <1>1, <1>2
<1>4. ss \in Seq(Seq(E))
  BY <1>1, <1>3, SeqDef
<1> QED
  BY <1>4, FlattenType DEF Keep, E

\* All of them may be.
LEMMA KeepAll ==
  ASSUME NEW S, NEW s \in Seq(S), NEW K, DOMAIN s \subseteq K
  PROVE  Keep(s, K) = s
<1> DEFINE Ones(m) == [i \in 1 .. m |-> <<s[i]>>]
           T == {m \in Nat : m <= Len(s) => FlattenSeq(Ones(m)) = SubSeq(s, 1, m)}
<1>1. Len(s) \in Nat /\ DOMAIN s = 1 .. Len(s) /\ \A i \in 1 .. Len(s) : s[i] \in S
  BY LenProperties, ElementOfSeq
<1>2. Ones(0) = <<>>
  OBVIOUS
<1>3. \A m \in Nat : m <= Len(s) => Ones(m) \in [1 .. m -> Seq(S)]
  BY <1>1
<1>4. \A m \in Nat : \A i \in 1 .. m : Ones(m)[i] = <<s[i]>>
  OBVIOUS
<1>5. [i \in DOMAIN s |-> IF i \in K THEN <<s[i]>> ELSE <<>>] = Ones(Len(s))
  BY <1>1
<1> HIDE DEF Ones
<1>6. 0 \in T
  <2>1. SubSeq(s, 1, 0) = <<>>
    BY SubSeqEmpty
  <2>2. FlattenSeq(Ones(0)) = <<>>
    BY <1>2, FlattenEmpty
  <2> QED
    BY <2>1, <2>2
<1>7. ASSUME NEW m \in Nat, m \in T
      PROVE  m + 1 \in T
  <2> SUFFICES ASSUME m + 1 <= Len(s)
               PROVE  FlattenSeq(Ones(m + 1)) = SubSeq(s, 1, m + 1)
    OBVIOUS
  <2>1. FlattenSeq(Ones(m)) = SubSeq(s, 1, m)
    BY <1>1, <1>7
  <2>2. Ones(m + 1) \in [1 .. m + 1 -> Seq(S)] /\ Ones(m) \in [1 .. m -> Seq(S)]
    BY <1>1, <1>3
  <2>3. Ones(m + 1)[m + 1] = <<s[m + 1]>> /\ \A i \in 1 .. m : Ones(m)[i] = Ones(m + 1)[i]
    BY <1>4
  <2>4. FlattenSeq(Ones(m + 1)) = FlattenSeq(Ones(m)) \o Ones(m + 1)[m + 1]
    BY <2>2, <2>3, FlattenStep
  <2>5. SubSeq(s, 1, m + 1) = SubSeq(s, 1, m) \o <<s[m + 1]>>
    <3>1. 1 \in 1 .. Len(s) /\ m + 1 \in 1 .. Len(s) /\ (m + 1) - 1 = m
      BY <1>1
    <3>2. m + 1 \in 1 .. Len(s)
      BY <3>1
    <3> QED
      BY <3>1, <3>2, SubSeqRecursiveSecond
  <2> QED
    BY <2>1, <2>3, <2>4, <2>5
<1>8. \A m \in Nat : m \in T
  <2> HIDE DEF T
  <2> QED
    BY <1>6, <1>7, SetInduction
<1>9. FlattenSeq(Ones(Len(s))) = SubSeq(s, 1, Len(s))
  BY <1>1, <1>8
<1> QED
  BY <1>5, <1>9, SubSeqFull DEF Keep

LEMMA SeqOfNothing ==
  ASSUME NEW v \in Seq({})
  PROVE  v = <<>>
<1> SUFFICES ASSUME v # <<>>
             PROVE  FALSE
  OBVIOUS
<1>1. Len(v) \in Nat \ {0}
  BY EmptySeq
<1>2. 1 \in 1 .. Len(v)
  BY <1>1
<1>3. v[1] \in {}
  BY <1>2, ElementOfSeq
<1> QED
  BY <1>3

LEMMA ParsingMakesValue ==
  ASSUME NEW kind \in Arrays, NEW text \in Seq(Parts)
  PROVE  ValueOf(kind, Parsing(kind, text))
<1> DEFINE K == {i \in DOMAIN text : Parses(kind, text[i])}
           E == {text[i] : i \in K \cap DOMAIN text}
<1>1. Keep(text, K) \in Seq(E)
  BY KeepType
<1>2. \A e \in E : e \in Parts /\ Parses(kind, e)
  BY LenProperties
<1> DEFINE v == Keep(text, K)
<1> HIDE DEF E, v
<1>3. v \in Seq(Parts)
  BY <1>1, <1>2, SeqMonotonic DEF v
<1>4. \A i \in DOMAIN v : Parses(kind, v[i])
  BY <1>1, <1>2, LenProperties, ElementOfSeq DEF v
<1>5. kind \notin Scalars
  BY DEF Arrays, Scalars
<1> QED
  BY <1>3, <1>4, <1>5 DEF ValueOf, Parsing, v

\* A value parses as it stands.
LEMMA ParsingKeepsValue ==
  ASSUME NEW kind, NEW v, ValueOf(kind, v)
  PROVE  Parsing(kind, v) = v
<1>1. v \in Seq(Parts) /\ DOMAIN v \subseteq {i \in DOMAIN v : Parses(kind, v[i])}
  BY DEF ValueOf
<1> QED
  BY <1>1, KeepAll DEF Parsing

\* Of what does not parse nothing is left.
LEMMA ParsingNothing ==
  ASSUME NEW kind, NEW t \in Seq(Parts), \A i \in DOMAIN t : ~ Parses(kind, t[i])
  PROVE  Parsing(kind, t) = <<>>
<1> DEFINE K == {i \in DOMAIN t : Parses(kind, t[i])}
           E == {t[i] : i \in K \cap DOMAIN t}
<1>1. E = {}
  OBVIOUS
<1> HIDE DEF K
<1>2. Keep(t, K) \in Seq(E)
  BY KeepType
<1>3. Keep(t, K) = <<>>
  BY <1>1, <1>2, SeqOfNothing
<1> QED
  BY <1>3 DEF Parsing, K

LEMMA EmptyDoesNotParse ==
  ASSUME NEW kind \in {"int", "ints", "bool", "bools"}
  PROVE  ~ Parses(kind, Blank)
<1>1. Blank # "true" /\ Blank # "false"
  BY Zenon DEF Blank
<1>2. Blank \notin Numerals
  BY ConfigAssumption DEF ConfigAssumption
<1> QED
  BY <1>1, <1>2 DEF Parses

\* So of an empty default, split, numbers and booleans leave nothing.
LEMMA ParsingEmptyPart ==
  ASSUME NEW kind \in {"int", "ints", "bool", "bools"}
  PROVE  Parsing(kind, <<Blank>>) = <<>>
<1> DEFINE t == <<Blank>>
<1>1. t \in Seq(Parts) /\ DOMAIN t = 1 .. 1 /\ t[1] = Blank
  <2>1. Blank \in Parts
    BY ConfigAssumption DEF ConfigAssumption
  <2> QED
    BY <2>1, Singleton
<1> HIDE DEF t
<1>2. \A i \in DOMAIN t : t[i] = Blank
  BY <1>1
<1>3. Parsing(kind, t) = <<>>
  BY <1>1, <1>2, EmptyDoesNotParse, ParsingNothing
<1> QED
  BY <1>3 DEF t

LEMMA ConcatMakesValue ==
  ASSUME NEW kind \in Arrays, NEW v, NEW w, ValueOf(kind, v), ValueOf(kind, w)
  PROVE  ValueOf(kind, v \o w)
<1>1. /\ v \in Seq(Parts) /\ w \in Seq(Parts) /\ v \o w \in Seq(Parts)
      /\ Len(v) \in Nat /\ Len(w) \in Nat /\ Len(v \o w) = Len(v) + Len(w)
      /\ DOMAIN v = 1 .. Len(v) /\ DOMAIN w = 1 .. Len(w)
      /\ \A i \in 1 .. Len(v) + Len(w) :
            (v \o w)[i] = IF i <= Len(v) THEN v[i] ELSE w[i - Len(v)]
  BY LenProperties, ConcatProperties DEF ValueOf
<1> DEFINE vw == v \o w
<1>2. DOMAIN vw = 1 .. Len(vw)
  BY <1>1, LenProperties
<1>3. \A i \in 1 .. Len(v) : Parses(kind, v[i])
  BY <1>1 DEF ValueOf
<1>4. \A i \in 1 .. Len(w) : Parses(kind, w[i])
  BY <1>1 DEF ValueOf
<1>5. \A i \in 1 .. Len(v) + Len(w) : Parses(kind, vw[i])
  <2> SUFFICES ASSUME NEW i \in 1 .. Len(v) + Len(w)
               PROVE  Parses(kind, vw[i])
    OBVIOUS
  <2>1. CASE i <= Len(v)
    <3>1. i \in 1 .. Len(v) /\ vw[i] = v[i]
      BY <1>1, <2>1
    <3> QED
      BY <1>3, <3>1
  <2>2. CASE ~ (i <= Len(v))
    <3>1. i - Len(v) \in 1 .. Len(w) /\ vw[i] = w[i - Len(v)]
      BY <1>1, <2>2
    <3> QED
      BY <1>4, <3>1
  <2> QED
    BY <2>1, <2>2
<1>6. kind \notin Scalars
  BY DEF Arrays, Scalars
<1> HIDE DEF vw
<1>7. vw \in Seq(Parts) /\ \A i \in DOMAIN vw : Parses(kind, vw[i])
  BY <1>1, <1>2, <1>5 DEF vw
<1> QED
  BY <1>6, <1>7 DEF ValueOf, vw

-----------------------------------------------------------------------------
(* The declarations. *)

LEMMA SeqOfFields ==
  ASSUME NEW S, \A d \in S : IsField(d), NEW s \in Seq(S)
  PROVE  AreFields(s)
<1>1. Len(s) \in Nat /\ DOMAIN s = 1 .. Len(s) /\ s \in [1 .. Len(s) -> S]
  BY LenProperties
<1>2. s \in [1 .. Len(s) -> ToSet(s)]
  BY <1>1 DEF ToSet
<1>3. s \in Seq(ToSet(s))
  BY <1>1, <1>2, SeqDef
<1> QED
  BY <1>1, <1>3 DEF AreFields

LEMMA FieldsAreSeq ==
  ASSUME NEW s, AreFields(s)
  PROVE  /\ s \in Seq(ToSet(s)) /\ \A d \in ToSet(s) : IsField(d)
         /\ Len(s) \in Nat /\ DOMAIN s = 1 .. Len(s)
BY LenProperties DEF AreFields, ToSet

LEMMA FieldsConcat ==
  ASSUME NEW s, NEW t, AreFields(s), AreFields(t)
  PROVE  /\ AreFields(s \o t) /\ Len(s \o t) = Len(s) + Len(t)
         /\ \A i \in 1 .. Len(s) + Len(t) :
                (s \o t)[i] = IF i <= Len(s) THEN s[i] ELSE t[i - Len(s)]
<1> DEFINE S == ToSet(s) \cup ToSet(t)
<1>1. \A d \in S : IsField(d)
  BY FieldsAreSeq
<1>2. s \in Seq(ToSet(s)) /\ t \in Seq(ToSet(t))
  BY FieldsAreSeq
<1> HIDE DEF S
<1>3. s \in Seq(S) /\ t \in Seq(S)
  BY <1>2, SeqMonotonic DEF S
<1>4. /\ s \o t \in Seq(S) /\ Len(s \o t) = Len(s) + Len(t)
      /\ \A i \in 1 .. Len(s) + Len(t) :
             (s \o t)[i] = IF i <= Len(s) THEN s[i] ELSE t[i - Len(s)]
  BY <1>3, ConcatProperties
<1> QED
  BY <1>1, <1>4, SeqOfFields

LEMMA FieldsReverse ==
  ASSUME NEW s, AreFields(s)
  PROVE  AreFields(Reverse(s))
<1>1. /\ s \in Seq(ToSet(s)) /\ \A d \in ToSet(s) : IsField(d)
      /\ Len(s) \in Nat /\ DOMAIN s = 1 .. Len(s)
  BY FieldsAreSeq
<1>2. \A i \in 1 .. Len(s) : s[(Len(s) - i) + 1] \in ToSet(s)
  BY <1>1 DEF ToSet
<1>3. Reverse(s) \in [1 .. Len(s) -> ToSet(s)]
  BY <1>2 DEF Reverse
<1>4. Reverse(s) \in Seq(ToSet(s))
  BY <1>1, <1>3, SeqDef
<1> QED
  BY <1>1, <1>4, SeqOfFields

\* i is the position of the name's first declaration.
IsFirst(decls, n, i) ==
  /\ i \in DOMAIN decls /\ decls[i].name = n
  /\ \A j \in 1 .. i - 1 : decls[j].name # n

LEMMA FirstIs ==
  ASSUME NEW decls, AreFields(decls), NEW n, NEW i, IsFirst(decls, n, i)
  PROVE  First(decls, n) = decls[i]
<1>1. Len(decls) \in Nat /\ DOMAIN decls = 1 .. Len(decls)
  BY FieldsAreSeq
<1>2. \A k \in DOMAIN decls :
        (decls[k].name = n /\ \A j \in 1 .. k - 1 : decls[j].name # n) => k = i
  <2> SUFFICES ASSUME NEW k \in DOMAIN decls, decls[k].name = n,
                      \A j \in 1 .. k - 1 : decls[j].name # n, k # i
               PROVE  FALSE
    OBVIOUS
  <2>1. k \in 1 .. i - 1 \/ i \in 1 .. k - 1
    BY <1>1 DEF IsFirst
  <2> QED
    BY <2>1 DEF IsFirst
<1>3. i \in DOMAIN decls /\ decls[i].name = n /\ \A j \in 1 .. i - 1 : decls[j].name # n
  BY DEF IsFirst
<1> DEFINE c == CHOOSE k \in DOMAIN decls : /\ decls[k].name = n
                                            /\ \A j \in 1 .. k - 1 : decls[j].name # n
<1>4. c \in DOMAIN decls /\ decls[c].name = n /\ \A j \in 1 .. c - 1 : decls[j].name # n
  BY <1>3
<1> HIDE DEF c
<1>5. c = i
  BY <1>2, <1>4
<1> QED
  BY <1>5 DEF First, c

LEMMA FirstExists ==
  ASSUME NEW decls, AreFields(decls), NEW n \in Names(decls)
  PROVE  \E i : IsFirst(decls, n, i)
<1> DEFINE P == {i \in DOMAIN decls : decls[i].name = n}
<1>1. Len(decls) \in Nat /\ DOMAIN decls = 1 .. Len(decls)
  BY FieldsAreSeq
<1>2. P \subseteq Nat /\ P # {}
  BY <1>1 DEF Names
<1>3. PICK i \in P : \A k \in P : i <= k
  <2> HIDE DEF P
  <2> QED
    BY <1>2, LeastExists
<1>4. \A j \in 1 .. i - 1 : decls[j].name # n
  <2> SUFFICES ASSUME NEW j \in 1 .. i - 1, decls[j].name = n
               PROVE  FALSE
    OBVIOUS
  <2>1. j \in P /\ ~ (i <= j)
    BY <1>1
  <2> QED
    BY <1>3, <2>1
<1> QED
  BY <1>4 DEF IsFirst

LEMMA FirstIsField ==
  ASSUME NEW decls, AreFields(decls), NEW n \in Names(decls)
  PROVE  IsField(First(decls, n)) /\ First(decls, n).name = n
<1>1. PICK i : IsFirst(decls, n, i)
  BY FirstExists
<1> QED
  BY <1>1, FirstIs DEF AreFields, IsFirst

\* The fields that the first declarations make: adding some at the end is AddFields.
FieldsOf(fs, decls) ==
  DOMAIN fs = Names(decls) /\ \A n \in Names(decls) : fs[n] = First(decls, n)

LEMMA AddedFields ==
  ASSUME NEW fs, NEW s, NEW t, AreFields(s), AreFields(t), FieldsOf(fs, s)
  PROVE  FieldsOf(AddFields(fs, t), s \o t)
<1> DEFINE st == s \o t
<1>1. /\ Len(s) \in Nat /\ Len(t) \in Nat /\ DOMAIN s = 1 .. Len(s) /\ DOMAIN t = 1 .. Len(t)
      /\ AreFields(st) /\ Len(st) = Len(s) + Len(t) /\ DOMAIN st = 1 .. Len(s) + Len(t)
      /\ \A i \in 1 .. Len(s) + Len(t) : st[i] = IF i <= Len(s) THEN s[i] ELSE t[i - Len(s)]
  BY FieldsConcat, FieldsAreSeq
<1> HIDE DEF st
<1>2. \A i \in 1 .. Len(s) : i \in DOMAIN st /\ st[i] = s[i]
  BY <1>1
<1>3. \A i \in 1 .. Len(t) : Len(s) + i \in DOMAIN st /\ st[Len(s) + i] = t[i]
  <2> SUFFICES ASSUME NEW i \in 1 .. Len(t)
               PROVE  Len(s) + i \in DOMAIN st /\ st[Len(s) + i] = t[i]
    OBVIOUS
  <2>1. Len(s) + i \in 1 .. Len(s) + Len(t) /\ ~ (Len(s) + i <= Len(s)) /\ (Len(s) + i) - Len(s) = i
    BY <1>1
  <2> QED
    BY <1>1, <2>1
<1>4. Names(st) = Names(s) \cup Names(t)
  <2>1. Names(s) \subseteq Names(st)
    BY <1>1, <1>2 DEF Names
  <2>2. Names(t) \subseteq Names(st)
    BY <1>1, <1>3 DEF Names
  <2>3. ASSUME NEW i \in DOMAIN st
        PROVE  st[i].name \in Names(s) \cup Names(t)
    <3>1. CASE i <= Len(s)
      <4>1. i \in DOMAIN s /\ st[i] = s[i]
        BY <1>1, <3>1
      <4> QED
        BY <4>1 DEF Names
    <3>2. CASE ~ (i <= Len(s))
      <4>1. i - Len(s) \in DOMAIN t /\ st[i] = t[i - Len(s)]
        BY <1>1, <3>2
      <4> QED
        BY <4>1 DEF Names
    <3> QED
      BY <3>1, <3>2
  <2>4. Names(st) \subseteq Names(s) \cup Names(t)
    BY <2>3 DEF Names
  <2> QED
    BY <2>1, <2>2, <2>4
<1>5. ASSUME NEW n \in Names(s)
      PROVE  First(st, n) = First(s, n)
  <2>1. PICK i : IsFirst(s, n, i)
    BY FirstExists
  <2>2. IsFirst(st, n, i) /\ st[i] = s[i]
    <3>1. i \in 1 .. Len(s) /\ \A j \in 1 .. i - 1 : j \in 1 .. Len(s)
      BY <1>1, <2>1 DEF IsFirst
    <3> QED
      BY <1>2, <2>1, <3>1 DEF IsFirst
  <2>3. First(st, n) = st[i] /\ First(s, n) = s[i]
    BY <1>1, <2>1, <2>2, FirstIs
  <2> QED
    BY <2>2, <2>3
<1>6. ASSUME NEW n \in Names(t) \ Names(s)
      PROVE  First(st, n) = First(t, n)
  <2>1. PICK i : IsFirst(t, n, i)
    BY FirstExists
  <2>2. i \in 1 .. Len(t) /\ st[Len(s) + i] = t[i] /\ Len(s) + i \in DOMAIN st
    BY <1>1, <1>3, <2>1 DEF IsFirst
  <2>3. ASSUME NEW j \in 1 .. (Len(s) + i) - 1
        PROVE  st[j].name # n
    <3>1. CASE j <= Len(s)
      <4>1. j \in DOMAIN s /\ st[j] = s[j]
        BY <1>1, <1>2, <3>1
      <4> QED
        BY <1>6, <4>1 DEF Names
    <3>2. CASE ~ (j <= Len(s))
      <4>1. j - Len(s) \in 1 .. i - 1 /\ st[j] = t[j - Len(s)]
        BY <1>1, <2>2, <3>2
      <4> QED
        BY <2>1, <4>1 DEF IsFirst
    <3> QED
      BY <1>1, <3>1, <3>2
  <2>4. IsFirst(st, n, Len(s) + i)
    BY <2>1, <2>2, <2>3 DEF IsFirst
  <2>5. First(st, n) = st[Len(s) + i] /\ First(t, n) = t[i]
    BY <1>1, <2>1, <2>4, FirstIs
  <2> QED
    BY <2>2, <2>5
<1>7. /\ DOMAIN AddFields(fs, t) = Names(s) \cup Names(t)
      /\ \A n \in Names(s) \cup Names(t) :
             AddFields(fs, t)[n] = IF n \in Names(s) THEN First(s, n) ELSE First(t, n)
  BY DEF AddFields, FieldsOf
<1> QED
  BY <1>4, <1>5, <1>6, <1>7 DEF FieldsOf, st

LEMMA NewFields ==
  ASSUME NEW decls, AreFields(decls)
  PROVE  FieldsOf(NewConfig(decls), Reverse(decls)) /\ AreFields(Reverse(decls))
<1>1. AreFields(Reverse(decls))
  BY FieldsReverse
<1> DEFINE f == <<>>
<1>2. DOMAIN f = {}
  OBVIOUS
<1> HIDE DEF f
<1> QED
  BY <1>1, <1>2 DEF FieldsOf, NewConfig, AddFields, f

-----------------------------------------------------------------------------
(* Every call of the builder declares fields. *)

LEMMA FieldsByPosition ==
  ASSUME NEW m \in Nat, NEW f, DOMAIN f = 1 .. m, f = [i \in 1 .. m |-> f[i]],
         \A i \in 1 .. m : IsField(f[i])
  PROVE  AreFields(f)
<1> DEFINE S == {f[i] : i \in 1 .. m}
<1>1. f \in [1 .. m -> S]
  OBVIOUS
<1>2. \A d \in S : IsField(d)
  OBVIOUS
<1> HIDE DEF S
<1>3. f \in Seq(S)
  BY <1>1, SeqDef
<1> QED
  BY <1>2, <1>3, SeqOfFields

LEMMA NoFields == AreFields(<<>>)
<1>1. \A d \in {} : IsField(d)
  OBVIOUS
<1>2. <<>> \in Seq({})
  BY EmptySeq
<1> QED
  BY <1>1, <1>2, SeqOfFields

LEMMA FlattenFields ==
  ASSUME NEW n \in Nat, NEW ss, ss = [j \in 1 .. n |-> ss[j]],
         \A j \in 1 .. n : AreFields(ss[j])
  PROVE  AreFields(FlattenSeq(ss))
<1> DEFINE S == UNION {ToSet(ss[j]) : j \in 1 .. n}
<1>1. \A d \in S : IsField(d)
  BY FieldsAreSeq
<1>2. ASSUME NEW j \in 1 .. n
      PROVE  ss[j] \in Seq(S)
  <2>1. ss[j] \in Seq(ToSet(ss[j])) /\ ToSet(ss[j]) \subseteq S
    BY FieldsAreSeq
  <2> HIDE DEF S
  <2> QED
    BY <2>1, SeqMonotonic
<1> HIDE DEF S
<1>3. ss \in [1 .. n -> Seq(S)]
  BY <1>2
<1>4. ss \in Seq(Seq(S))
  BY <1>3, SeqDef
<1> QED
  BY <1>1, <1>4, FlattenType, SeqOfFields

LEMMA ClientFieldsAreFields ==
  ASSUME NEW a, NEW b
  PROVE  AreFields(<<Text(a, Blank), Number(b, "0")>>)
<1> DEFINE s == <<Text(a, Blank), Number(b, "0")>>
           t == <<Blank>>
           u == <<"0">>
<1>1. t \in Seq(Parts) /\ Len(t) = 1 /\ DOMAIN t = 1 .. 1 /\ t[1] = Blank
  <2>1. Blank \in Parts
    BY ConfigAssumption DEF ConfigAssumption
  <2> QED
    BY <2>1, Singleton
<1>2. u \in Seq(Parts) /\ Len(u) = 1 /\ DOMAIN u = 1 .. 1 /\ u[1] = "0"
  <2>1. "0" \in Parts
    BY ConfigAssumption DEF ConfigAssumption
  <2> QED
    BY <2>1, Singleton
<1> HIDE DEF t, u
<1>3. ValueOf("string", t)
  BY <1>1 DEF ValueOf, Parses
<1>4. ValueOf("int", u)
  <2>1. \A i \in DOMAIN u : Parses("int", u[i])
    BY <1>2, ConfigAssumption DEF ConfigAssumption, Parses
  <2> QED
    BY <1>2, <2>1 DEF ValueOf
<1>5. IsField(Text(a, Blank))
  BY <1>3 DEF IsField, Text, Field, Scalars, t
<1>6. IsField(Number(b, "0"))
  BY <1>4 DEF IsField, Number, Field, Scalars, u
<1> DEFINE x == Text(a, Blank)
           y == Number(b, "0")
<1> HIDE DEF x, y
<1>7. <<x, y>> \in Seq({x, y})
  OBVIOUS
<1> QED
  BY <1>5, <1>6, <1>7, SeqOfFields DEF x, y

LEMMA DefaultFieldsAreSeqs ==
  /\ DOMAIN DefaultFields = 1 .. 6
  /\ \A j \in 1 .. 6 : \E m \in Nat : DOMAIN DefaultFields[j].fields = 1 .. m
<1>1. DOMAIN DefaultFields = 1 .. 6
  BY DEF DefaultFields
<1>2. /\ DOMAIN DefaultFields[1].fields = 1 .. 2
      /\ DOMAIN DefaultFields[2].fields = 1 .. 3
      /\ DOMAIN DefaultFields[3].fields = 1 .. 2
      /\ DOMAIN DefaultFields[4].fields = 1 .. 6
      /\ DOMAIN DefaultFields[5].fields = 1 .. 2
      /\ DOMAIN DefaultFields[6].fields = 1 .. 1
  BY DEF DefaultFields
<1>3. ASSUME NEW j \in 1 .. 6
      PROVE  \E m \in Nat : DOMAIN DefaultFields[j].fields = 1 .. m
  <2>1. j = 1 \/ j = 2 \/ j = 3 \/ j = 4 \/ j = 5 \/ j = 6
    OBVIOUS
  <2> QED
    BY <1>2, <2>1
<1> QED
  BY <1>1, <1>3

LEMMA DeclaresFields ==
  ASSUME NEW c, IsCall(c)
  PROVE  AreFields(Declares(c))
<1>1. CASE c.call = "WithConfigFields" /\ AreFields(c.fields)
  BY <1>1 DEF Declares
<1>2. CASE /\ c.call = "WithDefaultConfigFields"
           /\ \A j \in DOMAIN DefaultFields : \A i \in DOMAIN DefaultFields[j].fields :
                 IsField(Overridden(c.overrides, DefaultFields[j].fields[i]))
  <2> DEFINE Of(g) == [i \in DOMAIN g.fields |-> Overridden(c.overrides, g.fields[i])]
             ss == [j \in DOMAIN DefaultFields |->
                      IF DefaultFields[j].bits \subseteq c.bits THEN Of(DefaultFields[j]) ELSE <<>>]
  <2>1. Declares(c) = FlattenSeq(ss)
    BY <1>2 DEF Declares, GroupFields
  <2>2. ASSUME NEW j \in 1 .. 6
        PROVE  AreFields(Of(DefaultFields[j]))
    <3>1. PICK m \in Nat : DOMAIN DefaultFields[j].fields = 1 .. m
      BY DefaultFieldsAreSeqs
    <3> DEFINE f == Of(DefaultFields[j])
    <3>2. /\ DOMAIN f = 1 .. m /\ f = [i \in 1 .. m |-> f[i]]
          /\ \A i \in 1 .. m : f[i] = Overridden(c.overrides, DefaultFields[j].fields[i])
      BY <3>1
    <3>3. \A i \in 1 .. m : IsField(Overridden(c.overrides, DefaultFields[j].fields[i]))
      BY <1>2, <3>1, DefaultFieldsAreSeqs
    <3> HIDE DEF f
    <3>4. \A i \in 1 .. m : IsField(f[i])
      BY <3>2, <3>3
    <3>5. AreFields(f)
      BY <3>2, <3>4, FieldsByPosition
    <3> QED
      BY <3>5 DEF f
  <2>3. /\ ss = [j \in 1 .. 6 |-> ss[j]]
        /\ \A j \in 1 .. 6 : ss[j] = Of(DefaultFields[j]) \/ ss[j] = <<>>
    BY DefaultFieldsAreSeqs
  <2> HIDE DEF ss, Of
  <2>4. \A j \in 1 .. 6 : AreFields(ss[j])
    BY <2>2, <2>3, NoFields
  <2> QED
    BY <2>1, <2>3, <2>4, FlattenFields
<1>3. CASE c.call = "WithServiceClients" /\ c.names \in Seq(ToSet(c.names))
  <2> DEFINE names == c.names
             ss == [i \in DOMAIN names |->
                      <<Text(names[i] \o "-host", Blank), Number(names[i] \o "-port", "0")>>]
  <2>1. Declares(c) = FlattenSeq(ss)
    BY <1>3 DEF Declares, ClientFields
  <2>2. Len(names) \in Nat /\ DOMAIN names = 1 .. Len(names)
    BY <1>3, LenProperties
  <2>3. \A i \in DOMAIN names :
          AreFields(<<Text(names[i] \o "-host", Blank), Number(names[i] \o "-port", "0")>>)
    BY ClientFieldsAreFields
  <2> HIDE DEF names
  <2>4. ss = [i \in 1 .. Len(names) |-> ss[i]] /\ \A i \in 1 .. Len(names) : AreFields(ss[i])
    BY <2>2, <2>3
  <2> HIDE DEF ss
  <2> QED
    BY <2>1, <2>2, <2>4, FlattenFields
<1> QED
  BY <1>1, <1>2, <1>3 DEF IsCall

-----------------------------------------------------------------------------
(* The types of fields, flags and values. *)

\* A declared field once it has read its variable.
Configured(d) == [d EXCEPT !.def = FromEnv(d.kind, Getenv(d.name), d.def)]

\* The fields are the first declarations, from Parse on with their variables read; what they
\* hold is of their kind.
FieldsInv ==
  /\ input \in Inputs
  /\ AreFields(declared)
  /\ pc = "build" => /\ FieldsOf(fields, declared)
                     /\ \E p \in Programs : program \in Seq(ToSet(p.calls))
  /\ pc # "build" => /\ DOMAIN fields = Names(declared)
                     /\ \A n \in Names(declared) : fields[n] = Configured(First(declared, n))
  /\ DOMAIN flags = IF pc = "build" THEN {} ELSE DOMAIN fields
  /\ \A n \in DOMAIN flags : ValueOf(fields[n].kind, flags[n])
  /\ DOMAIN values = DOMAIN fields
  /\ \A n \in DOMAIN values : ValueOf(fields[n].kind, values[n])

LEMMA GetenvIsText ==
  ASSUME input \in Inputs, NEW n
  PROVE  Getenv(n) \in Seq(Parts) \ {<<>>}
<1>1. /\ \A k \in DOMAIN input.env : input.env[k] \in Seq(Parts) \ {<<>>}
      /\ \A k \in DOMAIN input.dotenv : input.dotenv[k] \in Seq(Parts) \ {<<>>}
  BY ConfigAssumption DEF ConfigAssumption, Variables
<1>2. <<Blank>> \in Seq(Parts) /\ <<Blank>> # <<>>
  <2>1. Blank \in Parts
    BY ConfigAssumption DEF ConfigAssumption
  <2> QED
    BY <2>1, Singleton, EmptySeq
<1> QED
  BY <1>1, <1>2 DEF Getenv

LEMMA SplitIsText ==
  ASSUME NEW v \in Seq(Parts)
  PROVE  Split(v) \in Seq(Parts)
<1>1. Blank \in Parts
  BY ConfigAssumption DEF ConfigAssumption
<1>2. <<Blank>> \in Seq(Parts)
  BY <1>1, Singleton
<1> QED
  BY <1>2 DEF Split

LEMMA FromEnvMakesValue ==
  ASSUME NEW kind \in Scalars \cup Arrays, NEW text \in Seq(Parts),
         NEW fallback, ValueOf(kind, fallback)
  PROVE  ValueOf(kind, FromEnv(kind, text, fallback))
<1>1. CASE kind = "string"
  <2>1. \A part : Parses(kind, part)
    BY <1>1 DEF Parses
  <2>2. ValueOf(kind, text)
    BY <1>1, <2>1 DEF ValueOf, Scalars
  <2>3. FromEnv(kind, text, fallback) = fallback \/ FromEnv(kind, text, fallback) = text
    BY <1>1 DEF FromEnv, Arrays
  <2> QED
    BY <2>2, <2>3
<1>2. CASE kind \in {"int", "bool"}
  <2>1. Len(text) = 1 /\ Parses(kind, text[1]) => ValueOf(kind, text)
    <3> SUFFICES ASSUME Len(text) = 1, Parses(kind, text[1])
                 PROVE  ValueOf(kind, text)
      OBVIOUS
    <3>1. DOMAIN text = 1 .. 1
      BY LenProperties
    <3>2. \A i \in DOMAIN text : Parses(kind, text[i])
      BY <3>1
    <3> QED
      BY <3>2 DEF ValueOf
  <2>2. FromEnv(kind, text, fallback) = IF Len(text) = 1 /\ Parses(kind, text[1])
                                        THEN text ELSE fallback
    BY <1>2 DEF FromEnv, Arrays
  <2> QED
    BY <2>1, <2>2
<1>3. CASE kind \in Arrays
  <2>1. fallback \in Seq(Parts)
    BY DEF ValueOf
  <2> DEFINE t == IF text = <<Blank>> THEN Split(fallback) ELSE text
  <2>2. t \in Seq(Parts)
    BY <2>1, SplitIsText
  <2>3. FromEnv(kind, text, fallback) = Parsing(kind, t)
    BY <1>3 DEF FromEnv, Arrays
  <2> HIDE DEF t
  <2> QED
    BY <1>3, <2>2, <2>3, ParsingMakesValue
<1> QED
  BY <1>1, <1>2, <1>3 DEF Scalars

LEMMA ConfiguredIsField ==
  ASSUME input \in Inputs, NEW d, IsField(d)
  PROVE  /\ IsField(Configured(d)) /\ Configured(d).name = d.name
         /\ Configured(d).kind = d.kind /\ Configured(d).set = d.set
         /\ Configured(d).def = FromEnv(d.kind, Getenv(d.name), d.def)
<1> DEFINE v == FromEnv(d.kind, Getenv(d.name), d.def)
<1>1. ValueOf(d.kind, v)
  BY GetenvIsText, FromEnvMakesValue DEF IsField
<1> HIDE DEF v
<1>2. d = [name |-> d.name, kind |-> d.kind, def |-> d.def, set |-> d.set]
  BY DEF IsField, Field
<1>3. [d EXCEPT !.def = v] = Field(d.name, d.kind, v, d.set)
  BY <1>2 DEF Field
<1>4. IsField(Field(d.name, d.kind, v, d.set))
  BY <1>1 DEF IsField, Field
<1> QED
  BY <1>3, <1>4 DEF Configured, Field, v

\* In either phase a field is its declaration but for the default.
LEMMA FieldsAreDeclared ==
  ASSUME FieldsInv, NEW n \in DOMAIN fields
  PROVE  /\ n \in Names(declared) /\ IsField(First(declared, n))
         /\ fields[n].name = n /\ IsField(fields[n])
         /\ fields[n].kind = First(declared, n).kind
         /\ fields[n].set = First(declared, n).set
<1>1. n \in Names(declared)
  BY DEF FieldsInv, FieldsOf
<1>2. IsField(First(declared, n)) /\ First(declared, n).name = n
  BY <1>1, FirstIsField DEF FieldsInv
<1>3. CASE pc = "build"
  BY <1>1, <1>2, <1>3 DEF FieldsInv, FieldsOf
<1>4. CASE pc # "build"
  BY <1>1, <1>2, <1>4, ConfiguredIsField DEF FieldsInv
<1> QED
  BY <1>1, <1>2, <1>3, <1>4

LEMMA ZeroIsValue ==
  ASSUME NEW kind \in Scalars \cup Arrays
  PROVE  ValueOf(kind, Zero(kind))
<1>1. CASE kind \in Arrays
  <2>1. <<>> \in Seq(Parts) /\ Zero(kind) = <<>>
    BY <1>1, EmptySeq DEF Zero, Arrays
  <2>2. kind \notin Scalars
    BY <1>1 DEF Arrays, Scalars
  <2> QED
    BY <2>1, <2>2 DEF ValueOf
<1>2. CASE kind \in Scalars
  <2>1. PICK part \in Parts : Zero(kind) = <<part>> /\ Parses(kind, part)
    <3>1. /\ "0" \in Parts /\ "false" \in Parts /\ Blank \in Parts /\ "0" \in Numerals
      BY ConfigAssumption DEF ConfigAssumption
    <3>2. CASE kind = "string"
      BY <3>1, <3>2 DEF Zero, Parses, Arrays
    <3>3. CASE kind = "int"
      BY <3>1, <3>3 DEF Zero, Parses, Arrays
    <3>4. CASE kind = "bool"
      BY <3>1, <3>4 DEF Zero, Parses, Arrays
    <3> QED
      BY <1>2, <3>2, <3>3, <3>4 DEF Scalars
  <2> DEFINE v == <<part>>
  <2>2. v \in Seq(Parts) /\ Len(v) = 1 /\ DOMAIN v = 1 .. 1 /\ v[1] = part
    BY Singleton
  <2> HIDE DEF v
  <2>3. ValueOf(kind, v)
    BY <2>1, <2>2 DEF ValueOf
  <2> QED
    BY <2>1, <2>3 DEF v
<1> QED
  BY <1>1, <1>2

LEMMA FieldsStart ==
  ASSUME Init
  PROVE  FieldsInv
<1>1. PICK p \in Programs : /\ fields = NewConfig(p.new)
                            /\ declared = Reverse(p.new)
                            /\ program = p.calls
  BY DEF Init
<1>2. AreFields(p.new) /\ p.calls \in Seq(ToSet(p.calls))
  BY ConfigAssumption DEF ConfigAssumption
<1>3. FieldsOf(fields, declared) /\ AreFields(declared)
  BY <1>1, <1>2, NewFields
<1>4. input \in Inputs /\ pc = "build" /\ flags = <<>>
      /\ values = [n \in DOMAIN fields |-> Zero(fields[n].kind)]
  BY DEF Init
<1>5. \A n \in DOMAIN fields : fields[n].kind \in Scalars \cup Arrays
  BY <1>3, FirstIsField DEF FieldsOf, IsField
<1>6. DOMAIN flags = {}
  BY <1>4
<1>7. program \in Seq(ToSet(p.calls))
  BY <1>1, <1>2
<1> QED
  BY <1>3, <1>4, <1>5, <1>6, <1>7, ZeroIsValue DEF FieldsInv

LEMMA DeclareKeepsFields ==
  ASSUME FieldsInv, Declare
  PROVE  FieldsInv'
<1> DEFINE decls == Declares(Head(program))
<1>1. /\ pc = "build" /\ program # <<>> /\ pc' = pc /\ input' = input /\ flags' = flags
      /\ fields' = AddFields(fields, decls) /\ declared' = declared \o decls
      /\ values' = [n \in DOMAIN fields' |-> Zero(fields'[n].kind)]
      /\ program' = Tail(program)
  BY DEF Declare
<1>2. /\ FieldsOf(fields, declared) /\ AreFields(declared) /\ input \in Inputs
      /\ DOMAIN flags = {}
  BY <1>1 DEF FieldsInv
<1>3. PICK p \in Programs : program \in Seq(ToSet(p.calls))
  BY <1>1 DEF FieldsInv
<1>4. Head(program) \in ToSet(p.calls) /\ Tail(program) \in Seq(ToSet(p.calls))
  BY <1>1, <1>3, HeadTailProperties
<1>5. AreFields(decls)
  BY <1>4, ConfigAssumption, DeclaresFields DEF ConfigAssumption, ToSet
<1> HIDE DEF decls
<1>6. FieldsOf(fields', declared') /\ AreFields(declared')
  BY <1>1, <1>2, <1>5, AddedFields, FieldsConcat
<1>7. \A n \in DOMAIN fields' : fields'[n].kind \in Scalars \cup Arrays
  BY <1>6, FirstIsField DEF FieldsOf, IsField
<1>8. FieldsOf(fields, declared)'
  BY <1>6 DEF FieldsOf
<1>9. \A n \in DOMAIN values' : ValueOf(fields'[n].kind, values'[n])
  BY <1>1, <1>7, ZeroIsValue
<1>10. DOMAIN values' = DOMAIN fields'
  BY <1>1
<1>11. program' \in Seq(ToSet(p.calls))
  BY <1>1, <1>4
<1> QED
  BY <1>1, <1>2, <1>6, <1>8, <1>9, <1>10, <1>11 DEF FieldsInv

-----------------------------------------------------------------------------
(* Fields, flags and values keep their types. *)

LEMMA ParseMakesFlags ==
  ASSUME FieldsInv, Parse
  PROVE  FieldsInv'
<1>1. /\ pc = "build" /\ pc' = "args" /\ input' = input /\ declared' = declared /\ values' = values
      /\ fields' = [n \in DOMAIN fields |->
                      [fields[n] EXCEPT !.def = FromEnv(fields[n].kind, Getenv(n), fields[n].def)]]
      /\ flags' = [n \in DOMAIN fields |-> FlagDefault(fields'[n])]
  BY DEF Parse, Configure
<1>2. /\ DOMAIN fields = Names(declared) /\ AreFields(declared) /\ input \in Inputs
      /\ \A n \in Names(declared) : fields[n] = First(declared, n)
      /\ DOMAIN values = DOMAIN fields /\ \A n \in DOMAIN values : ValueOf(fields[n].kind, values[n])
  BY <1>1 DEF FieldsInv, FieldsOf
<1>3. ASSUME NEW n \in Names(declared)
      PROVE  /\ fields'[n] = Configured(First(declared, n)) /\ IsField(fields'[n])
             /\ fields'[n].kind = fields[n].kind
  <2>1. IsField(First(declared, n)) /\ First(declared, n).name = n
    BY <1>2, FirstIsField
  <2>2. fields'[n] = Configured(First(declared, n))
    BY <1>1, <1>2, <2>1 DEF Configured
  <2> QED
    BY <1>2, <2>1, <2>2, ConfiguredIsField
<1>4. \A d : Configured(d)' = Configured(d)
  BY <1>1 DEF Configured, Getenv
<1>5. \A n \in DOMAIN flags' : ValueOf(fields'[n].kind, flags'[n])
  <2> SUFFICES ASSUME NEW n \in Names(declared)
               PROVE  ValueOf(fields'[n].kind, flags'[n])
    BY <1>1, <1>2
  <2>1. IsField(fields'[n]) /\ flags'[n] = FlagDefault(fields'[n])
    BY <1>1, <1>2, <1>3
  <2>2. CASE fields'[n].kind \in Arrays
    <3>1. flags'[n] = <<>> /\ <<>> \in Seq(Parts) /\ fields'[n].kind \notin Scalars
      BY <2>1, <2>2, EmptySeq DEF FlagDefault, Arrays, Scalars
    <3>2. DOMAIN flags'[n] = {}
      BY <3>1
    <3> QED
      BY <3>1, <3>2 DEF ValueOf
  <2>3. CASE fields'[n].kind \notin Arrays
    BY <2>1, <2>3 DEF FlagDefault, IsField
  <2> QED
    BY <2>2, <2>3
<1>6. DOMAIN fields' = Names(declared) /\ DOMAIN flags' = DOMAIN fields'
  BY <1>1, <1>2
<1>7. \A n \in DOMAIN values' : ValueOf(fields'[n].kind, values'[n])
  BY <1>1, <1>2, <1>3
<1> QED
  BY <1>1, <1>2, <1>3, <1>4, <1>5, <1>6, <1>7 DEF FieldsInv

\* What a field takes from an argument that is valid for it is of its kind.
LEMMA TakenIsValue ==
  ASSUME NEW kind \in Scalars \cup Arrays, NEW a, a.text \in Seq(Parts), Valid(kind, a)
  PROVE  ValueOf(kind, Taken(kind, a))
<1>1. CASE Bare(a)
  <2> DEFINE v == <<"true">>
  <2>1. v \in Seq(Parts) /\ Len(v) = 1 /\ DOMAIN v = 1 .. 1 /\ v[1] = "true"
    <3>1. "true" \in Parts
      BY ConfigAssumption DEF ConfigAssumption
    <3> QED
      BY <3>1, Singleton
  <2> HIDE DEF v
  <2>2. kind = "bool" /\ Taken(kind, a) = v
    BY <1>1 DEF Valid, Taken, v
  <2>3. Parses("bool", "true")
    BY DEF Parses
  <2>4. \A i \in DOMAIN v : Parses(kind, v[i])
    BY <2>1, <2>2, <2>3
  <2>5. ValueOf(kind, v)
    BY <2>1, <2>4 DEF ValueOf
  <2> QED
    BY <2>2, <2>5
<1>2. CASE ~ Bare(a) /\ kind \in Arrays
  <2> DEFINE text == a.text
             K == {i \in DOMAIN text : ~ Skips(kind, text, text[i])}
             E == {text[i] : i \in K \cap DOMAIN text}
  <2>1. Taken(kind, a) = Keep(text, K)
    BY <1>2 DEF Taken, Elements
  <2>2. \A e \in E : e \in Parts /\ Parses(kind, e)
    <3>1. \A i \in K : Parses(kind, text[i]) /\ text[i] \in Parts
      BY LenProperties DEF Valid
    <3> QED
      BY <3>1
  <2>3. Keep(text, K) \in Seq(E)
    BY KeepType
  <2> DEFINE v == Keep(text, K)
  <2> HIDE DEF E, v
  <2>4. v \in Seq(Parts)
    BY <2>2, <2>3, SeqMonotonic DEF v
  <2>5. \A i \in DOMAIN v : Parses(kind, v[i])
    BY <2>2, <2>3, LenProperties, ElementOfSeq DEF v
  <2>6. kind \notin Scalars
    BY <1>2 DEF Arrays, Scalars
  <2> QED
    BY <2>1, <2>4, <2>5, <2>6 DEF ValueOf, v
<1>3. CASE ~ Bare(a) /\ kind \notin Arrays
  <2>1. Taken(kind, a) = a.text /\ kind \in Scalars
    BY <1>3 DEF Taken
  <2>2. \A i \in DOMAIN a.text : Parses(kind, a.text[i])
    BY <1>3 DEF Valid, Skips
  <2>3. kind \in Scalars \ {"string"} => Len(a.text) = 1
    BY <1>3 DEF Valid, Scalars
  <2> QED
    BY <2>1, <2>2, <2>3 DEF ValueOf
<1> QED
  BY <1>1, <1>2, <1>3

\* The argument that is read is one of those given.
LEMMA HeadIsArgument ==
  ASSUME ParseInv, ParseArg
  PROVE  /\ Head(left) \in Arguments /\ Read + 1 \in DOMAIN input.args
         /\ Head(left) = input.args[Read + 1] /\ Read \in Nat
<1>1. input \in Inputs /\ LeftIsLast /\ left # <<>>
  BY DEF ParseInv, ParseArg
<1>2. /\ input.args \in Seq(Arguments) /\ Len(input.args) \in Nat
      /\ DOMAIN input.args = 1 .. Len(input.args)
  BY <1>1, InputIsSequences
<1>3. /\ left \in Seq(Arguments) /\ Len(left) <= Len(input.args)
      /\ \A j \in 1 .. Len(left) : left[j] = input.args[Len(input.args) - Len(left) + j]
  BY <1>1 DEF LeftIsLast, Read
<1>4. /\ Len(left) \in Nat \ {0}
      /\ Head(left) = input.args[Len(input.args) - Len(left) + 1]
  BY <1>1, <1>2, <1>3, TailIsLast
<1>5. Head(left) \in Arguments
  BY <1>1, <1>3, HeadTailProperties
<1> QED
  BY <1>2, <1>3, <1>4, <1>5 DEF Read

LEMMA ParseArgKeepsFields ==
  ASSUME FieldsInv, ParseInv, ParseArg
  PROVE  FieldsInv'
<1> DEFINE a == Head(left)
           kind == fields[a.name].kind
<1>1. /\ pc = "args" /\ pc' = pc /\ input' = input /\ fields' = fields /\ declared' = declared
      /\ values' = values /\ Accepts(Head(sets), a)
      /\ flags' = [flags EXCEPT ![a.name] =
                      IF kind \in Arrays THEN @ \o Taken(kind, a) ELSE Taken(kind, a)]
  BY DEF ParseArg
<1>2. a.text \in Seq(Parts)
  BY HeadIsArgument DEF Arguments
<1> HIDE DEF a
<1>3. a.name \in DOMAIN fields /\ Valid(kind, a) /\ kind \in Scalars \cup Arrays
  BY <1>1, FieldsAreDeclared DEF Accepts, IsField
<1>4. ValueOf(kind, Taken(kind, a))
  BY <1>2, <1>3, TakenIsValue
<1>5. DOMAIN flags = DOMAIN fields /\ \A n \in DOMAIN fields : ValueOf(fields[n].kind, flags[n])
  BY <1>1 DEF FieldsInv
<1>6. ASSUME NEW n \in DOMAIN fields
      PROVE  ValueOf(fields[n].kind, flags'[n])
  <2>1. CASE n # a.name
    BY <1>1, <1>5, <2>1
  <2>2. CASE n = a.name /\ kind \in Arrays
    <3>1. flags'[n] = flags[n] \o Taken(kind, a)
      BY <1>1, <1>5, <2>2
    <3>2. ValueOf(kind, flags[n])
      BY <1>5, <2>2
    <3> HIDE DEF kind
    <3>3. ValueOf(kind, flags[n] \o Taken(kind, a))
      BY <1>4, <2>2, <3>2, ConcatMakesValue
    <3> QED
      BY <2>2, <3>1, <3>3 DEF kind
  <2>3. CASE n = a.name /\ kind \notin Arrays
    BY <1>1, <1>4, <1>5, <2>3
  <2> QED
    BY <2>1, <2>2, <2>3
<1>7. \A d : Configured(d)' = Configured(d)
  BY <1>1 DEF Configured, Getenv
<1>8. DOMAIN flags' = DOMAIN fields
  BY <1>1, <1>5
<1> QED
  BY <1>1, <1>6, <1>7, <1>8 DEF FieldsInv

LEMMA SetValuesKeepsFields ==
  ASSUME FieldsInv, SetValues
  PROVE  FieldsInv'
<1>1. /\ pc = "set" /\ pc' = "parsed" /\ input' = input /\ fields' = fields
      /\ declared' = declared /\ flags' = flags
      /\ values' = [n \in DOMAIN fields |-> Final(fields[n], flags[n])]
  BY DEF SetValues
<1>2. ASSUME NEW n \in DOMAIN fields
      PROVE  ValueOf(fields[n].kind, values'[n])
  <2>1. ValueOf(fields[n].kind, flags[n])
    BY <1>1 DEF FieldsInv
  <2>2. ValueOf(fields[n].kind, fields[n].def)
    BY FieldsAreDeclared DEF IsField
  <2> QED
    BY <1>1, <2>1, <2>2 DEF Final
<1>3. \A d : Configured(d)' = Configured(d)
  BY <1>1 DEF Configured, Getenv
<1> QED
  BY <1>1, <1>2, <1>3 DEF FieldsInv

\* The other steps touch none of it.
LEMMA FieldsUnchanged ==
  ASSUME FieldsInv, input' = input, fields' = fields, declared' = declared, flags' = flags,
         values' = values, program' = program, pc' = "build" <=> pc = "build"
  PROVE  FieldsInv'
<1>1. \A d : Configured(d)' = Configured(d)
  BY DEF Configured, Getenv
<1>2. (pc' = "build" => FieldsOf(fields', declared'))
  BY DEF FieldsInv
<1> QED
  BY <1>1, <1>2 DEF FieldsInv, FieldsOf

LEMMA FieldsKept ==
  ASSUME FieldsInv, ParseInv, [Next]_vars
  PROVE  FieldsInv'
<1>1. CASE Declare
  BY <1>1, DeclareKeepsFields
<1>2. CASE Parse
  BY <1>2, ParseMakesFlags
<1>3. CASE ParseArg
  BY <1>3, ParseArgKeepsFields
<1>4. CASE RejectArg \/ EndSet \/ ParseAgain
  <2>1. /\ input' = input /\ fields' = fields /\ declared' = declared /\ flags' = flags
        /\ values' = values /\ program' = program /\ pc # "build" /\ pc' # "build"
    BY <1>4 DEF RejectArg, EndSet, ParseAgain
  <2> QED
    BY <2>1, FieldsUnchanged
<1>5. CASE SetValues
  BY <1>5, SetValuesKeepsFields
<1>6. CASE Rest \/ UNCHANGED vars
  BY <1>6, FieldsUnchanged DEF Rest, vars
<1> QED
  BY <1>1, <1>2, <1>3, <1>4, <1>5, <1>6 DEF Next

\* What TypeOK says of the lists and of pc, in every phase.
ListsInv ==
  /\ input \in Inputs /\ sets \in Seq(SetNames) /\ LeftIsLast
  /\ pc \in {"build", "args", "set", "parsed", "failed", "exited", "panicked"}

LEMMA ListsStart ==
  ASSUME Init
  PROVE  ListsInv
<1>1. input \in Inputs /\ sets = <<>> /\ left = <<>> /\ pc = "build"
  BY DEF Init
<1>2. sets \in Seq(SetNames) /\ left \in Seq(Arguments) /\ Len(left) = 0
  BY <1>1, EmptySeq
<1>3. Len(left) <= Len(input.args) /\ \A j \in 1 .. Len(left) : left[j] = input.args[Read + j]
  BY <1>1, <1>2, InputIsSequences
<1> QED
  BY <1>1, <1>2, <1>3 DEF ListsInv, LeftIsLast

LEMMA ListsKept ==
  ASSUME ListsInv, ParseInv, [Next]_vars
  PROVE  ListsInv'
<1>1. CASE Parse \/ EndSet
  <2>1. /\ input' = input /\ input \in Inputs /\ left' = input.args
        /\ pc' \in {"args", "set"}
    BY <1>1 DEF Parse, EndSet, ListsInv
  <2>2. sets' \in Seq(SetNames)
    <3>1. CASE Parse
      BY <2>1, <3>1, InputIsSequences DEF Parse
    <3>2. CASE EndSet
      <4>1. sets # <<>> /\ sets \in Seq(SetNames) /\ sets' = Tail(sets)
        BY <3>2 DEF EndSet, ParseInv, SetsAreLast
      <4> QED
        BY <4>1, HeadTailProperties
    <3> QED
      BY <1>1, <3>1, <3>2
  <2>3. LeftIsLast'
    <3>1. Read' = 0
      BY <2>1, InputIsSequences DEF Read
    <3> QED
      BY <2>1, <3>1, InputIsSequences DEF LeftIsLast
  <2> QED
    BY <2>1, <2>2, <2>3 DEF ListsInv
<1>2. CASE ParseArg
  <2>1. ParseInv' /\ pc' = "args" /\ sets' = sets
    BY <1>2, ParseArgStep DEF ParseArg
  <2> QED
    BY <2>1 DEF ParseInv, ListsInv
<1>3. CASE Declare \/ RejectArg \/ SetValues \/ ParseAgain \/ Rest \/ UNCHANGED vars
  <2>1. /\ input' = input /\ sets' = sets /\ left' = left
        /\ pc' \in {pc, "parsed", "exited", "failed", "panicked"}
    BY <1>3 DEF Declare, RejectArg, SetValues, ParseAgain, Rest, vars
  <2>2. LeftIsLast'
    BY <2>1 DEF ListsInv, LeftIsLast, Read
  <2> QED
    BY <2>1, <2>2 DEF ListsInv
<1> QED
  BY <1>1, <1>2, <1>3 DEF Next

LEMMA LastIsSuffix ==
  ASSUME input \in Inputs, LeftIsLast
  PROVE  IsSuffix(left, input.args)
<1> DEFINE s == left
           t == input.args
           n == Len(s)
           m == Len(t)
           rs == Reverse(s)
           rt == Reverse(t)
<1>1. /\ t \in Seq(Arguments) /\ m \in Nat /\ s \in Seq(Arguments) /\ n \in Nat /\ n <= m
      /\ \A j \in 1 .. n : s[j] = t[m - n + j]
  BY InputIsSequences, LenProperties DEF LeftIsLast, Read
<1> HIDE DEF s, t
<1>2. /\ rs = [i \in 1 .. n |-> s[(n - i) + 1]] /\ rt = [i \in 1 .. m |-> t[(m - i) + 1]]
  BY DEF Reverse
<1>3. /\ \A i \in 1 .. n : (n - i) + 1 \in 1 .. n
      /\ \A i \in 1 .. m : (m - i) + 1 \in 1 .. m
  BY <1>1
<1>4. rs \in [1 .. n -> Arguments] /\ rt \in [1 .. m -> Arguments]
  BY <1>1, <1>2, <1>3, ElementOfSeq
<1>5. rs \in Seq(Arguments) /\ Len(rs) = n /\ rt \in Seq(Arguments) /\ Len(rt) = m
  <2> HIDE DEF rs, rt, n, m
  <2> QED
    BY <1>1, <1>4, FcnIsSeq
<1>6. \A i \in 1 .. n : rs[i] = rt[i]
  <2> SUFFICES ASSUME NEW i \in 1 .. n
               PROVE  rs[i] = rt[i]
    OBVIOUS
  <2>1. i \in 1 .. m /\ (n - i) + 1 \in 1 .. n /\ m - n + ((n - i) + 1) = (m - i) + 1
    BY <1>1
  <2> QED
    BY <1>1, <1>2, <2>1
<1> HIDE DEF rs, rt
<1>7. SubSeq(rs, 1, n) = SubSeq(rt, 1, n)
  <2> DEFINE x == SubSeq(rs, 1, n)
             y == SubSeq(rt, 1, n)
  <2>1. (\A i \in 1 .. n : rs[i] \in Arguments) /\ (\A i \in 1 .. n : rt[i] \in Arguments)
    <3>1. \A i \in 1 .. n : i \in 1 .. m
      BY <1>1
    <3> QED
      BY <1>4, <3>1
  <2>2. /\ x \in Seq(Arguments) /\ Len(x) = (IF 1 <= n THEN n - 1 + 1 ELSE 0)
        /\ \A i \in 1 .. n - 1 + 1 : x[i] = rs[1 + i - 1]
    BY <1>1, <2>1, SubSeqProperties
  <2>3. /\ y \in Seq(Arguments) /\ Len(y) = (IF 1 <= n THEN n - 1 + 1 ELSE 0)
        /\ \A i \in 1 .. n - 1 + 1 : y[i] = rt[1 + i - 1]
    BY <1>1, <2>1, SubSeqProperties
  <2> HIDE DEF x, y
  <2>4. Len(x) = n /\ Len(y) = n
    BY <1>1, <2>2, <2>3
  <2>5. \A i \in 1 .. n : x[i] = y[i]
    BY <1>1, <1>6, <2>2, <2>3
  <2>6. x = y
    BY <2>2, <2>3, <2>4, <2>5, SeqEqual
  <2> QED
    BY <2>6 DEF x, y
<1> QED
  BY <1>1, <1>5, <1>7 DEF IsSuffix, IsPrefix, rs, rt, s, t

LEMMA TypesFollow ==
  ASSUME FieldsInv, ListsInv
  PROVE  TypeOK
<1>1. \A i \in DOMAIN sets : sets[i] \in {"main", "own", "nil"}
  BY LenProperties, ElementOfSeq DEF ListsInv, SetNames
<1>2. IsSuffix(left, input.args)
  BY LastIsSuffix DEF ListsInv
<1>3. \A n \in DOMAIN fields : fields[n].name = n /\ IsField(fields[n])
  BY FieldsAreDeclared
<1> QED
  BY <1>1, <1>2, <1>3 DEF TypeOK, FieldsInv, ListsInv

\* Whatever a builder declares and wherever it is read from, every field holds a value of
\* its own kind, on which the type assertion in GetConfigField relies (config.go:281-283).
THEOREM TypeCorrect == Spec => []TypeOK
<1>1. Init => ParseInv /\ FieldsInv /\ ListsInv
  BY ParseInvStarts, FieldsStart, ListsStart
<1>2. ParseInv /\ FieldsInv /\ ListsInv /\ [Next]_vars => (ParseInv /\ FieldsInv /\ ListsInv)'
  BY ParseInvKept, FieldsKept, ListsKept
<1>3. FieldsInv /\ ListsInv => TypeOK
  BY TypesFollow
<1> QED
  BY <1>1, <1>2, <1>3, PTL DEF Spec

-----------------------------------------------------------------------------
(* What the command line has said so far. *)

\* What a field's flag holds when d sets are done and the present one, if it is the
\* field's own, has read r arguments.
ReadFor(n) == IF Head(sets) = fields[n].set THEN Read ELSE 0
Passes(n, d) == FlattenSeq([j \in 1 .. d |->
                   IF ToParse(input.call)[j] = fields[n].set THEN Once(n) ELSE <<>>])
Pieces(n, r) == FlattenSeq([k \in 1 .. r |->
                   IF input.args[k].name = n THEN Brings(input.args[k]) ELSE <<>>])
MineUpTo(n, r) == {k \in 1 .. r : input.args[k].name = n}
FlagAfter(n, d, r) ==
  IF fields[n].kind \in Arrays THEN Passes(n, d) \o Pieces(n, r)
  ELSE IF MineUpTo(n, r) # {} THEN Word(input.args[Max(MineUpTo(n, r))])
  ELSE IF (\E j \in 1 .. d : ToParse(input.call)[j] = fields[n].set) /\ Mine(n) # {}
  THEN Word(input.args[Max(Mine(n))])
  ELSE fields[n].def

\* Flags hold what has been said, and in the end so do values.
SaidInv ==
  /\ pc = "args" => \A n \in DOMAIN fields : flags[n] = FlagAfter(n, Done, ReadFor(n))
  /\ pc = "set" =>
        \A n \in DOMAIN fields : flags[n] = FlagAfter(n, Len(ToParse(input.call)), 0)
  /\ pc = "parsed" =>
        \A n \in DOMAIN fields :
            values[n] = Final(fields[n], FlagAfter(n, Len(ToParse(input.call)), 0))

LEMMA MaxIsLast ==
  ASSUME NEW r \in Nat, NEW K, K \subseteq 1 .. r + 1, r + 1 \in K
  PROVE  Max(K) = r + 1
<1>1. \A y \in K : r + 1 >= y
  OBVIOUS
<1>2. \A x \in K : (\A y \in K : x >= y) => x = r + 1
  OBVIOUS
<1> DEFINE c == CHOOSE x \in K : \A y \in K : x >= y
<1>3. c \in K /\ \A y \in K : c >= y
  BY <1>1
<1> HIDE DEF c
<1>4. c = r + 1
  BY <1>2, <1>3
<1> QED
  BY <1>4 DEF Max, c

\* The flagged arguments are the first ones.
LEMMA FlaggedIsPrefix ==
  ASSUME input \in Inputs
  PROVE  \E m \in Nat : m <= Len(input.args) /\ Flagged = 1 .. m
<1> DEFINE words == {i \in DOMAIN input.args : IsWord(input.args[i])}
<1>1. Len(input.args) \in Nat /\ DOMAIN input.args = 1 .. Len(input.args)
  BY InputIsSequences
<1>2. Flagged = {i \in DOMAIN input.args : \A w \in words : i < w}
  BY DEF Flagged
<1>3. words \subseteq 1 .. Len(input.args)
  BY <1>1
<1> HIDE DEF words
<1>4. CASE words = {}
  BY <1>1, <1>2, <1>4
<1>5. CASE words # {}
  <2>1. words \subseteq Nat
    BY <1>1, <1>3
  <2>2. PICK w \in words : \A k \in words : w <= k
    BY <1>5, <2>1, LeastExists
  <2>3. w - 1 \in Nat /\ w - 1 <= Len(input.args) /\ w \in 1 .. Len(input.args)
    BY <1>1, <1>3
  <2>4. \A i \in 1 .. Len(input.args) : (\A k \in words : i < k) <=> i \in 1 .. w - 1
    BY <1>3, <2>1, <2>2, <2>3
  <2>5. Flagged = 1 .. w - 1
    BY <1>1, <1>2, <2>3, <2>4
  <2> QED
    BY <2>3, <2>5
<1> QED
  BY <1>4, <1>5

LEMMA BringsIsText ==
  ASSUME NEW a, a.text \in Seq(Parts)
  PROVE  Brings(a) \in Seq(Parts)
<1> DEFINE text == a.text
           K == {i \in DOMAIN text : text[i] # Blank}
           E == {text[i] : i \in K \cap DOMAIN text}
<1>1. Keep(text, K) \in Seq(E)
  BY KeepType
<1>2. E \subseteq Parts
  BY LenProperties
<1> HIDE DEF E
<1>3. Keep(text, K) \in Seq(Parts)
  BY <1>1, <1>2, SeqMonotonic
<1> QED
  BY <1>3 DEF Brings

\* An array's flag takes from an argument what the argument brings.
LEMMA ArrayTakes ==
  ASSUME NEW kind \in Arrays, NEW a, a.text \in Seq(Parts), Valid(kind, a)
  PROVE  Taken(kind, a) = Brings(a)
<1> DEFINE text == a.text
           K == {i \in DOMAIN text : ~ Skips(kind, text, text[i])}
<1>1. Taken(kind, a) = Keep(text, K)
  BY DEF Taken, Elements, Valid, Arrays
<1>2. CASE Len(text) = 1
  <2>1. DOMAIN text \subseteq K
    BY <1>2 DEF Skips
  <2>2. Keep(text, K) = text
    BY <2>1, KeepAll
  <2> QED
    BY <1>1, <1>2, <2>2 DEF Brings
<1>3. CASE Len(text) # 1
  <2>1. K = {i \in DOMAIN text : text[i] # Blank}
    BY <1>3 DEF Skips
  <2> QED
    BY <1>1, <1>3, <2>1 DEF Brings
<1> QED
  BY <1>2, <1>3

LEMMA PiecesGrow ==
  ASSUME input \in Inputs, NEW n
  PROVE  /\ Pieces(n, 0) = <<>>
         /\ \A r \in Nat : r <= Len(input.args) => Pieces(n, r) \in Seq(Parts)
         /\ \A r \in Nat : r + 1 <= Len(input.args) =>
                Pieces(n, r + 1) = Pieces(n, r) \o (IF input.args[r + 1].name = n
                                                    THEN Brings(input.args[r + 1]) ELSE <<>>)
<1> DEFINE e(k) == IF input.args[k].name = n THEN Brings(input.args[k]) ELSE <<>>
           ss(r) == [k \in 1 .. r |-> e(k)]
<1>1. \A k \in 1 .. Len(input.args) : input.args[k].text \in Seq(Parts)
  <2>1. \A k \in 1 .. Len(input.args) : input.args[k] \in Arguments
    BY InputIsSequences, ElementOfSeq
  <2> QED
    BY <2>1 DEF Arguments
<1>2. Len(input.args) \in Nat
  BY InputIsSequences
<1>3. \A k \in 1 .. Len(input.args) : e(k) \in Seq(Parts)
  BY <1>1, BringsIsText, EmptySeq
<1>4. \A r : Pieces(n, r) = FlattenSeq(ss(r))
  BY DEF Pieces
<1> HIDE DEF e
<1>5. \A r \in Nat : r <= Len(input.args) => ss(r) \in [1 .. r -> Seq(Parts)]
  BY <1>2, <1>3
<1>6. \A r \in Nat : \A k \in 1 .. r : ss(r)[k] = e(k)
  OBVIOUS
<1>7. ss(0) = <<>>
  OBVIOUS
<1> HIDE DEF ss
<1>8. ASSUME NEW r \in Nat, r <= Len(input.args)
      PROVE  FlattenSeq(ss(r)) \in Seq(Parts)
  <2>1. ss(r) \in Seq(Seq(Parts))
    BY <1>5, <1>8, FcnIsSeq
  <2> QED
    BY <2>1, FlattenType
<1>9. ASSUME NEW r \in Nat, r + 1 <= Len(input.args)
      PROVE  FlattenSeq(ss(r + 1)) = FlattenSeq(ss(r)) \o e(r + 1)
  <2>1. ss(r) \in [1 .. r -> Seq(Parts)] /\ ss(r + 1) \in [1 .. r + 1 -> Seq(Parts)]
    BY <1>2, <1>5, <1>9
  <2>2. ss(r + 1)[r + 1] = e(r + 1) /\ \A i \in 1 .. r : ss(r)[i] = ss(r + 1)[i]
    BY <1>6
  <2> DEFINE x == ss(r + 1)
             y == ss(r)
  <2>3. /\ x \in [1 .. r + 1 -> Seq(Parts)] /\ y \in [1 .. r -> Seq(Parts)]
        /\ \A i \in 1 .. r : y[i] = x[i]
    BY <2>1, <2>2
  <2> HIDE DEF x, y
  <2>4. FlattenSeq(x) = FlattenSeq(y) \o x[r + 1]
    BY <2>3, FlattenStep
  <2> QED
    BY <2>2, <2>4 DEF x, y
<1>10. Pieces(n, 0) = <<>>
  BY <1>4, <1>7, FlattenEmpty
<1> QED
  BY <1>4, <1>8, <1>9, <1>10 DEF e

\* Once is Pieces over the flagged arguments.
LEMMA OnceIsPieces ==
  ASSUME NEW n, NEW m \in Nat, Flagged = 1 .. m
  PROVE  Once(n) = Pieces(n, m)
BY DEF Once, Pieces

LEMMA OnceIsText ==
  ASSUME input \in Inputs, NEW n
  PROVE  Once(n) \in Seq(Parts)
<1>1. PICK m \in Nat : m <= Len(input.args) /\ Flagged = 1 .. m
  BY FlaggedIsPrefix
<1>2. Pieces(n, m) \in Seq(Parts)
  BY <1>1, PiecesGrow
<1> QED
  BY <1>1, <1>2, OnceIsPieces

LEMMA PassesGrow ==
  ASSUME input \in Inputs, NEW n
  PROVE  /\ Passes(n, 0) = <<>>
         /\ \A d \in Nat : Passes(n, d) \in Seq(Parts)
         /\ \A d \in Nat :
                Passes(n, d + 1) = Passes(n, d) \o (IF ToParse(input.call)[d + 1] = fields[n].set
                                                    THEN Once(n) ELSE <<>>)
<1> DEFINE e(j) == IF ToParse(input.call)[j] = fields[n].set THEN Once(n) ELSE <<>>
           ss(d) == [j \in 1 .. d |-> e(j)]
<1>1. \A j : e(j) \in Seq(Parts)
  BY OnceIsText, EmptySeq
<1>2. \A d : Passes(n, d) = FlattenSeq(ss(d))
  BY DEF Passes
<1> HIDE DEF e
<1>3. \A d \in Nat : ss(d) \in [1 .. d -> Seq(Parts)]
  BY <1>1
<1>4. \A d \in Nat : \A j \in 1 .. d : ss(d)[j] = e(j)
  OBVIOUS
<1>5. ss(0) = <<>>
  OBVIOUS
<1> HIDE DEF ss
<1>6. ASSUME NEW d \in Nat
      PROVE  FlattenSeq(ss(d)) \in Seq(Parts)
  <2>1. ss(d) \in Seq(Seq(Parts))
    BY <1>3, FcnIsSeq
  <2> QED
    BY <2>1, FlattenType
<1>7. ASSUME NEW d \in Nat
      PROVE  FlattenSeq(ss(d + 1)) = FlattenSeq(ss(d)) \o e(d + 1)
  <2>1. ss(d) \in [1 .. d -> Seq(Parts)] /\ ss(d + 1) \in [1 .. d + 1 -> Seq(Parts)]
    BY <1>3
  <2>2. ss(d + 1)[d + 1] = e(d + 1) /\ \A i \in 1 .. d : ss(d)[i] = ss(d + 1)[i]
    BY <1>4
  <2> DEFINE x == ss(d + 1)
             y == ss(d)
  <2>3. /\ x \in [1 .. d + 1 -> Seq(Parts)] /\ y \in [1 .. d -> Seq(Parts)]
        /\ \A i \in 1 .. d : y[i] = x[i]
    BY <2>1, <2>2
  <2> HIDE DEF x, y
  <2>4. FlattenSeq(x) = FlattenSeq(y) \o x[d + 1]
    BY <2>3, FlattenStep
  <2> QED
    BY <2>2, <2>4 DEF x, y
<1>8. Passes(n, 0) = <<>>
  BY <1>2, <1>5, FlattenEmpty
<1> QED
  BY <1>2, <1>6, <1>7, <1>8 DEF e

LEMMA SaidStays ==
  ASSUME input' = input, fields' = fields
  PROVE  \A n, d, r : FlagAfter(n, d, r)' = FlagAfter(n, d, r)
<1>1. Flagged' = Flagged
  BY DEF Flagged
<1>2. \A n : Once(n)' = Once(n) /\ Mine(n)' = Mine(n)
  BY <1>1 DEF Once, Mine
<1>3. \A n, r : Pieces(n, r)' = Pieces(n, r) /\ MineUpTo(n, r)' = MineUpTo(n, r)
  BY DEF Pieces, MineUpTo
<1>4. \A n, d : Passes(n, d)' = Passes(n, d)
  BY <1>2 DEF Passes
<1> QED
  BY <1>2, <1>3, <1>4 DEF FlagAfter

\* Before an argument is read a flag holds the field's default, an array's nothing.
LEMMA ParseStartsFlags ==
  ASSUME FieldsInv, Parse
  PROVE  SaidInv'
<1>1. /\ input \in Inputs /\ input' = input /\ pc' = "args"
      /\ sets' = ToParse(input.call) /\ left' = input.args
      /\ DOMAIN fields' = DOMAIN fields
      /\ \A n \in DOMAIN fields : flags'[n] = FlagDefault(fields'[n])
  BY DEF FieldsInv, Parse, Configure
<1>2. Done' = 0 /\ Read' = 0
  <2>1. Len(ToParse(input.call)) \in Nat /\ Len(input.args) \in Nat
    BY <1>1, InputIsSequences
  <2> QED
    BY <1>1, <2>1 DEF Done, Read
<1>3. ASSUME NEW n
      PROVE  Passes(n, 0)' = <<>> /\ Pieces(n, 0)' = <<>> /\ MineUpTo(n, 0)' = {}
  <2>1. Passes(n, 0)' = FlattenSeq(<<>>)
    BY DEF Passes
  <2>2. Pieces(n, 0)' = FlattenSeq(<<>>)
    BY DEF Pieces
  <2>3. MineUpTo(n, 0)' = {}
    BY DEF MineUpTo
  <2> QED
    BY <2>1, <2>2, <2>3, FlattenEmpty
<1>4. <<>> \o <<>> = <<>>
  <2>1. <<>> \in Seq(Parts)
    BY EmptySeq
  <2> QED
    BY <2>1, ConcatEmptySeq
<1>5. ASSUME NEW n \in DOMAIN fields'
      PROVE  flags'[n] = FlagAfter(n, 0, 0)'
  <2>1. flags'[n] = IF fields'[n].kind \in Arrays THEN <<>> ELSE fields'[n].def
    BY <1>1 DEF FlagDefault
  <2>2. FlagAfter(n, 0, 0)' = IF fields'[n].kind \in Arrays THEN Passes(n, 0)' \o Pieces(n, 0)'
                              ELSE fields'[n].def
    BY <1>3 DEF FlagAfter
  <2> QED
    BY <1>3, <1>4, <2>1, <2>2
<1>6. \A n : ReadFor(n)' = 0
  BY <1>2 DEF ReadFor
<1>7. \A n \in DOMAIN fields' : flags'[n] = FlagAfter(n, Done, ReadFor(n))'
  BY <1>2, <1>5, <1>6 DEF FlagAfter, Passes, Pieces, MineUpTo
<1> QED
  BY <1>1, <1>7 DEF SaidInv

\* One more argument changes what is said of the field it names: an array has more
\* elements, a scalar another word.
LEMMA FlagGrows ==
  ASSUME input \in Inputs, NEW n, NEW d \in Nat, NEW r \in Nat, r + 1 <= Len(input.args)
  PROVE  LET a == input.args[r + 1]
         IN  FlagAfter(n, d, r + 1) = IF a.name # n THEN FlagAfter(n, d, r)
                                      ELSE IF fields[n].kind \in Arrays
                                      THEN FlagAfter(n, d, r) \o Brings(a) ELSE Word(a)
<1> DEFINE a == input.args[r + 1]
<1>1. a.text \in Seq(Parts)
  <2>1. r + 1 \in 1 .. Len(input.args)
    BY InputIsSequences
  <2>2. a \in Arguments
    BY <2>1, InputIsSequences, ElementOfSeq
  <2> QED
    BY <2>2 DEF Arguments
<1>2. r <= Len(input.args)
  BY InputIsSequences
<1>3. Passes(n, d) \in Seq(Parts) /\ Pieces(n, r) \in Seq(Parts)
  BY <1>2, PassesGrow, PiecesGrow
<1>4. Pieces(n, r + 1) = Pieces(n, r) \o (IF a.name = n THEN Brings(a) ELSE <<>>)
  BY PiecesGrow
<1>5. MineUpTo(n, r + 1) = MineUpTo(n, r) \cup (IF a.name = n THEN {r + 1} ELSE {})
  BY DEF MineUpTo
<1> HIDE DEF a
<1>6. CASE a.name # n
  <2>1. Pieces(n, r + 1) = Pieces(n, r)
    BY <1>3, <1>4, <1>6, ConcatEmptySeq
  <2>2. MineUpTo(n, r + 1) = MineUpTo(n, r)
    BY <1>5, <1>6
  <2>3. FlagAfter(n, d, r + 1) = FlagAfter(n, d, r)
    BY <2>1, <2>2 DEF FlagAfter
  <2> QED
    BY <1>6, <2>3 DEF a
<1>7. CASE a.name = n /\ fields[n].kind \in Arrays
  <2>1. Pieces(n, r + 1) = Pieces(n, r) \o Brings(a) /\ Brings(a) \in Seq(Parts)
    BY <1>1, <1>4, <1>7, BringsIsText
  <2>2. Passes(n, d) \o (Pieces(n, r) \o Brings(a)) = (Passes(n, d) \o Pieces(n, r)) \o Brings(a)
    <3> DEFINE x == Passes(n, d)
               y == Pieces(n, r)
               z == Brings(a)
    <3>1. x \in Seq(Parts) /\ y \in Seq(Parts) /\ z \in Seq(Parts)
      BY <1>3, <2>1
    <3> HIDE DEF x, y, z
    <3>2. (x \o y) \o z = x \o (y \o z)
      BY <3>1, ConcatAssociative
    <3> QED
      BY <3>2 DEF x, y, z
  <2>3. FlagAfter(n, d, r + 1) = FlagAfter(n, d, r) \o Brings(a)
    BY <1>7, <2>1, <2>2 DEF FlagAfter
  <2> QED
    BY <1>7, <2>3 DEF a
<1>8. CASE a.name = n /\ fields[n].kind \notin Arrays
  <2>1. r + 1 \in MineUpTo(n, r + 1) /\ MineUpTo(n, r + 1) \subseteq 1 .. r + 1
    BY <1>5, <1>8 DEF MineUpTo
  <2>2. Max(MineUpTo(n, r + 1)) = r + 1
    BY <2>1, MaxIsLast
  <2>3. FlagAfter(n, d, r + 1) = Word(a)
    BY <1>8, <2>1, <2>2 DEF FlagAfter, a
  <2> QED
    BY <1>8, <2>3 DEF a
<1> QED
  BY <1>6, <1>7, <1>8

LEMMA ParseArgSays ==
  ASSUME FieldsInv, ParseInv, SaidInv, ParseArg
  PROVE  SaidInv'
<1> DEFINE a == Head(left)
           kind == fields[a.name].kind
<1>1. /\ pc = "args" /\ pc' = pc /\ input' = input /\ fields' = fields /\ sets' = sets
      /\ Accepts(Head(sets), a) /\ left' = Tail(left) /\ left # <<>>
      /\ flags' = [flags EXCEPT ![a.name] =
                      IF kind \in Arrays THEN @ \o Taken(kind, a) ELSE Taken(kind, a)]
  BY DEF ParseArg
<1>2. /\ input \in Inputs /\ a.text \in Seq(Parts) /\ a = input.args[Read + 1]
      /\ Read \in Nat /\ Read + 1 <= Len(input.args) /\ Read' = Read + 1
  <2>1. /\ a \in Arguments /\ a = input.args[Read + 1] /\ Read + 1 \in DOMAIN input.args
        /\ Read \in Nat /\ input \in Inputs
    BY HeadIsArgument DEF ParseInv
  <2>2. Len(input.args) \in Nat /\ DOMAIN input.args = 1 .. Len(input.args)
    BY <2>1, InputIsSequences
  <2>3. left \in Seq(Arguments) /\ Len(left) \in Nat /\ Len(Tail(left)) = Len(left) - 1
    BY <1>1, HeadTailProperties, LenProperties DEF ParseInv, LeftIsLast
  <2>4. Read' = Read + 1
    BY <1>1, <2>2, <2>3 DEF Read
  <2> HIDE DEF a
  <2> QED
    BY <2>1, <2>2, <2>4 DEF Arguments
<1>3. Done' = Done /\ Done \in Nat
  <2>1. sets \in Seq(SetNames) /\ Len(sets) <= Len(ToParse(input.call))
    BY <1>1 DEF ParseInv, SetsAreLast
  <2>2. Len(sets) \in Nat /\ Len(ToParse(input.call)) \in Nat
    BY <1>2, <2>1, InputIsSequences, LenProperties
  <2> QED
    BY <1>1, <2>1, <2>2 DEF Done
<1>4. /\ DOMAIN flags = DOMAIN fields
      /\ \A n \in DOMAIN fields : flags[n] = FlagAfter(n, Done, ReadFor(n))
  BY <1>1 DEF FieldsInv, SaidInv
<1> HIDE DEF a
<1>5. /\ a.name \in DOMAIN fields /\ fields[a.name].set = Head(sets) /\ Valid(kind, a)
      /\ kind \in Scalars \cup Arrays
  BY <1>1, FieldsAreDeclared DEF Accepts, IsField
<1>6. kind \in Arrays => Taken(kind, a) = Brings(a)
  BY <1>2, <1>5, ArrayTakes
<1>7. kind \notin Arrays => Taken(kind, a) = Word(a)
  BY DEF Taken, Word
<1>8. ASSUME NEW n \in DOMAIN fields
      PROVE  flags'[n] = FlagAfter(n, Done, IF Head(sets) = fields[n].set THEN Read + 1 ELSE 0)
  <2>1. CASE Head(sets) # fields[n].set
    BY <1>1, <1>4, <1>5, <2>1 DEF ReadFor
  <2>2. CASE Head(sets) = fields[n].set
    <3>1. flags[n] = FlagAfter(n, Done, Read)
      BY <1>4, <2>2 DEF ReadFor
    <3>2. FlagAfter(n, Done, Read + 1) = IF a.name # n THEN FlagAfter(n, Done, Read)
                                         ELSE IF fields[n].kind \in Arrays
                                         THEN FlagAfter(n, Done, Read) \o Brings(a) ELSE Word(a)
      BY <1>2, <1>3, FlagGrows
    <3>3. flags'[n] = IF a.name # n THEN flags[n]
                      ELSE IF fields[n].kind \in Arrays THEN flags[n] \o Brings(a) ELSE Word(a)
      BY <1>1, <1>4, <1>6, <1>7
    <3> QED
      BY <2>2, <3>1, <3>2, <3>3
  <2> QED
    BY <2>1, <2>2
<1>9. \A n, d, r : FlagAfter(n, d, r)' = FlagAfter(n, d, r)
  BY <1>1, SaidStays
<1>10. ASSUME NEW n \in DOMAIN fields
       PROVE  (flags[n] = FlagAfter(n, Done, ReadFor(n)))'
  BY <1>1, <1>2, <1>3, <1>8, <1>9 DEF ReadFor
<1> QED
  BY <1>1, <1>10 DEF SaidInv

\* A set that ends has said once more what it says of its own fields, and nothing of others.
LEMMA PassEnds ==
  ASSUME input \in Inputs, NEW n, NEW d \in Nat, NEW r \in Nat, r <= Len(input.args),
         ToParse(input.call)[d + 1] = fields[n].set => Flagged = 1 .. r
  PROVE  FlagAfter(n, d + 1, 0) =
            FlagAfter(n, d, IF ToParse(input.call)[d + 1] = fields[n].set THEN r ELSE 0)
<1> DEFINE s == ToParse(input.call)[d + 1]
           kind == fields[n].kind
<1>1. /\ Passes(n, d) \in Seq(Parts) /\ Passes(n, d + 1) \in Seq(Parts)
      /\ Passes(n, d + 1) = Passes(n, d) \o (IF s = fields[n].set THEN Once(n) ELSE <<>>)
  <2>1. d + 1 \in Nat
    OBVIOUS
  <2> QED
    BY <2>1, PassesGrow
<1>2. Pieces(n, 0) = <<>> /\ MineUpTo(n, 0) = {}
  BY PiecesGrow DEF MineUpTo
<1>3. CASE s = fields[n].set
  <2>1. Flagged = 1 .. r
    BY <1>3
  <2>2. Once(n) = Pieces(n, r) /\ Mine(n) = MineUpTo(n, r)
    BY <2>1, OnceIsPieces DEF Mine, MineUpTo
  <2>3. CASE kind \in Arrays
    <3>1. FlagAfter(n, d + 1, 0) = Passes(n, d + 1) \o <<>>
      BY <1>2, <2>3 DEF FlagAfter
    <3>2. FlagAfter(n, d, r) = Passes(n, d + 1)
      BY <1>1, <1>3, <2>2, <2>3 DEF FlagAfter
    <3>3. Passes(n, d + 1) \o <<>> = Passes(n, d + 1)
      BY <1>1, ConcatEmptySeq
    <3> QED
      BY <1>3, <3>1, <3>2, <3>3
  <2>4. CASE kind \notin Arrays
    <3>1. d + 1 \in 1 .. d + 1
      OBVIOUS
    <3>2. FlagAfter(n, d + 1, 0) = IF Mine(n) # {} THEN Word(input.args[Max(Mine(n))])
                                   ELSE fields[n].def
      BY <1>2, <1>3, <2>4, <3>1 DEF FlagAfter
    <3>3. FlagAfter(n, d, r) = IF Mine(n) # {} THEN Word(input.args[Max(Mine(n))])
                               ELSE fields[n].def
      BY <2>2, <2>4 DEF FlagAfter
    <3> QED
      BY <1>3, <3>2, <3>3
  <2> QED
    BY <2>3, <2>4
<1>4. CASE s # fields[n].set
  <2>1. Passes(n, d + 1) = Passes(n, d)
    BY <1>1, <1>4, ConcatEmptySeq
  <2>2. (\E j \in 1 .. d + 1 : ToParse(input.call)[j] = fields[n].set)
            <=> (\E j \in 1 .. d : ToParse(input.call)[j] = fields[n].set)
    BY <1>4
  <2>3. FlagAfter(n, d + 1, 0) = FlagAfter(n, d, 0)
    BY <2>1, <2>2 DEF FlagAfter
  <2> QED
    BY <1>4, <2>3
<1> QED
  BY <1>3, <1>4

LEMMA EndSetSays ==
  ASSUME FieldsInv, ParseInv, SaidInv, EndSet
  PROVE  SaidInv'
<1> DEFINE t == ToParse(input.call)
<1>1. /\ pc = "args" /\ sets' = Tail(sets) /\ left' = input.args
      /\ pc' = IF Len(sets) = 1 THEN "set" ELSE "args"
      /\ Head(sets) # "nil" /\ left # <<>> => IsWord(Head(left))
      /\ input' = input /\ fields' = fields /\ flags' = flags
  BY DEF EndSet
<1>2. /\ input \in Inputs /\ SetsAreLast /\ LeftIsLast /\ Accepted(Head(sets), Read)
  BY <1>1 DEF ParseInv
<1>3. t \in Seq(SetNames) /\ Len(t) \in Nat \ {0} /\ Len(input.args) \in Nat
  BY <1>2, InputIsSequences
<1>4. /\ Len(sets) \in Nat \ {0} /\ Len(sets) <= Len(t) /\ Len(Tail(sets)) = Len(sets) - 1
      /\ Done \in Nat /\ Head(sets) = t[Done + 1]
  <2>1. /\ sets \in Seq(SetNames) /\ sets # <<>> /\ Len(sets) <= Len(t)
        /\ \A j \in 1 .. Len(sets) : sets[j] = t[Len(t) - Len(sets) + j]
    BY <1>2 DEF SetsAreLast, Done
  <2>2. Done = Len(t) - Len(sets)
    BY DEF Done
  <2> HIDE DEF t
  <2>3. /\ Len(Tail(sets)) = Len(sets) - 1 /\ Len(sets) \in Nat \ {0}
        /\ Head(sets) = t[Len(t) - Len(sets) + 1]
    BY <1>3, <2>1, TailIsLast
  <2> QED
    BY <1>3, <2>1, <2>2, <2>3
<1>5. Read \in Nat /\ Read <= Len(input.args)
  <2>1. Len(left) \in Nat /\ Len(left) <= Len(input.args)
    BY <1>2, LenProperties DEF LeftIsLast
  <2> QED
    BY <1>3, <2>1 DEF Read
<1>6. ASSUME NEW n \in DOMAIN fields
      PROVE  flags[n] = FlagAfter(n, Done + 1, 0)
  <2>1. fields[n].set # "nil"
    BY FieldsAreDeclared DEF IsField
  <2>2. t[Done + 1] = fields[n].set => Flagged = 1 .. Read
    BY <1>1, <1>2, <1>4, <2>1, FlaggedAtEnd
  <2>3. FlagAfter(n, Done + 1, 0) =
            FlagAfter(n, Done, IF t[Done + 1] = fields[n].set THEN Read ELSE 0)
    BY <1>2, <1>4, <1>5, <2>2, PassEnds
  <2>4. flags[n] = FlagAfter(n, Done, ReadFor(n))
    BY <1>1 DEF SaidInv
  <2> QED
    BY <1>4, <2>3, <2>4 DEF ReadFor
<1>7. \A n, d, r : FlagAfter(n, d, r)' = FlagAfter(n, d, r)
  BY <1>1, SaidStays
<1>8. CASE Len(sets) = 1
  <2>1. pc' = "set" /\ Done + 1 = Len(t)
    BY <1>1, <1>3, <1>8 DEF Done
  <2>2. ASSUME NEW n \in DOMAIN fields
        PROVE  (flags[n] = FlagAfter(n, Len(ToParse(input.call)), 0))'
    BY <1>1, <1>6, <1>7, <2>1
  <2> QED
    BY <1>1, <2>1, <2>2 DEF SaidInv
<1>9. CASE Len(sets) # 1
  <2>1. pc' = "args" /\ Done' = Done + 1 /\ Read' = 0
    BY <1>1, <1>3, <1>4, <1>9 DEF Done, Read
  <2>2. ASSUME NEW n \in DOMAIN fields
        PROVE  (flags[n] = FlagAfter(n, Done, ReadFor(n)))'
    <3>1. ReadFor(n)' = 0
      BY <2>1 DEF ReadFor
    <3> QED
      BY <1>1, <1>6, <1>7, <2>1, <3>1
  <2> QED
    BY <1>1, <2>1, <2>2 DEF SaidInv
<1> QED
  BY <1>8, <1>9

LEMMA SaidKept ==
  ASSUME FieldsInv, ParseInv, SaidInv, [Next]_vars
  PROVE  SaidInv'
<1>1. CASE Declare
  BY <1>1 DEF Declare, SaidInv
<1>2. CASE Parse
  BY <1>2, ParseStartsFlags
<1>3. CASE ParseArg
  BY <1>3, ParseArgSays
<1>4. CASE RejectArg \/ ParseAgain
  BY <1>4 DEF RejectArg, ParseAgain, SaidInv
<1>5. CASE EndSet
  BY <1>5, EndSetSays
<1>6. CASE SetValues
  <2>1. /\ pc = "set" /\ pc' = "parsed" /\ input' = input /\ fields' = fields
        /\ values' = [n \in DOMAIN fields |-> Final(fields[n], flags[n])]
    BY <1>6 DEF SetValues
  <2>2. \A n, d, r : FlagAfter(n, d, r)' = FlagAfter(n, d, r)
    BY <2>1, SaidStays
  <2>3. \A n \in DOMAIN fields : flags[n] = FlagAfter(n, Len(ToParse(input.call)), 0)
    BY <2>1 DEF SaidInv
  <2>4. ASSUME NEW n \in DOMAIN fields
        PROVE  (values[n] = Final(fields[n], FlagAfter(n, Len(ToParse(input.call)), 0)))'
    BY <2>1, <2>2, <2>3 DEF Final
  <2> QED
    BY <2>1, <2>4 DEF SaidInv
<1>7. CASE Rest \/ UNCHANGED vars
  <2>1. /\ pc' = pc /\ input' = input /\ fields' = fields /\ flags' = flags /\ sets' = sets
        /\ left' = left /\ values' = values
    BY <1>7 DEF Rest, vars
  <2>2. \A n, d, r : FlagAfter(n, d, r)' = FlagAfter(n, d, r)
    BY <2>1, SaidStays
  <2>3. /\ Done' = Done
        /\ \A n : ReadFor(n)' = ReadFor(n)
    BY <2>1 DEF Done, ReadFor, Read
  <2>4. CASE pc = "args"
    <3>1. ASSUME NEW n \in DOMAIN fields
          PROVE  (flags[n] = FlagAfter(n, Done, ReadFor(n)))'
      BY <2>1, <2>2, <2>3, <2>4 DEF SaidInv
    <3> QED
      BY <2>1, <2>4, <3>1 DEF SaidInv
  <2>5. CASE pc # "args"
    <3>1. ASSUME NEW n \in DOMAIN fields
          PROVE  /\ (pc = "set" => flags[n] = FlagAfter(n, Len(ToParse(input.call)), 0))'
                 /\ (pc = "parsed" =>
                       values[n] = Final(fields[n], FlagAfter(n, Len(ToParse(input.call)), 0)))'
      BY <2>1, <2>2 DEF SaidInv, Final
    <3> QED
      BY <2>1, <2>5, <3>1 DEF SaidInv
  <2> QED
    BY <2>4, <2>5
<1> QED
  BY <1>1, <1>2, <1>3, <1>4, <1>5, <1>6, <1>7 DEF Next

-----------------------------------------------------------------------------
(* One source wins. *)

\* What a field reads from its variable, by whether the variable can be used.
LEMMA VariableWins ==
  ASSUME NEW kind \in Scalars \cup Arrays, NEW text \in Seq(Parts),
         NEW def, ValueOf(kind, def)
  PROVE  FromEnv(kind, text, def) =
            IF text # <<Blank>> /\ (kind \in {"int", "bool"} => ValueOf(kind, text))
            THEN Parsing(kind, text)
            ELSE IF kind = "strings" THEN Split(def) ELSE def
<1>1. def \in Seq(Parts)
  BY DEF ValueOf
<1>2. CASE kind = "string"
  <2>1. ValueOf(kind, text)
    BY <1>2 DEF ValueOf, Scalars, Parses
  <2>2. Parsing(kind, text) = text
    BY <2>1, ParsingKeepsValue
  <2> QED
    BY <1>2, <2>2 DEF FromEnv, Arrays
<1>3. CASE kind \in {"int", "bool"}
  <2>1. ValueOf(kind, text) <=> Len(text) = 1 /\ Parses(kind, text[1])
    <3>1. DOMAIN text = 1 .. Len(text)
      BY LenProperties
    <3>2. Len(text) = 1 => DOMAIN text = {1}
      BY <3>1
    <3> QED
      BY <1>3, <3>2 DEF ValueOf, Scalars
  <2>2. ValueOf(kind, text) => text # <<Blank>> /\ Parsing(kind, text) = text
    <3>1. text = <<Blank>> => text[1] = Blank
      OBVIOUS
    <3> QED
      BY <1>3, <2>1, <3>1, EmptyDoesNotParse, ParsingKeepsValue
  <2>3. FromEnv(kind, text, def) = IF ValueOf(kind, text) THEN text ELSE def
    BY <1>3, <2>1 DEF FromEnv, Arrays
  <2> QED
    BY <1>3, <2>2, <2>3
<1>4. CASE kind \in Arrays
  <2>1. FromEnv(kind, text, def) = IF text = <<Blank>> THEN Parsing(kind, Split(def))
                                   ELSE Parsing(kind, text)
    BY <1>4 DEF FromEnv, Arrays
  <2>2. kind \notin {"int", "bool"}
    BY <1>4 DEF Arrays
  <2>3. CASE kind = "strings"
    <3>1. ValueOf(kind, Split(def))
      BY <1>1, <2>3, SplitIsText DEF ValueOf, Scalars, Parses
    <3>2. Parsing(kind, Split(def)) = Split(def)
      BY <3>1, ParsingKeepsValue
    <3> QED
      BY <2>1, <2>2, <2>3, <3>2
  <2>4. CASE kind # "strings"
    <3>1. kind \in {"int", "ints", "bool", "bools"}
      BY <1>4, <2>4 DEF Arrays
    <3>2. Parsing(kind, Split(def)) = def
      BY <3>1, ParsingEmptyPart, ParsingKeepsValue DEF Split
    <3> QED
      BY <2>1, <2>2, <2>4, <3>2
  <2> QED
    BY <2>3, <2>4
<1> QED
  BY <1>2, <1>3, <1>4 DEF Scalars

\* What the flag of a field holds in the end, by whether the command line says anything.
LEMMA FlagSays ==
  ASSUME FieldsInv, pc = "parsed", NEW n \in DOMAIN fields
  PROVE  Final(fields[n], FlagAfter(n, Len(ToParse(input.call)), 0)) =
            IF Said(n) # <<>> THEN Said(n) ELSE fields[n].def
<1> DEFINE t == ToParse(input.call)
           d == Declaration(n)
           f == FlagAfter(n, Len(t), 0)
<1>1. d.kind = fields[n].kind /\ d.set = fields[n].set
  BY FieldsAreDeclared DEF Declaration
<1>2. input \in Inputs /\ DOMAIN t = 1 .. Len(t) /\ Len(t) \in Nat
  BY InputIsSequences DEF FieldsInv
<1>3. CASE d.kind \in Arrays
  <2>1. Said(n) = Passes(n, Len(t))
    BY <1>1, <1>2, <1>3 DEF Said, Passes
  <2>2. f = Passes(n, Len(t)) \o <<>>
    BY <1>1, <1>2, <1>3, PiecesGrow DEF FlagAfter
  <2>3. Passes(n, Len(t)) \in Seq(Parts)
    BY <1>2, PassesGrow
  <2>4. f = Said(n)
    BY <2>1, <2>2, <2>3, ConcatEmptySeq
  <2> HIDE DEF f
  <2>5. Final(fields[n], f) = IF Said(n) # <<>> THEN Said(n) ELSE fields[n].def
    BY <1>1, <1>3, <2>4 DEF Final
  <2> QED
    BY <2>5 DEF f
<1>4. CASE d.kind \notin Arrays
  <2> DEFINE said == Parsed(d.set) /\ Mine(n) # {}
             w == Word(input.args[Max(Mine(n))])
  <2>1. w # <<>>
    BY DEF Word, Bare
  <2>2. Said(n) = IF said THEN w ELSE <<>>
    BY <1>4 DEF Said
  <2>3. MineUpTo(n, 0) = {}
    BY DEF MineUpTo
  <2>4. Parsed(d.set) <=> \E j \in 1 .. Len(t) : t[j] = fields[n].set
    BY <1>1, <1>2 DEF Parsed
  <2>5. f = IF said THEN w ELSE fields[n].def
    BY <1>1, <1>4, <2>3, <2>4 DEF FlagAfter
  <2> HIDE DEF f, said, w
  <2>6. Final(fields[n], f) = f
    BY <1>1, <1>4 DEF Final
  <2>7. f = IF Said(n) # <<>> THEN Said(n) ELSE fields[n].def
    BY <2>1, <2>2, <2>5
  <2> QED
    BY <2>6, <2>7 DEF f
<1> QED
  BY <1>3, <1>4

LEMMA WinnerFollows ==
  ASSUME FieldsInv, SaidInv
  PROVE  ValueIsWinner
<1> SUFFICES ASSUME pc = "parsed", NEW n \in DOMAIN fields
             PROVE  LET d == Declaration(n)
                        text == Getenv(n)
                        usable == /\ text # <<Blank>>
                                  /\ d.kind \in {"int", "bool"} => ValueOf(d.kind, text)
                    IN  values[n] = CASE Said(n) # <<>> -> Said(n)
                                      [] Said(n) = <<>> /\ usable -> Parsing(d.kind, text)
                                      [] OTHER -> IF d.kind = "strings" THEN Split(d.def) ELSE d.def
  BY DEF ValueIsWinner
<1> DEFINE d == Declaration(n)
           text == Getenv(n)
           usable == /\ text # <<Blank>>
                     /\ d.kind \in {"int", "bool"} => ValueOf(d.kind, text)
<1>1. /\ n \in Names(declared) /\ IsField(d) /\ d.name = n /\ input \in Inputs
      /\ fields[n] = Configured(d)
  BY FieldsAreDeclared, FirstIsField DEF FieldsInv, Declaration
<1>2. fields[n].def = FromEnv(d.kind, text, d.def)
  BY <1>1, ConfiguredIsField
<1>3. d.kind \in Scalars \cup Arrays /\ ValueOf(d.kind, d.def) /\ text \in Seq(Parts)
  BY <1>1, GetenvIsText DEF IsField
<1> HIDE DEF d, text
<1>4. fields[n].def = IF usable THEN Parsing(d.kind, text)
                      ELSE IF d.kind = "strings" THEN Split(d.def) ELSE d.def
  BY <1>2, <1>3, VariableWins
<1>5. values[n] = Final(fields[n], FlagAfter(n, Len(ToParse(input.call)), 0))
  BY DEF SaidInv
<1>6. values[n] = IF Said(n) # <<>> THEN Said(n) ELSE fields[n].def
  BY <1>5, FlagSays
<1> HIDE DEF usable
<1>7. values[n] = CASE Said(n) # <<>> -> Said(n)
                    [] Said(n) = <<>> /\ usable -> Parsing(d.kind, text)
                    [] OTHER -> IF d.kind = "strings" THEN Split(d.def) ELSE d.def
  BY <1>4, <1>6
<1> QED
  BY <1>7 DEF d, text, usable

\* config.go:51-86: whatever is declared, set and given, a field's value comes from one
\* source alone: from what the command line says of it, or else from its variable if that
\* can be used, or else from the default of its first declaration.
THEOREM OneSourceWins == Spec => []ValueIsWinner
<1>1. Init => ParseInv /\ FieldsInv /\ SaidInv
  <2>1. Init => SaidInv
    BY DEF Init, SaidInv
  <2> QED
    BY <2>1, ParseInvStarts, FieldsStart
<1>2. ParseInv /\ FieldsInv /\ SaidInv /\ [Next]_vars => (ParseInv /\ FieldsInv /\ SaidInv)'
  BY ParseInvKept, FieldsKept, SaidKept
<1>3. FieldsInv /\ SaidInv => ValueIsWinner
  BY WinnerFollows
<1> QED
  BY <1>1, <1>2, <1>3, PTL DEF Spec
=============================================================================
