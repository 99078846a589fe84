-------------------------------- MODULE Config --------------------------------
(***************************************************************************)
(* The configuration of an app: fields are declared by the builder's calls *)
(* (app/app.go, app/config.go, app/config_field.go), and Parse takes their *)
(* values from the .env file, the environment and the command line         *)
(* (env/env.go, flag/).                                                    *)
(*                                                                         *)
(* A text is the sequence of its parts between commas; an unset variable   *)
(* is the empty text <<"">>.  A value is a sequence too, of one element    *)
(* when the field is scalar; floats are like integers.  An argument is a   *)
(* flag with its value; a bool's flag may have none, and a value that      *)
(* follows it after a space is a word.  Packages flag, godotenv and os are *)
(* external.                                                               *)
(***************************************************************************)
EXTENDS Integers, Sequences, SequencesExt, FiniteSetsExt

CONSTANTS
    Programs,     \* what the builder is told: [new, calls]
    Inputs,       \* what Parse meets: [env, dotenv, args, call]
    Parts,        \* what texts are made of
    Numerals      \* the parts that are integers

VARIABLES
    program,      \* the builder's calls still to be made
    input,
    fields,       \* Config.fields
    declared,     \* history: every field declared, in order; the constructor's in reverse
    pc,           \* "build", "args", "set", "parsed", "failed", "exited", "panicked"
    sets,         \* the flag sets still to parse, the present one first
    left,         \* the arguments still to parse in it
    flags,        \* flagValue of every field
    values        \* value of every field

vars == <<program, input, fields, declared, pc, sets, left, flags, values>>

----------------------------------------------------------------------------
\* Declaring fields

\* The part that has nothing in it.
Blank == ""

Field(name, kind, def, set) == [name |-> name, kind |-> kind, def |-> def, set |-> set]
Scalars == {"string", "int", "bool"}
Arrays == {"strings", "ints", "bools"}

\* The value of a field that has not been parsed.
Zero(kind) == CASE kind = "string" -> <<Blank>>
                [] kind = "int" -> <<"0">>
                [] kind = "bool" -> <<"false">>
                [] kind \in Arrays -> <<>>

Names(decls) == {decls[i].name : i \in DOMAIN decls}

\* The first declaration of the name.
First(decls, n) == decls[CHOOSE i \in DOMAIN decls : /\ decls[i].name = n
                                                    /\ \A j \in 1..i-1 : decls[j].name # n]

\* A name that is taken keeps its field; of several fields of one name the first counts.
AddFields(fs, decls) ==
    [n \in DOMAIN fs \cup Names(decls) |-> IF n \in DOMAIN fs THEN fs[n] ELSE First(decls, n)]

\* Here the last.
NewConfig(decls) == AddFields(<<>>, Reverse(decls))

\* The predefined fields, for every group the bits that select it (all of them must be set).
Text(name, def) == Field(name, "string", <<def>>, "main")
Number(name, def) == Field(name, "int", <<def>>, "main")
DefaultFields == <<
    [bits |-> {2, 128}, fields |-> <<Number("http-port", "8080"), Number("grpc-port", "8081")>>],
    [bits |-> {4}, fields |-> <<Number("http-port", "9000"), Text("server-name", "http://localhost"),
                                Text("path-prefix", Blank)>>],
    [bits |-> {8}, fields |-> <<Text("client-id", Blank), Text("client-secret", Blank)>>],
    [bits |-> {16}, fields |-> <<Text("db-host", Blank), Number("db-port", "0"), Text("db-name", Blank),
                                 Text("db-user", Blank), Text("db-password", Blank),
                                 Text("db-ssl-mode", "disable")>>],
    [bits |-> {64}, fields |-> <<Number("web-port", "8000"), Text("web-path-prefix", "/web")>>],
    [bits |-> {128}, fields |-> <<Text("log-level", "info")>>] >>

\* groupFieldDefVal: an override goes by the name, whatever the group.
Overridden(overrides, d) ==
    IF d.name \in DOMAIN overrides THEN [d EXCEPT !.def = overrides[d.name]] ELSE d

GroupFields(bits, overrides) ==
    LET Of(g) == [i \in DOMAIN g.fields |-> Overridden(overrides, g.fields[i])]
    IN  FlattenSeq([j \in DOMAIN DefaultFields |->
            IF DefaultFields[j].bits \subseteq bits THEN Of(DefaultFields[j]) ELSE <<>>])

\* serviceClientFields, by the names KeyServiceHost and KeyServicePort make.
ClientFields(names) ==
    FlattenSeq([i \in DOMAIN names |->
                    <<Text(names[i] \o "-host", Blank), Number(names[i] \o "-port", "0")>>])

\* The fields a builder's call declares.
Declares(c) == CASE c.call = "WithConfigFields" -> c.fields
                 [] c.call = "WithDefaultConfigFields" -> GroupFields(c.bits, c.overrides)
                 [] c.call = "WithServiceClients" -> ClientFields(c.names)

Init ==
    /\ \E p \in Programs :
            /\ fields = NewConfig(p.new)
            /\ declared = Reverse(p.new)
            /\ program = p.calls
    /\ input \in Inputs
    /\ pc = "build" /\ sets = <<>> /\ left = <<>>
    /\ flags = <<>>
    /\ values = [n \in DOMAIN fields |-> Zero(fields[n].kind)]

Declare ==
    /\ pc = "build" /\ program # <<>>
    /\ LET decls == Declares(Head(program))
       IN  /\ fields' = AddFields(fields, decls)
           /\ declared' = declared \o decls
    /\ values' = [n \in DOMAIN fields' |-> Zero(fields'[n].kind)]
    /\ program' = Tail(program)
    /\ UNCHANGED <<input, pc, sets, left, flags>>

----------------------------------------------------------------------------
\* Parsing them

\* The elements at these positions, in order.
Keep(s, K) == FlattenSeq([i \in DOMAIN s |-> IF i \in K THEN <<s[i]>> ELSE <<>>])

\* What strconv makes of one part.
Parses(kind, part) == CASE kind \in {"int", "ints"} -> part \in Numerals
                        [] kind \in {"bool", "bools"} -> part \in {"true", "false"}
                        [] OTHER -> TRUE

\* The variable as os.Getenv sees it once godotenv.Load has added those of the
\* .env file that are not set, not even to nothing.
Getenv(n) == CASE n \in DOMAIN input.env -> input.env[n]
               [] n \notin DOMAIN input.env /\ n \in DOMAIN input.dotenv -> input.dotenv[n]
               [] OTHER -> <<Blank>>

\* An array as its fallback's text, split again: an empty one becomes one empty part.
Split(value) == IF value = <<>> THEN <<Blank>> ELSE value

\* The parts that parse.
Parsing(kind, text) == Keep(text, {i \in DOMAIN text : Parses(kind, text[i])})

\* env.Get and its variants: an array drops the parts that do not parse.
FromEnv(kind, text, fallback) ==
    CASE kind = "string" -> IF text = <<Blank>> THEN fallback ELSE text
      [] kind \in {"int", "bool"} ->
            IF Len(text) = 1 /\ Parses(kind, text[1]) THEN text ELSE fallback
      [] kind \in Arrays ->
            Parsing(kind, IF text = <<Blank>> THEN Split(fallback) ELSE text)

\* Mutant of FlagDefault: an array's flag starts from the field's default.
FieldDefault(d) == d.def

\* What a flag holds before the arguments are parsed.
FlagDefault(d) == IF d.kind \in Arrays THEN <<>> ELSE d.def

\* Every field reads its variable and registers its flag, which panics if the set
\* has one of that name already.
Configure ==
    /\ fields' = [n \in DOMAIN fields |->
                    [fields[n] EXCEPT !.def = FromEnv(fields[n].kind, Getenv(n), fields[n].def)]]
    /\ flags' = [n \in DOMAIN fields |-> FlagDefault(fields'[n])]

\* Without an argument the command line's flag set is parsed.
ToParse(call) == IF call = <<>> THEN <<"main">> ELSE call

Parse ==
    /\ pc = "build" /\ program = <<>>
    /\ Configure
    /\ sets' = ToParse(input.call)
    /\ left' = input.args
    /\ pc' = "args"
    /\ UNCHANGED <<program, input, declared, values>>

ParseAgain ==
    /\ pc \in {"parsed", "failed"} /\ DOMAIN fields # {}
    /\ pc' = "panicked"                                  \* flag redefined
    /\ UNCHANGED <<program, input, fields, declared, sets, left, flags, values>>

\* Mutant of Skips: so is a part that is no value.
SkipsJunk(kind, text, part) ==
    kind \in Arrays /\ Len(text) # 1 /\ (part = Blank \/ ~Parses(kind, part))

\* flag/*arr.go: of several parts an empty one is skipped.
Skips(kind, text, part) == kind \in Arrays /\ Len(text) # 1 /\ part = Blank
Elements(kind, text) == Keep(text, {i \in DOMAIN text : ~Skips(kind, text, text[i])})

\* A bool's flag without a value.
Bare(a) == a.text = <<>>

\* A flag's value as the argument gives it.
Taken(kind, a) == IF Bare(a) THEN <<"true">>
                  ELSE IF kind \in Arrays THEN Elements(kind, a.text) ELSE a.text

\* Mutant of Valid: errors of Set are not reported.
Anything(kind, a) == Bare(a) => kind = "bool"

\* The argument is one that the flag takes.
Valid(kind, a) ==
    /\ Bare(a) => kind = "bool"
    /\ kind \in {"int", "bool"} => Bare(a) \/ Len(a.text) = 1
    /\ \A i \in DOMAIN a.text : Skips(kind, a.text, a.text[i]) \/ Parses(kind, a.text[i])

\* The flag is registered in this set and accepts the argument.
Accepts(s, a) ==
    /\ a.name \in DOMAIN fields /\ fields[a.name].set = s
    /\ Valid(fields[a.name].kind, a)

\* A word that is no flag ends the arguments of a set.
IsWord(a) == a.name = Blank

ParseArg ==
    /\ pc = "args" /\ left # <<>> /\ ~IsWord(Head(left)) /\ Accepts(Head(sets), Head(left))
    /\ LET a == Head(left)
           kind == fields[a.name].kind
       IN  flags' = [flags EXCEPT ![a.name] =
                        IF kind \in Arrays THEN @ \o Taken(kind, a) ELSE Taken(kind, a)]
    /\ left' = Tail(left)
    /\ UNCHANGED <<program, input, fields, declared, pc, sets, values>>

\* flag.CommandLine ends the process; another set returns its error, and so does Parse.
RejectArg ==
    /\ pc = "args" /\ Head(sets) # "nil"
    /\ left # <<>> /\ ~IsWord(Head(left)) /\ ~Accepts(Head(sets), Head(left))
    /\ pc' = IF Head(sets) = "main" THEN "exited" ELSE "failed"
    /\ UNCHANGED <<program, input, fields, declared, sets, left, flags, values>>

\* Every set parses all the arguments; one that is nil is passed over.
EndSet ==
    /\ pc = "args"
    /\ Head(sets) # "nil" /\ left # <<>> => IsWord(Head(left))
    /\ sets' = Tail(sets) /\ left' = input.args
    /\ pc' = IF Len(sets) = 1 THEN "set" ELSE "args"
    /\ UNCHANGED <<program, input, fields, declared, flags, values>>

\* setFlagValue: an array takes its default when the flag has brought no element.
Final(d, flag) == IF d.kind \in Arrays /\ flag = <<>> THEN d.def ELSE flag

SetValues ==
    /\ pc = "set"
    /\ values' = [n \in DOMAIN fields |-> Final(fields[n], flags[n])]
    /\ pc' = "parsed"
    /\ UNCHANGED <<program, input, fields, declared, sets, left, flags>>

\* Parsed once, or ended.
Rest == pc \in {"parsed", "failed", "exited", "panicked"} /\ UNCHANGED vars

Next == Declare \/ Parse \/ ParseArg \/ RejectArg \/ EndSet \/ SetValues \/ ParseAgain \/ Rest

Spec == Init /\ [][Next]_vars

----------------------------------------------------------------------------
\* A value is one that the kind of its field has.
ValueOf(kind, v) == /\ v \in Seq(Parts)
                    /\ kind \in Scalars \ {"string"} => Len(v) = 1
                    /\ \A i \in DOMAIN v : Parses(kind, v[i])

\* What the fields' constructors can be given.
IsField(d) == /\ d = Field(d.name, d.kind, d.def, d.set)
              /\ d.kind \in Scalars \cup Arrays
              /\ ValueOf(d.kind, d.def)
              /\ d.set \in {"main", "own"}
AreFields(decls) == decls \in Seq(ToSet(decls)) /\ \A i \in DOMAIN decls : IsField(decls[i])

\* What the builder can be told. An override of another type makes it panic.
IsCall(c) ==
    \/ c.call = "WithConfigFields" /\ AreFields(c.fields)
    \/ /\ c.call = "WithDefaultConfigFields"
       /\ \A j \in DOMAIN DefaultFields : \A i \in DOMAIN DefaultFields[j].fields :
              IsField(Overridden(c.overrides, DefaultFields[j].fields[i]))
    \/ c.call = "WithServiceClients" /\ c.names \in Seq(ToSet(c.names))

\* An unset variable has no text, one that is set has one part at least; and so has an
\* argument, unless it is bare.
Variables(vs) == \A n \in DOMAIN vs : vs[n] \in Seq(Parts) \ {<<>>}

ASSUME ConfigAssumption ==
    /\ \A p \in Programs : /\ AreFields(p.new)
                           /\ p.calls \in Seq(ToSet(p.calls))
                           /\ \A i \in DOMAIN p.calls : IsCall(p.calls[i])
    /\ \A i \in Inputs : /\ Variables(i.env) /\ Variables(i.dotenv)
                         /\ i.args \in Seq([name : STRING, text : Seq(Parts)])
                         /\ i.call \in Seq({"main", "own", "nil"})
    /\ {Blank, "0", "true", "false"} \cup Numerals \subseteq Parts
    /\ "0" \in Numerals /\ Blank \notin Numerals

\* The types of the variables; GetConfigField relies on the values'.
TypeOK ==
    /\ input \in Inputs
    /\ \A n \in DOMAIN fields : fields[n].name = n /\ IsField(fields[n])
    /\ pc \in {"build", "args", "set", "parsed", "failed", "exited", "panicked"}
    /\ \A i \in DOMAIN sets : sets[i] \in {"main", "own", "nil"}
    /\ IsSuffix(left, input.args)
    /\ DOMAIN flags = IF pc = "build" THEN {} ELSE DOMAIN fields
    /\ \A n \in DOMAIN flags : ValueOf(fields[n].kind, flags[n])
    /\ DOMAIN values = DOMAIN fields
    /\ \A n \in DOMAIN values : ValueOf(fields[n].kind, values[n])

\* The arguments before the first word.
Flagged == LET words == {i \in DOMAIN input.args : IsWord(input.args[i])}
           IN  {i \in DOMAIN input.args : \A w \in words : i < w}
Parsed(s) == \E i \in DOMAIN ToParse(input.call) : ToParse(input.call)[i] = s

\* The declaration that counts: the first, but among the constructor's the last.
Declaration(n) == First(declared, n)

\* What one argument says: to an array its parts but for the empty ones of a list.
Word(a) == IF Bare(a) THEN <<"true">> ELSE a.text
Brings(a) == IF Len(a.text) = 1 THEN a.text
             ELSE Keep(a.text, {i \in DOMAIN a.text : a.text[i] # Blank})

\* What the command line says of a field: of a scalar the last word, of an array all
\* arguments' elements, as often as its set was parsed.
Mine(n) == {k \in Flagged : input.args[k].name = n}
Once(n) == FlattenSeq([k \in Flagged |->
                IF input.args[k].name = n THEN Brings(input.args[k]) ELSE <<>>])
Said(n) ==
    LET d == Declaration(n)
        toParse == ToParse(input.call)
    IN  IF d.kind \in Arrays
        THEN FlattenSeq([j \in DOMAIN toParse |-> IF toParse[j] = d.set THEN Once(n) ELSE <<>>])
        ELSE IF Parsed(d.set) /\ Mine(n) # {} THEN Word(input.args[Max(Mine(n))]) ELSE <<>>

\* config.go:51-86: a field's value comes from one source alone: the command line, or
\* else its variable if that can be used, or else the default of its first declaration
\* (of an array of strings without elements, one empty string).
ValueIsWinner ==
    pc = "parsed" =>
        \A n \in DOMAIN fields :
            LET d == Declaration(n)
                text == Getenv(n)
                usable == text # <<Blank>> /\ (d.kind \in {"int", "bool"} => ValueOf(d.kind, text))
            IN  values[n] = CASE Said(n) # <<>> -> Said(n)
                              [] Said(n) = <<>> /\ usable -> Parsing(d.kind, text)
                              [] OTHER -> IF d.kind = "strings" THEN Split(d.def) ELSE d.def

\* config.go:66-79: once Parse has succeeded, every argument up to the first word was
\* that of a declared field and well-formed, in every set that was parsed; a typing
\* error is never taken for the default.
NothingIgnored ==
    pc = "parsed" =>
        \A s \in {"main", "own"}, k \in Flagged :
            LET a == input.args[k] IN
            Parsed(s) =>
                /\ a.name \in DOMAIN fields
                /\ fields[a.name].set = s
                /\ \A j \in DOMAIN a.text :
                        Parses(fields[a.name].kind, a.text[j]) \/ a.text[j] = Blank
=============================================================================
