---------------------------- MODULE ConfigLoader ----------------------------
(***************************************************************************)
(* config.Load: a .env file is read into the process environment, then the *)
(* tagged fields of a struct are filled from that environment              *)
(* (config/config.go, config/dotenv, config/env).                          *)
(*                                                                         *)
(* A variable is a pair <<prefix, key>>.  A value is a string that is only *)
(* compared; Literals says which strings a typed field accepts.  A file is *)
(* a sequence of statements: a statement is well formed or not, and its    *)
(* value is either literal text or a reference ${key} to an earlier key.   *)
(* The tag options no struct of the kit uses (file, unset, expand, init,   *)
(* notEmpty) and nested or repeated structs are left out.                  *)
(***************************************************************************)
EXTENDS Naturals, Sequences, Functions

CONSTANT Literals   \* for each field type but "string": the texts its parser accepts

(* The zero value of a field that no text was written into. *)
Zero(type) == CASE type = "bool" -> "false" [] type = "int" -> "0"
                [] type = "duration" -> "0s" [] OTHER -> ""

ASSUME LiteralsAssumption == \A t \in {"int", "bool", "duration"} : Zero(t) \in Literals[t]

(* A statement of a .env file: a name is a pair <<prefix, key>>. *)
NoRef == <<>>
Assign(name, text) == [wellFormed |-> TRUE, name |-> name, text |-> text, ref |-> NoRef]
Refer(name, other) == [wellFormed |-> TRUE, name |-> name, text |-> "", ref |-> other]
Garbage == [wellFormed |-> FALSE, name |-> <<"", "">>, text |-> "", ref |-> NoRef]

(* A file that is not there reads like one that does not parse: with an error. *)
NoFile == <<Garbage>>

(* A variable is set. *)
Setenv(vars, name, text) ==
    [n \in {name} \cup DOMAIN vars |-> IF n = name THEN text ELSE vars[n]]

Lookup(vars, name) == IF name \in DOMAIN vars THEN vars[name] ELSE ""

(* extractVarValue: a reference is resolved against the file's earlier keys only. *)
ExtractVarValue(stmt, vars) == IF stmt.ref # NoRef THEN Lookup(vars, stmt.ref) ELSE stmt.text

(* parseBytes: the last assignment of a key wins; a malformed statement fails *)
(* the file, and what was read before it is lost with it.                     *)
ReadOne(out, stmt) ==
    CASE out.err -> out
      [] ~out.err /\ ~stmt.wellFormed -> [err |-> TRUE, vars |-> <<>>]
      [] OTHER -> [err |-> FALSE,
                   vars |-> Setenv(out.vars, stmt.name, ExtractVarValue(stmt, out.vars))]

(* What the first n statements give, for every n. *)
ReadUpTo(stmts) ==
    LET read[n \in 0..Len(stmts)] ==
            IF n = 0 THEN [err |-> FALSE, vars |-> <<>>]
            ELSE ReadOne(read[n - 1], stmts[n])
    IN  read

ParseBytes(stmts) == ReadUpTo(stmts)[Len(stmts)]

(* A mutant of Unset: a variable that is set to nothing counts as unset. *)
UnsetOrEmpty(file, environ) ==
    LET vars == ParseBytes(file).vars
    IN  Restrict(vars, {n \in DOMAIN vars : Lookup(environ, n) = ""})

(* loadFile, up to its loop: what it will set, given the environment it saw. *)
(* Load never overloads: a variable of the process stays, even an empty one. *)
Unset(file, environ) ==
    LET vars == ParseBytes(file).vars
    IN  Restrict(vars, DOMAIN vars \ DOMAIN environ)

-----------------------------------------------------------------------------

(* A tagged field of a configuration struct. *)
Field(key, type, default) ==
    [key |-> key, type |-> type, default |-> default, required |-> FALSE]
Text(key) == Field(key, "string", "")
RequiredText(key) == [Text(key) EXCEPT !.required = TRUE]

(* getOr: an empty variable counts as absent where there is a default. *)
GetOr(field, name, environ) ==
    LET given == Lookup(environ, name)
    IN  IF given = "" /\ field.default # ""
        THEN [val |-> field.default, exists |-> TRUE]
        ELSE [val |-> given, exists |-> name \in DOMAIN environ]

(* get: a required field needs a variable or a default. *)
Get(field, name, environ) ==
    LET got == GetOr(field, name, environ)
    IN  [err |-> field.required /\ ~got.exists, val |-> got.val]

(* set: a typed field wants text its parser accepts. *)
Accepts(type, text) == type = "string" \/ text \in Literals[type]

(* setField: nothing is written for an empty value, and nothing fails. *)
SetField(field, name, environ) ==
    LET got == Get(field, name, environ)
    IN  IF got.err \/ (got.val # "" /\ ~Accepts(field.type, got.val))
        THEN [err |-> TRUE, val |-> Zero(field.type)]
        ELSE [err |-> FALSE, val |-> IF got.val = "" THEN Zero(field.type) ELSE got.val]

(* doParse: every field is tried, and one failure fails the whole struct. *)
DoParse(fields, prefix, environ) ==
    LET done == [i \in DOMAIN fields |-> SetField(fields[i], <<prefix, fields[i].key>>, environ)]
    IN  [err |-> \E i \in DOMAIN fields : done[i].err,
         cfg |-> [k \in {fields[i].key : i \in DOMAIN fields} |->
                    done[CHOOSE i \in DOMAIN fields : fields[i].key = k].val]]

-----------------------------------------------------------------------------

(***************************************************************************)
(* What the documentation promises of one variable, without the steps: the *)
(* process's own value, else what a readable file gives it last, else      *)
(* nothing.                                                                *)
(***************************************************************************)
Readable(file) == \A i \in DOMAIN file : file[i].wellFormed

(* The last of the first statements that is about a name, if there is one. *)
LastOf(file, name, upto) ==
    {i \in 1..upto : file[i].name = name /\ \A j \in i + 1..upto : file[j].name # name}

(* The text each statement gives its name. *)
Texts(file) ==
    LET text[i \in 1..Len(file)] ==
            LET before == LastOf(file, file[i].ref, i - 1)
            IN  IF file[i].ref = NoRef THEN file[i].text
                ELSE IF before = {} THEN "" ELSE text[CHOOSE j \in before : TRUE]
    IN  text

Given(file, own, name) ==
    LET last == LastOf(file, name, Len(file))
    IN  IF name \in DOMAIN own THEN [set |-> TRUE, text |-> own[name]]
        ELSE IF Readable(file) /\ last # {}
        THEN [set |-> TRUE, text |-> Texts(file)[CHOOSE i \in last : TRUE]]
        ELSE [set |-> FALSE, text |-> ""]

(* The documented value of a field, and whether the struct can be filled at all. *)
Documented(field, prefix, file, own) ==
    LET text == Given(file, own, <<prefix, field.key>>).text
    IN  CASE text # "" -> text
          [] text = "" /\ field.default # "" -> field.default
          [] OTHER -> Zero(field.type)

Fillable(fields, prefix, file, own) ==
    \A i \in DOMAIN fields :
        LET f == fields[i]
        IN  /\ f.required => f.default # "" \/ Given(file, own, <<prefix, f.key>>).set
            /\ \/ f.type = "string"
               \/ Documented(f, prefix, file, own) \in Literals[f.type]
=============================================================================
