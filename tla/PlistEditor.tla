----------------------------- MODULE PlistEditor ----------------------------
(***************************************************************************)
(* A program that reads property list records from a file with             *)
(* plist_record_codec, changes their fields one at a time with the         *)
(* modifiers of record_type.hpp, and writes them back.                     *)
(***************************************************************************)
EXTENDS PlistRecords, FiniteSets

CONSTANTS
  Schemas,  \* Schemas[s]: a record type
  Foreign,  \* Foreign[s]: contents of files from elsewhere
  Values,   \* Values[s][name]: values that the program sets a field to
  Initial,  \* Initial[s]: lists of arguments that it constructs records of
  MaxEdits  \* bound: fields set in a behavior

VARIABLES
  schema,  \* the record type in use
  data,    \* the encoded file
  record,  \* the program's record, if it has one
  last,    \* the last call and its result
  edits    \* fields set so far

vars == <<schema, data, record, last, edits>>

Type == Schemas[schema]

HasRecord == record # <<>>

Init ==
  /\ schema \in DOMAIN Schemas
  /\ data \in Foreign[schema]
  /\ record = <<>>
  /\ last = [call |-> "none"]
  /\ edits = 0

(* codec.decode(data)                                                      *)
ReadFile ==
  /\ \E decoded \in {Decode(Type, data)} :
       /\ last' = [call |-> "decode", result |-> decoded]
       /\ record' = IF decoded.is = "right" THEN <<decoded.value>> ELSE record
  /\ UNCHANGED <<schema, data, edits>>

(* codec.encode(record)                                                    *)
WriteFile(options) ==
  /\ HasRecord
  /\ \E encoded \in {Encode(Type, record[1], options)} :
       /\ last' = [call |-> "encode", options |-> options, result |-> encoded]
       /\ data' = IF encoded.is = "right" THEN encoded.value ELSE data
  /\ UNCHANGED <<schema, record, edits>>

(* record = T(arguments...)                                                *)
Construct(arguments) ==
  /\ record' = <<RecordOf(Type, arguments, Nil)>>
  /\ last' = [call |-> "construct"]
  /\ UNCHANGED <<schema, data, edits>>

ModifyDropsExtraKeys(name, value) ==
  /\ HasRecord /\ edits < MaxEdits
  /\ record' = <<[record[1] EXCEPT !.fields[name] = value, !.extra = NoEntries]>>
  /\ last' = [call |-> "modify", name |-> name, value |-> value]
  /\ edits' = edits + 1
  /\ UNCHANGED <<schema, data>>

(* record = record.name(value)                                             *)
Modify(name, value) ==
  /\ HasRecord /\ edits < MaxEdits
  /\ record' = <<[record[1] EXCEPT !.fields[name] = value]>>
  /\ last' = [call |-> "modify", name |-> name, value |-> value]
  /\ edits' = edits + 1
  /\ UNCHANGED <<schema, data>>

Next ==
  \/ ReadFile
  \/ \E options \in Options : WriteFile(options)
  \/ \E arguments \in Initial[schema] : Construct(arguments)
  \/ \E name \in Names(Type) : \E value \in Values[schema][name] : Modify(name, value)

Spec == Init /\ [][Next]_vars

(***************************************************************************)
(* Reference definitions.                                                  *)
(***************************************************************************)

(* A value that the C++ type has, with extra keys apart from the fields.   *)
RECURSIVE HasType(_, _)
HasType(T, value) ==
  CASE T.kind = "string" -> value \in STRING
    [] T.kind = "bool" -> value \in {0, 1}
    [] T.kind = "number" -> value \in NumbersOf(T)
    [] T.kind = "object" -> value.class \in {T.class, "nil"}
    [] T.kind = "pointer" -> HasType(T.of, value)
    [] T.kind \in {"maybe", "vector"} -> \A i \in DOMAIN value : HasType(T.of, value[i])
    [] T.kind = "record" ->
         /\ DOMAIN value.fields = Names(T)
         /\ \A name \in Names(T) : HasType(T.types[name], value.fields[name])

(* The extra keys of a record, and of the records in it, collide with none *)
(* of its fields.                                                          *)
RECURSIVE Apart(_, _)
Apart(T, value) ==
  CASE T.kind = "pointer" -> Apart(T.of, value)
    [] T.kind \in {"maybe", "vector"} -> \A i \in DOMAIN value : Apart(T.of, value[i])
    [] T.kind = "record" ->
         /\ DOMAIN value.extra \cap Names(T) = {}
         /\ \A name \in Names(T) : Apart(T.types[name], value.fields[name])
    [] OTHER -> TRUE

(* A property list that has a representation as T.                         *)
RECURSIVE IsNormal(_, _)
IsNormal(T, plist) ==
  CASE T.kind = "string" -> plist.class = "NSString"
    [] T.kind = "bool" -> plist.class = "NSNumber" /\ plist.number \in {0, 1}
    [] T.kind = "number" -> plist.class = "NSNumber" /\ plist.number \in NumbersOf(T)
    [] T.kind = "object" -> plist.class = T.class
    [] T.kind = "pointer" -> IsNormal(T.of, plist)
    [] T.kind = "maybe" -> plist = Nil \/ IsNormal(T.of, plist)
    [] T.kind = "vector" ->
         /\ plist.class = "NSArray"
         /\ \A i \in DOMAIN plist.elements : IsNormal(T.of, plist.elements[i])
    [] T.kind = "record" ->
         /\ plist.class = "NSDictionary"
         /\ \A name \in Names(T) : IsNormal(T.types[name], Lookup(plist, name))

(* A property list without the keys that T and the records in it have no   *)
(* fields for.                                                             *)
RECURSIVE Trimmed(_, _)
Trimmed(T, plist) ==
  CASE T.kind \in {"pointer", "maybe"} -> Trimmed(T.of, plist)
    [] T.kind = "vector" /\ plist.class = "NSArray" ->
         NSArray([i \in DOMAIN plist.elements |-> Trimmed(T.of, plist.elements[i])])
    [] T.kind = "record" /\ plist.class = "NSDictionary" ->
         NSDictionary([key \in DOMAIN plist.entries \cap Names(T) |->
                         Trimmed(T.types[key], plist.entries[key])])
    [] OTHER -> plist

(* Every part of the value has a property list.                            *)
RECURSIVE Expressible(_, _)
Expressible(T, value) ==
  CASE T.kind = "string" -> value \notin NotUTF8
    [] T.kind = "object" -> value # Nil
    [] T.kind = "pointer" -> Expressible(T.of, value)
    [] T.kind \in {"maybe", "vector"} -> \A i \in DOMAIN value : Expressible(T.of, value[i])
    [] T.kind = "record" ->
         \A name \in Names(T) : Expressible(T.types[name], value.fields[name])
    [] OTHER -> TRUE

(***************************************************************************)
(* Properties.                                                             *)
(***************************************************************************)

(* Records hold values of their types, whatever the file holds.            *)
TypeOK ==
  /\ schema \in DOMAIN Schemas
  /\ HasRecord => HasType(Type, record[1])
  /\ edits \in 0 .. MaxEdits

(* Whatever was loaded, set and saved before, an extra key that is written *)
(* back is no field's key, at any depth: to_plist writes extra keys and    *)
(* fields to the same dictionary.                                          *)
ExtraKeysApart == HasRecord => Apart(Type, record[1])

(* What was written reads back as the same record; without extra keys, as  *)
(* a record whose fields are equal.                                        *)
WrittenReadsBack ==
  last.call = "encode" /\ last.result.is = "right" /\ Expressible(Type, record[1]) =>
    LET again == Decode(Type, data)
    IN  /\ again.is = "right"
        /\ last.options = "IncludeExtraKeys" => again.value = record[1]
        /\ ToPlist(Type, again.value, "NoExtraKeys") = ToPlist(Type, record[1], "NoExtraKeys")

(* The record is a document of which the program changes one key at a time.*)
Request ==
  CASE last.call = "none" -> last
    [] last.call = "decode" -> [call |-> "open"]
    [] last.call = "encode" ->
         [call |-> IF last.options = "IncludeExtraKeys" THEN "save" ELSE "save known"]
    [] last.call = "construct" -> [call |-> "new"]
    [] last.call = "modify" ->
         [call |-> "change", key |-> last.name,
          plist |-> ToPlist(Type.types[last.name], last.value, "IncludeExtraKeys")]

Abs == INSTANCE PlistDocument
         WITH Known <- [s \in DOMAIN Schemas |-> Names(Schemas[s])],
              Normal <- LAMBDA s, entries : IsNormal(Schemas[s], NSDictionary(entries)),
              Trim <- LAMBDA s, entries : Trimmed(Schemas[s], NSDictionary(entries)).entries,
              isSaved <- data.class = "NSDictionary",
              disk <- EntriesOf(data),
              isOpen <- HasRecord,
              open <- IF HasRecord THEN Entries(Type, record[1], "IncludeExtraKeys") ELSE NoEntries,
              request <- Request

Implements == Abs!Spec
=============================================================================
