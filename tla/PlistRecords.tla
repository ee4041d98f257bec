---------------------------- MODULE PlistRecords ----------------------------
(***************************************************************************)
(* Property list records (src/src/plist_record_type.hpp): how              *)
(* PropertyListType<T> and PL_PLIST_FIELDS convert between C++ values and  *)
(* property lists, and the codec that writes and reads records.            *)
(***************************************************************************)
EXTENDS Integers, Sequences, SequencesExt, Functions

CONSTANT NotUTF8  \* std::strings that stringWithUTF8String: has no NSString for

(***************************************************************************)
(* Property lists: objects with their class.  The entries of a dictionary  *)
(* are a function on its keys.                                             *)
(***************************************************************************)
Nil == [class |-> "nil"]
NSString(string) == [class |-> "NSString", string |-> string]
NSNumber(number) == [class |-> "NSNumber", number |-> number]
NSArray(elements) == [class |-> "NSArray", elements |-> elements]
NSDictionary(entries) == [class |-> "NSDictionary", entries |-> entries]
NSObject(class) == [class |-> class]

NoEntries == [key \in {} |-> Nil]

EntriesOf(plist) == IF plist.class = "NSDictionary" THEN plist.entries ELSE NoEntries

(* plist[@"key"], of a dictionary or nil.                                  *)
Lookup(plist, key) ==
  IF key \in DOMAIN EntriesOf(plist) THEN plist.entries[key] ELSE Nil

(***************************************************************************)
(* C++ types.  A value of Maybe(T) is a sequence of at most one value; one *)
(* of Record has its fields, and the dictionary pl_plist_extra_keys.       *)
(***************************************************************************)
String == [kind |-> "string"]
Bool == [kind |-> "bool"]
Number(bits, signed) == [kind |-> "number", bits |-> bits, signed |-> signed]
Object(class) == [kind |-> "object", class |-> class]
Pointer(T) == [kind |-> "pointer", of |-> T]
Maybe(T) == [kind |-> "maybe", of |-> T]
Vector(T) == [kind |-> "vector", of |-> T]
Record(names, types) == [kind |-> "record", names |-> names, types |-> types]

Least(T) == IF T.signed THEN -(2 ^ (T.bits - 1)) ELSE 0
NumbersOf(T) == Least(T) .. Least(T) + 2 ^ T.bits - 1

Names(T) == {T.names[i] : i \in DOMAIN T.names}
FieldTypes(T) == [i \in DOMAIN T.names |-> T.types[T.names[i]]]
FieldValues(T, record) == [i \in DOMAIN T.names |-> record.fields[T.names[i]]]
IndexOf(T, name) == CHOOSE i \in DOMAIN T.names : T.names[i] = name

(***************************************************************************)
(* Results: a value, a ParseError, or an exception of the Objective-C      *)
(* runtime.                                                                *)
(***************************************************************************)
Right(value) == [is |-> "right", value |-> value]
Left == [is |-> "left"]
Throw == [is |-> "throw"]

(* F(x) for what x is now: TLC evaluates x once.                           *)
With(x, F(_)) == CHOOSE y \in {F(z) : z \in {x}} : TRUE

Bind(result, F(_)) ==
  With(result, LAMBDA r : IF r.is = "right" THEN F(r.value) ELSE r)

(***************************************************************************)
(* from_plist                                                              *)
(***************************************************************************)

NarrowNot(T, number) == number

(* charValue, unsignedShortValue, ... keep the low bits.                   *)
Narrow(T, number) == ((number - Least(T)) % (2 ^ T.bits)) + Least(T)

(* for (id value in array), whatever the array is; a dictionary gives its  *)
(* keys, in no particular order.                                           *)
Enumerable(plist) == plist.class \in {"nil", "NSArray", "NSDictionary"}
Enumerated(plist) ==
  CASE plist.class = "nil" -> <<>>
    [] plist.class = "NSArray" -> plist.elements
    [] plist.class = "NSDictionary" ->
         LET keys == SetToSeq(DOMAIN plist.entries)
         IN  [i \in DOMAIN keys |-> NSString(keys[i])]

ExtraKeysAll(T, plist) == EntriesOf(plist)

(* What is left of the copy when the fields have been removed.             *)
ExtraKeys(T, plist) == Restrict(EntriesOf(plist), DOMAIN EntriesOf(plist) \ Names(T))

RecordOf(T, values, plist) ==
  [fields |-> [name \in Names(T) |-> values[IndexOf(T, name)]],
   extra |-> ExtraKeys(T, plist)]

(* FromPlists converts the elements of a sequence until one cannot be.     *)
RECURSIVE FromPlist(_, _)
RECURSIVE FromPlists(_, _)
FromPlists(types, plists) ==
  IF plists = <<>> THEN Right(<<>>)
  ELSE Bind(FromPlist(Head(types), Head(plists)), LAMBDA first :
         Bind(FromPlists(Tail(types), Tail(plists)), LAMBDA rest :
           Right(<<first>> \o rest)))

FromPlist(T, plist) ==
  CASE T.kind = "string" -> IF plist.class = "NSString" THEN Right(plist.string) ELSE Left
    [] T.kind = "bool" ->
         IF plist.class = "NSNumber" THEN Right(IF plist.number = 0 THEN 0 ELSE 1) ELSE Left
    [] T.kind = "number" ->
         IF plist.class = "NSNumber" THEN Right(Narrow(T, plist.number)) ELSE Left
    [] T.kind = "object" -> IF plist.class = T.class THEN Right(plist) ELSE Left
    [] T.kind = "pointer" -> FromPlist(T.of, plist)
    [] T.kind = "maybe" ->
         IF plist = Nil THEN Right(<<>>)
         ELSE Bind(FromPlist(T.of, plist), LAMBDA value : Right(<<value>>))
    [] T.kind = "vector" ->
         IF ~Enumerable(plist) THEN Throw
         ELSE With(Enumerated(plist), LAMBDA elements :
                FromPlists([i \in DOMAIN elements |-> T.of], elements))
    [] T.kind = "record" ->
         IF plist.class \notin {"nil", "NSDictionary"} THEN Throw
         ELSE Bind(FromPlists(FieldTypes(T),
                              [i \in DOMAIN T.names |-> Lookup(plist, T.names[i])]),
                   LAMBDA values : Right(RecordOf(T, values, plist)))

(***************************************************************************)
(* to_plist.  Unsaveable is in the place of a value whose conversion       *)
(* raises an exception: addObject: does so for nil.                        *)
(***************************************************************************)
Options == {"IncludeExtraKeys", "NoExtraKeys"}

Unsaveable == NSObject("unsaveable")

BaseEntries(record, options) == IF options = "IncludeExtraKeys" THEN record.extra ELSE NoEntries

(* The values that are not nil are set over the extra keys.                *)
Insert(T, entries, plists) ==
  LET isNil(name) == plists[IndexOf(T, name)] = Nil
  IN  [key \in DOMAIN entries \cup {name \in Names(T) : ~isNil(name)} |->
         IF key \in Names(T) /\ ~isNil(key) THEN plists[IndexOf(T, key)] ELSE entries[key]]

RECURSIVE ToPlist(_, _, _)
RECURSIVE ToPlists(_, _, _)
ToPlists(types, values, options) ==
  IF values = <<>> THEN <<>>
  ELSE <<ToPlist(Head(types), Head(values), options)>> \o ToPlists(Tail(types), Tail(values), options)

EntriesOptionsDropped(T, record, options) ==
  With(ToPlists(FieldTypes(T), FieldValues(T, record), "NoExtraKeys"), LAMBDA plists :
    Insert(T, BaseEntries(record, options), plists))

Entries(T, record, options) ==
  With(ToPlists(FieldTypes(T), FieldValues(T, record), options), LAMBDA plists :
    Insert(T, BaseEntries(record, options), plists))

ToPlist(T, value, options) ==
  CASE T.kind = "string" -> IF value \in NotUTF8 THEN Nil ELSE NSString(value)
    [] T.kind \in {"bool", "number"} -> NSNumber(value)
    [] T.kind = "object" -> value
    [] T.kind = "pointer" -> ToPlist(T.of, value, options)
    [] T.kind = "maybe" -> IF value = <<>> THEN Nil ELSE ToPlist(T.of, value[1], options)
    [] T.kind = "vector" ->
         With(ToPlists([i \in DOMAIN value |-> T.of], value, options), LAMBDA elements :
           IF Nil \in Range(elements) \/ Unsaveable \in Range(elements)
             THEN Unsaveable ELSE NSArray(elements))
    [] T.kind = "record" ->
         With(Entries(T, value, options), LAMBDA entries :
           IF Unsaveable \in Range(entries) THEN Unsaveable ELSE NSDictionary(entries))

(***************************************************************************)
(* plist_record_codec.  Data is the property list that was serialized in   *)
(* it, or NotAPlist; a format has no room for objects of other classes.    *)
(***************************************************************************)
NotAPlist == NSObject("garbage")

RECURSIVE Serializable(_)
Serializable(plist) ==
  CASE plist.class = "NSArray" ->
         \A i \in DOMAIN plist.elements : Serializable(plist.elements[i])
    [] plist.class = "NSDictionary" ->
         \A key \in DOMAIN plist.entries : Serializable(plist.entries[key])
    [] OTHER -> plist.class \in {"NSString", "NSNumber", "NSData"}

Encode(T, record, options) ==
  With(ToPlist(T, record, options), LAMBDA dict :
    IF dict = Unsaveable THEN Throw ELSE IF Serializable(dict) THEN Right(dict) ELSE Left)

Decode(T, data) == IF data.class # "NSDictionary" THEN Left ELSE FromPlist(T, data)
=============================================================================
