---------------------------- MODULE PlistDocument ---------------------------
(***************************************************************************)
(* What a program that edits property lists through records may rely on:   *)
(* a dictionary, of which it changes one key at a time.  Keys that the     *)
(* program's records know nothing of come back unchanged, unless it saves  *)
(* without them.                                                           *)
(***************************************************************************)
CONSTANTS
  Nil,          \* no value
  Known,        \* Known[s]: the keys of the program's records
  Normal(_, _), \* Normal(s, d): d is represented by a record without loss
  Trim(_, _)    \* Trim(s, d): d without the keys that no record knows

VARIABLES
  schema,  \* the kind of document
  isSaved, \* whether what is saved is a dictionary
  disk,    \* its entries
  isOpen,  \* whether the program has a document
  open,    \* its entries
  request  \* what the program asked for last

saved == <<isSaved, disk>>
document == <<isOpen, open>>

vars == <<schema, saved, document, request>>

At(d, key) == IF key \in DOMAIN d THEN d[key] ELSE Nil

Agree(d, e, keys) == \A key \in keys : At(d, key) = At(e, key)

AllKeys(d, e) == DOMAIN d \cup DOMAIN e

Same(d, e) == Agree(d, e, AllKeys(d, e))

Init == ~isOpen

(* A document that records do not represent exactly, such as one with too  *)
(* large a number, still keeps its unknown keys.                           *)
Open ==
  /\ request'.call = "open"
  /\ isSaved /\ isOpen'
  /\ \E read \in {open'} :
       \/ Same(read, disk)
       \/ /\ ~Normal(schema, disk)
          /\ Agree(read, disk, AllKeys(read, disk) \ Known[schema])
  /\ UNCHANGED saved

(* A new document has no other keys than the records'.                     *)
New ==
  /\ request'.call = "new"
  /\ isOpen'
  /\ DOMAIN open' \subseteq Known[schema]
  /\ UNCHANGED saved

Change ==
  /\ request'.call = "change"
  /\ isOpen /\ isOpen'
  /\ \E old \in {open}, new \in {open'} :
       /\ At(new, request'.key) = request'.plist
       /\ Agree(new, old, AllKeys(new, old) \ {request'.key})
  /\ UNCHANGED saved

Save ==
  /\ request'.call \in {"save", "save known"}
  /\ isOpen /\ isSaved'
  /\ \E written \in {IF request'.call = "save" THEN open
                    ELSE Trim(schema, open)} : Same(disk', written)
  /\ UNCHANGED document

(* What cannot be read or written leaves both documents alone; what is     *)
(* normal can be read.                                                     *)
Fail ==
  /\ request'.call \in {"open", "save", "save known"}
  /\ request'.call = "open" /\ isSaved => ~Normal(schema, disk)
  /\ UNCHANGED <<saved, document>>

Next == (Open \/ New \/ Change \/ Save \/ Fail) /\ UNCHANGED schema

Spec == Init /\ [][Next]_vars
=============================================================================
