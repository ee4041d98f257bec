---------------------------- MODULE MessageQueue ----------------------------
(***************************************************************************)
(* What a program that writes values with a codec and reads them back may  *)
(* rely on: a queue of values.  Every value that fits its wire format can  *)
(* be written, none that does not; the values come out whole, in order,    *)
(* and nothing else comes out.                                             *)
(***************************************************************************)
EXTENDS Sequences

CONSTANTS
  Messages,  \* Messages[s]: the values that fit, for each schema s
  Oversized  \* Oversized[s]: values that do not

VARIABLES
  schema,  \* the format in use
  queue,   \* values written and not yet read
  event    \* what the last call did

Init == schema \in DOMAIN Messages /\ queue = <<>> /\ event = <<"start">>

Write(m) ==
  /\ m \in Messages[schema]
  /\ queue' = Append(queue, m)
  /\ event' = <<"written", m>>
  /\ UNCHANGED schema

Refuse(m) ==
  /\ m \in Oversized[schema]
  /\ event' = <<"refused", m>>
  /\ UNCHANGED <<schema, queue>>

Read ==
  /\ queue # <<>>
  /\ queue' = Tail(queue)
  /\ event' = <<"read", Head(queue)>>
  /\ UNCHANGED schema

ReadNothing ==
  /\ queue = <<>>
  /\ event' = <<"nothing">>
  /\ UNCHANGED <<schema, queue>>

Next ==
  \/ \E m \in Messages[schema] : Write(m)
  \/ \E m \in Oversized[schema] : Refuse(m)
  \/ Read
  \/ ReadNothing

Spec == Init /\ [][Next]_<<schema, queue, event>>
=============================================================================
